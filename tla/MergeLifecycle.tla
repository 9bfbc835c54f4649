--------------------------- MODULE MergeLifecycle ---------------------------
(***************************************************************************)
(* The merge of one runner, from the exit of its plan-runner process to    *)
(* the verdict in its merge_status key, through listener restarts, user    *)
(* commands and the heartbeat (scripts/plan_runner/_dr_merge.py,           *)
(* _dr_merge_persistence.py, _dr_stream_cleanup.py, _dr_process_utils.py,  *)
(* _dr_commands.py and dev-runner-command-listener.py).                    *)
(*                                                                         *)
(* A thread does the jobs of one kind:                                     *)
(*   "stream"     the thread that started the process and saw it exit      *)
(*   "monitor"    the thread of a listener that re-attached to the process *)
(*   "recover"    the reconnect pass of a listener that has just started   *)
(*   "heartbeat"  the listener's heartbeat, once the process is dead       *)
(*   "retry"      a retry-merge command                                    *)
(*   "approved"   a retry-merge command with approve_service_lock          *)
(*   "direct"     a direct-merge command, on a runner id of its own        *)
(*   "resolve"    a resolve-conflict command                               *)
(*   "poll"       the API process, asked for the list of runners           *)
(* The merge turn, the git repository and the subprocesses are seen by     *)
(* their outcomes only; MergeQueue models the turn.                        *)
(***************************************************************************)
EXTENDS Naturals, MergeState

CONSTANTS
    Threads,       \* threads of the listener
    JobOf,         \* the kind of job a thread does
    Visible,       \* triggered by a user: cleanup keeps the runner's keys
    ExitCodes,     \* what the post-merge subprocess may return
    ExitStatuses,  \* merge_status the plan-runner process may leave behind
    Overlap,       \* jobs start while other jobs of the runner are running
    MaxJobs,       \* bound: jobs per thread
    FaultKinds,    \* the faults that may happen
    MaxFaults      \* bound: how many of them

Jobs == {"stream", "monitor", "recover", "heartbeat", "retry", "approved",
         "direct", "resolve", "poll"}

ASSUME LifecycleAssumption ==
    /\ JobOf \in [Threads -> Jobs]
    /\ Visible \in BOOLEAN
    /\ ExitCodes \subseteq {0, 1, 2, 3, 5}
    /\ ExitStatuses \subseteq Statuses
    /\ Overlap \in BOOLEAN
    /\ MaxJobs \in Nat
    /\ FaultKinds \subseteq {"exception", "crash", "done", "log", "pid"}
    /\ MaxFaults \in Nat

VARIABLES
    mergeStatus,  \* ...:merge_status, "none" when there is no key
    requested,    \* ...:merge_requested
    registered,   \* ...:status, and membership in the active runners
    process,      \* the plan-runner process
    outcome,      \* what the process left to do, once it has exited
    landed,       \* the branch is merged into main
    doneTried,    \* the done flow of the plan has been entered
    listener,     \* the listener process
    tracking,     \* who of _running_processes will see the process exit
    pc,           \* where each thread is
    want,         \* the transition() a thread is inside of
    read,         \* what a thread has got from merge_status
    accepted,     \* whether its last transition() was allowed
    result,       \* merge_status of the result it will report
    jobs,         \* jobs a thread has begun
    faults        \* faults that have happened

runner == <<registered, process, outcome, landed, doneTried, tracking>>
keys == <<mergeStatus, requested>>
control == <<want, read, accepted>>
counts == <<jobs, faults>>
vars == <<keys, runner, listener, pc, control, result, counts>>

Nothing == [to |-> "none", by |-> "nobody"]
Unread == "unread"

Labels == {"idle", "decide", "inline", "preserve", "queueing", "acquire", "gate",
           "gated", "postmerge", "landing", "done", "fixing", "mending",
           "repairing", "conclude", "fallback", "guard", "cleanup", "retire",
           "keep", "settle", "recover", "force", "resolver"}

-----------------------------------------------------------------------------
HasJob(job) == \E t \in Threads : JobOf[t] = job

(* A runner the listener has just started, or a runner id that a direct    *)
(* merge will use, which has no process.                                   *)
Init ==
    /\ mergeStatus = "none"
    /\ requested = FALSE
    /\ \/ HasJob("stream") /\ process = "running"
       \/ HasJob("direct") /\ process = "exited"
    /\ registered = IF process = "running" THEN "running" ELSE "stopped"
    /\ outcome = "none"
    /\ landed = FALSE
    /\ doneTried = FALSE
    /\ listener = "up"
    /\ tracking = IF process = "running" THEN "stream" ELSE "none"
    /\ pc = [t \in Threads |-> "idle"]
    /\ want = [t \in Threads |-> Nothing]
    /\ read = [t \in Threads |-> Unread]
    /\ accepted = [t \in Threads |-> TRUE]
    /\ result = [t \in Threads |-> "none"]
    /\ jobs = [t \in Threads |-> 0]
    /\ faults = 0

(* A thread at a label, outside of transition(). *)
At(t, label) == pc[t] = label /\ want[t] = Nothing /\ listener = "up"

Goto(t, label) == pc' = [pc EXCEPT ![t] = label]
Report(t, status) == result' = [result EXCEPT ![t] = status]

(* Call transition(to) on behalf of an action. *)
Ask(t, to, action) ==
    want' = [want EXCEPT ![t] = [to |-> to, by |-> action]]

(* The action name _execute_merge_with_lock works under. *)
ActionOf(t) == CASE JobOf[t] = "retry" -> "retry-merge"
                 [] JobOf[t] = "approved" -> "approved-retry"
                 [] OTHER -> "inline-merge"

(* Ask for a status and report it as the result, then conclude. *)
End(t, status) ==
    /\ Ask(t, status, ActionOf(t))
    /\ Report(t, status)
    /\ Goto(t, "conclude")

(* A failed done flow or a residue on main is one of these two. *)
Blocked == {"residue_blocked", "error"}

Fault(kind) ==
    /\ kind \in FaultKinds
    /\ faults < MaxFaults
    /\ faults' = faults + 1

Idle == \A t \in Threads : pc[t] = "idle" /\ want[t] = Nothing

(* A stream thread does not touch a terminal status. *)
Kept(t) == JobOf[t] = "stream" /\ mergeStatus \in TERMINAL

-----------------------------------------------------------------------------
(***************************************************************************)
(* MergePersistence.transition: GET, compare, SET, with other threads in   *)
(* between.                                                                *)
(***************************************************************************)
Consult(t) ==
    /\ want[t] # Nothing /\ read[t] = Unread
    /\ read' = [read EXCEPT ![t] = mergeStatus]
    /\ UNCHANGED <<keys, runner, listener, pc, want, accepted, result, counts>>

Commit(t) ==
    /\ want[t] # Nothing /\ read[t] # Unread
    /\ LET ok == Allowed(read[t], want[t].to, want[t].by) IN
         /\ accepted' = [accepted EXCEPT ![t] = ok]
         /\ mergeStatus' = IF ok THEN want[t].to ELSE mergeStatus
    /\ want' = [want EXCEPT ![t] = Nothing]
    /\ read' = [read EXCEPT ![t] = Unread]
    /\ UNCHANGED <<requested, runner, listener, pc, result, counts>>

(***************************************************************************)
(* How jobs begin                                                          *)
(***************************************************************************)

(* The plan-runner process ends.  It may have asked for a merge, it may    *)
(* have merged by itself, and it may have stopped, before any of that,     *)
(* with an error about the root worktree, which only the thread that reads *)
(* its output learns of.                                                   *)
ProcessExits ==
    /\ process = "running"
    /\ process' = "exited"
    /\ requested' \in BOOLEAN
    /\ \E status \in ExitStatuses, left \in {"nothing", "mergeable", "scope"} :
          /\ left = "scope" => status = "none" /\ ~requested' /\ tracking = "stream"
          /\ mergeStatus' = status
          /\ outcome' = left
          /\ landed' = (status = "merged")
    /\ UNCHANGED <<registered, doneTried, tracking, listener, pc, control,
                   result, counts>>

Begin(t, job, label) ==
    /\ JobOf[t] = job
    /\ At(t, "idle")
    /\ process = "exited"
    /\ jobs[t] < MaxJobs
    /\ jobs' = [jobs EXCEPT ![t] = @ + 1]
    /\ Goto(t, label)
    /\ UNCHANGED <<listener, faults>>

(* _stream_output's finally block: an error about the root worktree is     *)
(* recorded before anything else.                                          *)
StreamBegins(t) ==
    /\ Begin(t, "stream", "decide")
    /\ jobs[t] = 0 /\ outcome # "none"
    /\ tracking' = IF tracking = "stream" THEN "busy" ELSE tracking
    /\ IF outcome = "scope" THEN Ask(t, "residue_blocked", "approved-retry")
                            ELSE UNCHANGED want
    /\ UNCHANGED <<keys, registered, process, outcome, landed, doneTried, read,
                   accepted, result>>

(* A terminal status is kept, and written once more when its reason is     *)
(* missing; completed work is merged; anything else only gets the fallback.*)
Decide(t) ==
    /\ At(t, "decide")
    /\ \/ /\ Kept(t)
          /\ requested' = FALSE
          /\ Goto(t, "cleanup")
          /\ UNCHANGED want \/ Ask(t, mergeStatus, "inline-merge")
       \/ /\ ~Kept(t)
          /\ Goto(t, IF outcome = "mergeable" THEN "inline" ELSE "fallback")
          /\ UNCHANGED <<requested, want>>
    /\ UNCHANGED <<mergeStatus, runner, listener, read, accepted, result, counts>>

(* _monitor_pid_until_exit. *)
MonitorBegins(t) ==
    /\ Begin(t, "monitor", "fallback")
    /\ tracking = "monitor"
    /\ tracking' = "busy"
    /\ UNCHANGED <<keys, registered, process, outcome, landed, doneTried,
                   control, result>>

(* Commands come from a user.  Without Overlap, the user waits for the     *)
(* runner to stop and for the last job to end.                             *)
UserMay == Overlap \/ (Idle /\ registered = "stopped" /\ tracking = "none")

(* retry-merge: refused while a service lock waits for an approval, or     *)
(* when there is no worktree; given up when main stays dirty; else handed  *)
(* to _execute_merge_with_lock.                                            *)
RetryBegins(t) ==
    /\ UserMay
    /\ \E job \in {"retry", "approved"} :
          \/ Begin(t, job, "cleanup") /\ UNCHANGED want
          \/ Begin(t, job, "cleanup") /\ Ask(t, "error", "retry-merge")
          \/ Begin(t, job, "queueing") /\ Ask(t, "queued", ActionOf(t))
    /\ UNCHANGED <<keys, runner, read, accepted, result>>

(* direct-merge makes a new runner id, of which there is nothing yet,      *)
(* registers and queues it, and then does what a stream thread does.       *)
DirectBegins(t) ==
    /\ Begin(t, "direct", "inline")
    /\ Idle /\ jobs[t] = 0 /\ outcome = "none"
    /\ keys = <<"none", FALSE>> /\ registered = "stopped"
    /\ ~landed /\ ~doneTried
    /\ Ask(t, "queued", "direct-merge")
    /\ registered' = "running"
    /\ UNCHANGED <<keys, process, outcome, landed, doneTried, tracking, read,
                   accepted, result>>

(* resolve-conflict; the name of its action is unknown to the override     *)
(* matrix and stands for "inline-merge".                                   *)
ResolveBegins(t) ==
    /\ UserMay
    /\ Begin(t, "resolve", "resolver")
    /\ Ask(t, "resolving", "inline-merge")
    /\ UNCHANGED <<keys, runner, read, accepted, result>>

Resolver(t) ==
    /\ At(t, "resolver")
    /\ Goto(t, "idle")
    /\ \/ landed' = TRUE /\ Ask(t, "merged", "inline-merge")
       \/ UNCHANGED landed /\ Ask(t, "conflict", "inline-merge")
    /\ UNCHANGED <<keys, registered, process, outcome, doneTried, tracking,
                   listener, read, accepted, result, counts>>

(***************************************************************************)
(* _do_inline_merge and _execute_merge_with_lock                           *)
(***************************************************************************)

(* clear_request, so that nobody else enters. *)
Inline(t) ==
    /\ At(t, "inline")
    /\ requested' = FALSE
    /\ Goto(t, IF Kept(t) THEN "cleanup" ELSE "preserve")
    /\ UNCHANGED <<mergeStatus, runner, listener, control, result, counts>>

(* _preserve_terminal_inline_merge_state, then "queued". *)
Preserve(t) ==
    /\ At(t, "preserve")
    /\ \/ /\ mergeStatus \in TERMINAL
          /\ requested' = FALSE
          /\ Report(t, mergeStatus)
          /\ Goto(t, "conclude")
          /\ UNCHANGED want
       \/ /\ mergeStatus \notin TERMINAL
          /\ Ask(t, "queued", ActionOf(t))
          /\ Goto(t, "queueing")
          /\ UNCHANGED <<requested, result>>
    /\ UNCHANGED <<mergeStatus, runner, listener, read, accepted, counts>>

(* A queueing that does not look whether it was refused. *)
QueueingUnasked(t) ==
    /\ At(t, "queueing")
    /\ Goto(t, "acquire")
    /\ UNCHANGED <<keys, runner, listener, control, result, counts>>

(* A refusal that reports what transition() had read. *)
QueueingStale(t) ==
    /\ At(t, "queueing")
    /\ \/ accepted[t] /\ Goto(t, "acquire") /\ UNCHANGED result
       \/ ~accepted[t] /\ Goto(t, "conclude") /\ Report(t, read[t])
    /\ UNCHANGED <<keys, runner, listener, control, counts>>

(* A refused "queued" ends the job with the status that is there. *)
Queueing(t) ==
    /\ At(t, "queueing")
    /\ \/ accepted[t] /\ Goto(t, "acquire") /\ UNCHANGED result
       \/ ~accepted[t] /\ Goto(t, "conclude") /\ Report(t, mergeStatus)
    /\ UNCHANGED <<keys, runner, listener, control, counts>>

(* acquire_merge_turn returns. *)
Acquire(t) ==
    /\ At(t, "acquire")
    /\ \/ Goto(t, "gate") /\ UNCHANGED <<want, result>>
       \/ End(t, "error")
    /\ UNCHANGED <<keys, runner, listener, read, accepted, counts>>

(* The stale-merge gate and the snapshot. *)
Gate(t) ==
    /\ At(t, "gate")
    /\ \/ Ask(t, "merging", ActionOf(t)) /\ Goto(t, "postmerge")
       \/ Ask(t, "error", ActionOf(t)) /\ Goto(t, "gated")
    /\ UNCHANGED <<keys, runner, listener, read, accepted, result, counts>>

Gated(t) ==
    /\ At(t, "gated")
    /\ Report(t, IF accepted[t] THEN "error" ELSE mergeStatus)
    /\ Goto(t, "conclude")
    /\ UNCHANGED <<keys, runner, listener, control, counts>>

(* The post-merge subprocess returns, and the handler of its exit code     *)
(* takes its first step.                                                   *)
Merged(t) ==
    /\ landed' = TRUE
    /\ Goto(t, "landing")
    /\ UNCHANGED <<mergeStatus, want, result>>

TestsFail(t) ==
    /\ \/ End(t, "test_failed")
       \/ /\ Ask(t, "fixing", ActionOf(t))
          /\ Goto(t, "fixing")
          /\ UNCHANGED result
    /\ UNCHANGED <<mergeStatus, landed>>

Conflicts(t) ==
    /\ Ask(t, "resolving", ActionOf(t))
    /\ Goto(t, "mending")
    /\ UNCHANGED <<mergeStatus, landed, result>>

Fails(t) ==
    /\ Ask(t, "error", ActionOf(t))
    /\ Goto(t, "repairing")
    /\ UNCHANGED <<mergeStatus, landed, result>>

(* The subprocess writes the status itself. *)
NeedsApproval(t) ==
    /\ mergeStatus' = "approval_required"
    /\ End(t, "approval_required")
    /\ UNCHANGED landed

PostMerge(t) ==
    /\ At(t, "postmerge")
    /\ \/ 0 \in ExitCodes /\ Merged(t)
       \/ 1 \in ExitCodes /\ Fails(t)
       \/ 2 \in ExitCodes /\ TestsFail(t)
       \/ 3 \in ExitCodes /\ Conflicts(t)
       \/ 5 \in ExitCodes /\ NeedsApproval(t)
    /\ UNCHANGED <<requested, registered, process, outcome, doneTried, tracking,
                   listener, read, accepted, counts>>

(* "merged", and on to the done flow. *)
Land(t) ==
    /\ landed' = TRUE
    /\ Ask(t, "merged", ActionOf(t))
    /\ Goto(t, "done")
    /\ UNCHANGED result

(* Exit code 0: residue on main or a remote that is not aligned keep the   *)
(* merge from being declared.                                              *)
Landing(t) ==
    /\ At(t, "landing")
    /\ \/ Land(t)
       \/ UNCHANGED landed /\ \E s \in Blocked \cup {"push_required"} : End(t, s)
    /\ UNCHANGED <<keys, registered, process, outcome, doneTried, tracking,
                   listener, read, accepted, counts>>

(* Exit code 2: auto-impl-post-merge repairs the tests or gives up. *)
Fixing(t) ==
    /\ At(t, "fixing")
    /\ \/ Land(t)
       \/ UNCHANGED landed /\ \E s \in Blocked \cup {"test_failed"} : End(t, s)
    /\ UNCHANGED <<keys, registered, process, outcome, doneTried, tracking,
                   listener, read, accepted, counts>>

(* Exit code 3: the conflict resolver. *)
Mending(t) ==
    /\ At(t, "mending")
    /\ \/ Land(t)
       \/ UNCHANGED landed /\ \E s \in {"conflict", "error"} : End(t, s)
    /\ UNCHANGED <<keys, registered, process, outcome, doneTried, tracking,
                   listener, read, accepted, counts>>

(* Any other exit code: "error" is already written, and the general        *)
(* resolver may turn it into "merged".                                     *)
Repairing(t) ==
    /\ At(t, "repairing")
    /\ \/ landed' = TRUE /\ End(t, "merged")
       \/ /\ Report(t, "error")
          /\ Goto(t, "conclude")
          /\ UNCHANGED <<landed, want>>
    /\ UNCHANGED <<keys, registered, process, outcome, doneTried, tracking,
                   listener, read, accepted, counts>>

(* _handle_post_merge_done and _compose_merge_result_with_done. *)
DoneSucceeds(t) ==
    /\ At(t, "done")
    /\ doneTried' = TRUE
    /\ Report(t, "merged")
    /\ Goto(t, "conclude")
    /\ UNCHANGED <<keys, registered, process, outcome, landed, tracking, listener,
                   control, counts>>

DoneFails(t) ==
    /\ Fault("done")
    /\ At(t, "done")
    /\ doneTried' = TRUE
    /\ \E s \in Blocked : End(t, s)
    /\ UNCHANGED <<keys, registered, process, outcome, landed, tracking, listener,
                   read, accepted, jobs>>

(* A handler that writes nothing. *)
RaisesSilently(t) ==
    /\ Fault("exception")
    /\ \E label \in {"acquire", "gate", "postmerge", "landing", "fixing",
                    "mending", "repairing"} : At(t, label)
    /\ Report(t, "error")
    /\ Goto(t, "conclude")
    /\ UNCHANGED <<keys, runner, listener, control, jobs>>

(* Something raises: the job's own handler writes "error". *)
Raises(t) ==
    /\ Fault("exception")
    /\ \E label \in {"acquire", "gate", "postmerge", "landing", "fixing",
                    "mending", "repairing"} : At(t, label)
    /\ End(t, "error")
    /\ UNCHANGED <<keys, runner, listener, read, accepted, jobs>>

(* A resolve-conflict command that raises reports it and writes nothing. *)
ResolverRaises(t) ==
    /\ Fault("exception")
    /\ At(t, "resolver")
    /\ Goto(t, "idle")
    /\ UNCHANGED <<keys, runner, listener, control, result, jobs>>

(* Metadata, the end of the turn, the history entry and the sentinel. *)
Conclude(t) ==
    /\ At(t, "conclude")
    /\ Goto(t, "cleanup")
    /\ UNCHANGED <<keys, runner, listener, control, result, counts>>

(***************************************************************************)
(* _cleanup_process_state                                                  *)
(***************************************************************************)

(* Under a reason that begins with reconnect_ or heartbeat_, cleanup is    *)
(* denied while a merge is in progress or waits for an approval.           *)
Guard(t) ==
    /\ At(t, "guard")
    /\ Goto(t, IF mergeStatus \in ACTIVE \cup APPROVAL THEN "idle" ELSE "cleanup")
    /\ UNCHANGED <<keys, runner, listener, control, result, counts>>

(* A cleanup that does not know of approvals. *)
CleanupRegardless(t) ==
    /\ At(t, "cleanup")
    /\ tracking' = "none"
    /\ Goto(t, "retire")
    /\ UNCHANGED <<keys, registered, process, outcome, landed, doneTried, listener,
                   control, result, counts>>

(* The state is captured, and the recorded root worktree error enforced.   *)
(* An approval and unfinished root-dirty work keep the runner's keys.      *)
Cleanup(t) ==
    /\ At(t, "cleanup")
    /\ tracking' = "none"
    /\ \/ /\ outcome = "scope"
          /\ Ask(t, "residue_blocked", "approved-retry")
          /\ Goto(t, "keep")
       \/ /\ outcome # "scope"
          /\ \/ mergeStatus \in APPROVAL \cup {"residue_blocked"} /\ Goto(t, "keep")
             \/ mergeStatus \notin APPROVAL /\ Goto(t, "retire")
          /\ UNCHANGED want
    /\ UNCHANGED <<keys, registered, process, outcome, landed, doneTried, listener,
                   read, accepted, result, counts>>

(* The runner is registered as stopped, and the keys of an invisible one   *)
(* are deleted.                                                            *)
Retire(t) ==
    /\ \/ At(t, "keep") /\ UNCHANGED mergeStatus
       \/ /\ At(t, "retire")
          /\ mergeStatus' = IF Visible THEN mergeStatus ELSE "none"
    /\ requested' = (requested /\ Visible)
    /\ registered' = "stopped"
    /\ Goto(t, IF JobOf[t] = "direct" THEN "settle" ELSE "idle")
    /\ UNCHANGED <<process, outcome, landed, doneTried, tracking, listener,
                   control, result, counts>>

(* direct-merge leaves no active status behind. *)
Settle(t) ==
    /\ At(t, "settle")
    /\ IF mergeStatus \in ACTIVE THEN Ask(t, "error", "direct-merge")
                                 ELSE UNCHANGED want
    /\ Goto(t, "idle")
    /\ UNCHANGED <<keys, runner, listener, read, accepted, result, counts>>

(* Whoever asks the API for the runners makes it stop a running one whose  *)
(* process is dead, whatever merge_status says; the keys of an invisible   *)
(* one are deleted.  A direct merge has no pid and is left alone.          *)
Poll(t) ==
    /\ JobOf[t] = "poll"
    /\ jobs[t] < MaxJobs
    /\ jobs' = [jobs EXCEPT ![t] = @ + 1]
    /\ process = "exited" /\ outcome # "none" /\ registered = "running"
    /\ registered' = "stopped"
    /\ mergeStatus' = IF Visible THEN mergeStatus ELSE "none"
    /\ requested' = (requested /\ Visible)
    /\ UNCHANGED <<process, outcome, landed, doneTried, tracking, listener, pc,
                   control, result, faults>>

(***************************************************************************)
(* The heartbeat, the fallback, and listener restarts                      *)
(***************************************************************************)

(* The process is dead and its runner still in _running_processes: a merge *)
(* that is wanted or under way is forced to end after 60 s, anything else  *)
(* gets the fallback and the guarded cleanup.  Without Overlap the stream   *)
(* thread gets there first, and a merge ends within those 60 s.            *)
HeartbeatBegins(t) ==
    /\ Overlap \/ (Idle /\ tracking # "stream")
    /\ tracking # "none"
    /\ Begin(t, "heartbeat",
             IF requested \/ mergeStatus \in ACTIVE THEN "force" ELSE "fallback")
    /\ UNCHANGED <<keys, runner, control, result>>

ForceEnd(t) ==
    /\ At(t, "force")
    /\ requested' = FALSE
    /\ Ask(t, "error", "approved-retry")
    /\ Goto(t, "cleanup")
    /\ UNCHANGED <<mergeStatus, runner, listener, read, accepted, result, counts>>

(* A detection that takes "merged" for done. *)
FallbackTrusting(t) ==
    /\ At(t, "fallback")
    /\ doneTried' = (doneTried \/ (landed /\ mergeStatus # "merged"))
    /\ Goto(t, IF JobOf[t] = "stream" THEN "cleanup" ELSE "guard")
    /\ UNCHANGED <<keys, registered, process, outcome, landed, tracking, listener,
                   control, result, counts>>

(* detect_merged_but_not_done and the done flow.  The stream thread does   *)
(* not write a failure to merge_status, the other callers do.              *)
Fallback(t) ==
    /\ At(t, "fallback")
    /\ doneTried' = (doneTried \/ (landed /\ ~Kept(t)))
    /\ Goto(t, IF JobOf[t] = "stream" THEN "cleanup" ELSE "guard")
    /\ UNCHANGED <<keys, registered, process, outcome, landed, tracking, listener,
                   control, result, counts>>

FallbackFails(t) ==
    /\ Fault("done")
    /\ At(t, "fallback")
    /\ landed /\ ~doneTried /\ ~Kept(t)
    /\ doneTried' = TRUE
    /\ IF JobOf[t] = "stream"
       THEN Goto(t, "cleanup") /\ UNCHANGED want
       ELSE /\ Goto(t, "guard")
            /\ \E s \in Blocked : Ask(t, s, "approved-retry")
    /\ UNCHANGED <<keys, registered, process, outcome, landed, tracking, listener,
                   read, accepted, result, jobs>>

(* The listener dies and all its threads with it, also the one that reads  *)
(* the output of the process.                                              *)
ListenerDies ==
    /\ Fault("crash")
    /\ listener = "up"
    /\ listener' = "down"
    /\ tracking' = "none"
    /\ outcome' = IF outcome = "scope" /\ tracking = "stream" THEN "nothing"
                                                              ELSE outcome
    /\ jobs' = [t \in Threads |-> IF JobOf[t] = "stream" THEN MaxJobs ELSE jobs[t]]
    /\ pc' = [t \in Threads |-> "idle"]
    /\ want' = [t \in Threads |-> Nothing]
    /\ read' = [t \in Threads |-> Unread]
    /\ UNCHANGED <<keys, registered, process, landed, doneTried, accepted, result>>

(* _process_runner_entry: a living process is attached to; of a dead one,  *)
(* an approval is left alone, a merge that was wanted or under way is      *)
(* recovered, and anything else cleaned up.                                *)
Attach(t) ==
    /\ process = "running"
    /\ tracking' = "monitor"
    /\ UNCHANGED <<pc, want>>

Reconnect(t) ==
    /\ process = "exited"
    /\ UNCHANGED tracking
    /\ \/ /\ \/ registered = "stopped"
             \/ mergeStatus \in APPROVAL
             \/ requested /\ mergeStatus \in TERMINAL
             \/ mergeStatus \in {"pre_merge", "testing", "fixing"}
          /\ UNCHANGED <<pc, want>>
       \/ /\ registered = "running"
          /\ mergeStatus \in {"merging", "resolving"}
          /\ Goto(t, "recover")
          /\ Ask(t, "pending_merge", "approved-retry")
       \/ /\ registered = "running"
          /\ \/ mergeStatus \in {"queued", "pending_merge"}
             \/ requested /\ mergeStatus = "none"
          /\ Goto(t, "recover")
          /\ UNCHANGED want
       \/ /\ registered = "running"
          /\ ~requested
          /\ mergeStatus \in ({"none"} \cup TERMINAL) \ APPROVAL
          /\ Goto(t, "fallback")
          /\ UNCHANGED want

(* The log of the living process is gone, so nobody can attach.            *)
Unreadable(t) ==
    /\ Fault("log")
    /\ process = "running" /\ registered = "running"
    /\ Goto(t, "cleanup")
    /\ UNCHANGED <<tracking, want>>

(* The process, which a direct merge does not have, is dead and its PID is *)
(* that of another one: no merge.                                          *)
Mistaken(t) ==
    /\ Fault("pid")
    /\ outcome # "none" /\ registered = "running"
    /\ Goto(t, "guard")
    /\ UNCHANGED <<tracking, want>>

Restart(t) ==
    /\ JobOf[t] = "recover"
    /\ listener = "down"
    /\ listener' = "up"
    /\ \/ Attach(t) /\ UNCHANGED faults
       \/ Reconnect(t) /\ UNCHANGED faults
       \/ Unreadable(t)
       \/ Mistaken(t)
    /\ UNCHANGED <<keys, registered, process, outcome, landed, doneTried, read,
                   accepted, result, jobs>>

(* A recovery that asks and leaves the rest to others. *)
RecoverQuietly(t) ==
    /\ At(t, "recover")
    /\ requested' = TRUE
    /\ Goto(t, "idle")
    /\ UNCHANGED <<mergeStatus, runner, listener, control, result, counts>>

(* _recover_pending_merge asks for the merge again and runs it. *)
Recover(t) ==
    /\ At(t, "recover")
    /\ requested' = TRUE
    /\ Goto(t, "inline")
    /\ UNCHANGED <<mergeStatus, runner, listener, control, result, counts>>

-----------------------------------------------------------------------------
Step(t) ==
    \/ Consult(t) \/ Commit(t)
    \/ Decide(t) \/ Inline(t) \/ Preserve(t) \/ Queueing(t)
    \/ Acquire(t) \/ Gate(t) \/ Gated(t) \/ PostMerge(t)
    \/ Landing(t) \/ Fixing(t) \/ Mending(t) \/ Repairing(t)
    \/ DoneSucceeds(t) \/ Conclude(t)
    \/ Guard(t) \/ Cleanup(t) \/ Retire(t) \/ Settle(t)
    \/ ForceEnd(t) \/ Fallback(t) \/ Recover(t)
    \/ Resolver(t)

(* What the listener starts by itself. *)
Starts(t) == StreamBegins(t) \/ MonitorBegins(t) \/ Restart(t)

Commands(t) == RetryBegins(t) \/ DirectBegins(t) \/ ResolveBegins(t)

Faults(t) == DoneFails(t) \/ Raises(t) \/ ResolverRaises(t) \/ FallbackFails(t)

(* Nobody has anything left to do. *)
Finished == Idle /\ listener = "up" /\ process = "exited" /\ UNCHANGED vars

Next ==
    \/ ProcessExits
    \/ ListenerDies
    \/ \E t \in Threads : Step(t) \/ Starts(t) \/ Commands(t)
                          \/ HeartbeatBegins(t) \/ Poll(t) \/ Faults(t)
    \/ Finished

Spec == Init /\ [][Next]_vars

(* Threads are scheduled, the subprocesses they wait for end, and the      *)
(* listener is started again.                                              *)
FairSpec ==
    /\ Spec
    /\ \A t \in Threads : WF_vars(Step(t)) /\ WF_vars(Starts(t))

-----------------------------------------------------------------------------
TypeOK ==
    /\ mergeStatus \in Statuses
    /\ requested \in BOOLEAN
    /\ registered \in {"running", "stopped"}
    /\ process \in {"running", "exited"}
    /\ outcome \in {"none", "nothing", "mergeable", "scope"}
    /\ landed \in BOOLEAN
    /\ doneTried \in BOOLEAN
    /\ listener \in {"up", "down"}
    /\ tracking \in {"none", "stream", "monitor", "busy"}
    /\ pc \in [Threads -> Labels]
    /\ want \in [Threads -> [to : Statuses, by : Actions \cup {"nobody"}]]
    /\ read \in [Threads -> {Unread} \cup Statuses]
    /\ accepted \in [Threads -> BOOLEAN]
    /\ result \in [Threads -> Statuses]
    /\ jobs \in [Threads -> 0 .. MaxJobs]
    /\ faults \in 0 .. MaxFaults

(* The status a merge reports, to the history, to the sentinel and to the  *)
(* user, is the status of the runner.                                      *)
ResultMatchesStatus == \A t \in Threads : At(t, "conclude") => result[t] = mergeStatus

(* A merge that waits for an approval goes on waiting until a user has     *)
(* approved it.                                                            *)
ApprovalHeld ==
    [][(mergeStatus \in APPROVAL /\ mergeStatus' # mergeStatus)
       => \E t \in Threads : JobOf[t] = "approved" /\ want[t] # want'[t]]_vars

(* What nobody may override stays until the keys are deleted.              *)
OutcomeStays ==
    [][(mergeStatus \in TERMINAL \ RETRYABLE)
       => mergeStatus' = mergeStatus \/ (mergeStatus' = "none" /\ ~Visible)]_vars

(* While the runner's merge_status says that a merge is going on, a thread *)
(* is at it, or the heartbeat still watches the runner.                    *)
ActiveIsAttended ==
    listener = "up" /\ process = "exited" /\ mergeStatus \in ACTIVE
    => ~Idle \/ tracking # "none"

(* A runner that has stopped as merged has had its plan's done flow.       *)
MergedPlanIsDone ==
    listener = "up" /\ Idle /\ mergeStatus = "merged" /\ registered = "stopped"
    => doneTried

(* The merge of completed work comes to a verdict.                         *)
RequestSettles == (outcome = "mergeable") ~> (mergeStatus \in TERMINAL)
=============================================================================

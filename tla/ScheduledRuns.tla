--------------------------- MODULE ScheduledRuns ---------------------------
(***************************************************************************)
(* The scheduled worker and the rows of task_schedule_runs, for one        *)
(* schedule.  The worker's loop asks the schedule's handler to claim a     *)
(* run, and executes a claimed run in a task of its own; every five        *)
(* minutes, and when it starts, it fails the rows that have been running   *)
(* for more than thirty minutes.  The API inserts rows of its own when a   *)
(* user wants a run now.                                                   *)
(*                                                                         *)
(* Sources: src/app/worker/scheduled_worker.py, schedule_handler_base.py,  *)
(* src/app/services/task_schedule_service.py, the handlers under           *)
(* src/app/modules/*/schedulers, and instagram/services/crawl_service.py.  *)
(***************************************************************************)
EXTENDS Naturals, FiniteSets, Sequences

CONSTANTS
    Slots,          \* the moments at which the schedule is due
    Tolerance,      \* how long a slot stays due
    MinInterval,    \* between two runs, of the handlers that keep one
    StaleAfter,     \* the age at which a running row counts as abandoned
    Horizon,        \* the last moment; it stands for all later ones
    MaxManual,      \* rows that users ask for
    FaultKinds,     \* {"crash", "closed", "unwritten"}
    MaxFaults

ASSUME TimeAssumption ==
    /\ Tolerance \in Nat /\ MinInterval \in Nat /\ StaleAfter \in Nat
    /\ Horizon \in Nat /\ Slots \subseteq 1 .. Horizon

ASSUME BoundAssumption == MaxManual \in Nat /\ MaxFaults \in Nat

VARIABLES
    handler,        \* which of the handlers the schedule has
    now,
    runs,           \* the rows, by id
    working,        \* the rows whose tasks are executing
    ending,         \* the rows whose crawl has ended and whose tasks have not
    worker,         \* [up, starting: the slot a run is about to start for]
    faults          \* how many faults there have been

vars == <<handler, now, runs, working, ending, worker, faults>>

NoSlot == 0

(* The feed handler defers, the manual ones claim the rows of users, and the *)
(* window ones do neither.                                                   *)
Handlers == {"feed", "manual", "window"}

Run == [status : {"running", "deferred", "completed", "failed"},
        started : 0 .. Horizon, slot : Slots \cup {NoSlot},
        by : {"worker", "user"}]

Init ==
    /\ handler \in Handlers
    /\ now = 0
    /\ runs = <<>>
    /\ working = {} /\ ending = {}
    /\ worker = [up |-> TRUE, starting |-> NoSlot]
    /\ faults = 0

Fault(kind) == kind \in FaultKinds /\ faults < MaxFaults /\ faults' = faults + 1

Rows == DOMAIN runs
Active == {i \in Rows : runs[i].status = "running"}
Deferred == {i \in Rows : runs[i].status = "deferred"}
Wanted == {i \in Active : runs[i].by = "user"}

Insert(status, started, slot, by) ==
    runs' = Append(runs, [status |-> status, started |-> started, slot |-> slot,
                          by |-> by])

(* Between two awaits of its loop, or of a task. *)
Free == worker.up /\ worker.starting = NoSlot

-----------------------------------------------------------------------------
(* claim_run. *)

(* Variant: a slot is due although a run has begun at its very moment. *)
DueAgain(x) ==
    /\ x \in Slots /\ x <= now /\ now <= x + Tolerance
    /\ \A i \in Rows : runs[i].started <= x

(* A slot is due for some minutes, unless a run has begun since. *)
Due(x) ==
    /\ x \in Slots /\ x <= now /\ now <= x + Tolerance
    /\ \A i \in Rows : runs[i].started < x

IntervalPassed ==
    handler # "feed" => \A i \in Rows : runs[i].started + MinInterval <= now

SlotClaimed(x) == \E i \in Rows : runs[i].slot = x /\ runs[i].status # "failed"

(* claim_pending_manual_run looks at no other run of the schedule.          *)
ClaimManual ==
    /\ Free /\ handler = "manual"
    /\ \E i \in Wanted :
          /\ \A j \in Wanted : i <= j
          /\ runs' = [runs EXCEPT ![i].by = "worker"]
          /\ working' = working \cup {i}
    /\ UNCHANGED <<handler, now, ending, worker, faults>>

(* Variant: a deferred run is claimed by its task. *)
ClaimDeferredLater ==
    /\ Free /\ handler = "feed" /\ Active = {}
    /\ \E i \in Deferred :
          /\ \A j \in Deferred : runs[i].slot <= runs[j].slot
          /\ working' = working \cup {i}
    /\ UNCHANGED <<handler, now, runs, ending, worker, faults>>

(* Variant: a deferred run is claimed whatever else is going on. *)
ClaimDeferredBeside ==
    /\ Free /\ handler = "feed"
    /\ \E i \in Deferred :
          /\ \A j \in Deferred : runs[i].slot <= runs[j].slot
          /\ runs' = [runs EXCEPT ![i].status = "running", ![i].started = now]
          /\ working' = working \cup {i}
    /\ UNCHANGED <<handler, now, ending, worker, faults>>

(* The oldest deferred run goes first when nothing else is running. *)
ClaimDeferred ==
    /\ Free /\ handler = "feed" /\ Active = {}
    /\ \E i \in Deferred :
          /\ \A j \in Deferred : runs[i].slot <= runs[j].slot
          /\ runs' = [runs EXCEPT ![i].status = "running", ![i].started = now]
          /\ working' = working \cup {i}
    /\ UNCHANGED <<handler, now, ending, worker, faults>>

(* The handler has come to the due slot. *)
SlotComes(x) ==
    /\ Free
    /\ ~(handler = "manual" /\ Wanted # {})
    /\ ~(handler = "feed" /\ Active = {} /\ Deferred # {})
    /\ Due(x) /\ \A y \in Slots : Due(y) => x <= y
    /\ IntervalPassed
    /\ handler = "feed" => ~SlotClaimed(x)

(* get_or_create_deferred_run; the other handlers let the slot pass.        *)
Defer(x) ==
    /\ SlotComes(x) /\ Active # {} /\ handler = "feed"
    /\ Insert("deferred", x, x, "worker")
    /\ UNCHANGED <<handler, now, working, ending, worker, faults>>

(* has_active_run has found nothing. *)
Decide(x) ==
    /\ SlotComes(x) /\ Active = {}
    /\ worker' = [worker EXCEPT !.starting = x]
    /\ UNCHANGED <<handler, now, runs, working, ending, faults>>

(* start_claimed_run, and the task for it. *)
StartRun ==
    /\ worker.starting # NoSlot
    /\ Insert("running", now, worker.starting, "worker")
    /\ working' = working \cup {Len(runs) + 1}
    /\ worker' = [worker EXCEPT !.starting = NoSlot]
    /\ UNCHANGED <<handler, now, ending, faults>>

Dispatch ==
    ClaimManual \/ ClaimDeferred \/ StartRun \/ \E x \in Slots : Defer(x) \/ Decide(x)

-----------------------------------------------------------------------------
(* The task of a run: _run_handler and what it executes. *)

SetStatus(i, status) == runs' = [runs EXCEPT ![i].status = status]

(* The work is done, or has failed or timed out.  A crawl of a feed writes   *)
(* the row itself, whatever is in it, unless it fails before it has begun or *)
(* cannot write; its tab is still to be released.                            *)
WorkEnds(i) ==
    /\ Free /\ i \in working
    /\ \/ /\ \E status \in {"completed", "failed"} : SetStatus(i, status)
          /\ UNCHANGED faults
       \/ handler = "feed" /\ UNCHANGED <<runs, faults>>
       \/ Fault("unwritten") /\ UNCHANGED runs
    /\ working' = working \ {i}
    /\ ending' = IF handler = "feed" THEN ending \cup {i} ELSE ending
    /\ UNCHANGED <<handler, now, worker>>

(* complete_run and fail_run of the worker: it fails a run whose crawl left  *)
(* its row running, or raised after it; a failure to write is ignored.       *)
TaskEnds(i) ==
    /\ Free /\ i \in ending
    /\ \/ SetStatus(i, "failed") /\ UNCHANGED faults
       \/ i \notin Active /\ UNCHANGED <<runs, faults>>
       \/ Fault("unwritten") /\ UNCHANGED runs
    /\ ending' = ending \ {i}
    /\ UNCHANGED <<handler, now, working, worker>>

(* The browser was closed: the crawl begins again, with the row as it is.    *)
Retry(i) ==
    /\ Fault("closed") /\ Free /\ i \in ending
    /\ working' = working \cup {i}
    /\ ending' = ending \ {i}
    /\ UNCHANGED <<handler, now, runs, worker>>

-----------------------------------------------------------------------------
(* What goes on around the loop. *)

Stale(i) ==
    /\ runs[i].status = "running"
    /\ runs[i].started + StaleAfter < now \/ now = Horizon

Swept == [i \in Rows |-> IF Stale(i) THEN [runs[i] EXCEPT !.status = "failed"]
                         ELSE runs[i]]

(* cleanup_stale_runs cannot tell a dead task's row from a living one's.    *)
Sweep ==
    /\ Free /\ \E i \in Rows : Stale(i)
    /\ runs' = Swept
    /\ UNCHANGED <<handler, now, working, ending, worker, faults>>

(* The API inserts a running row that has no task yet.                       *)
Request ==
    /\ handler # "feed"
    /\ Cardinality({i \in Rows : runs[i].slot = NoSlot}) < MaxManual
    /\ Insert("running", now, NoSlot, "user")
    /\ UNCHANGED <<handler, now, working, ending, worker, faults>>

(* The worker is killed, or stops and cancels its tasks: a crawl takes the   *)
(* cancellation for a failure, any other row stays running.                  *)
WorkerDies ==
    /\ Fault("crash") /\ worker.up
    /\ \E cancelled \in SUBSET (IF handler = "feed" THEN working ELSE {}) :
          runs' = [i \in Rows |-> IF i \in cancelled
                                  THEN [runs[i] EXCEPT !.status = "failed"]
                                  ELSE runs[i]]
    /\ working' = {} /\ ending' = {}
    /\ worker' = [up |-> FALSE, starting |-> NoSlot]
    /\ UNCHANGED <<handler, now>>

Restart ==
    /\ ~worker.up
    /\ worker' = [worker EXCEPT !.up = TRUE]
    /\ runs' = Swept
    /\ UNCHANGED <<handler, now, working, ending, faults>>

Tick ==
    /\ now < Horizon
    /\ now' = now + 1
    /\ UNCHANGED <<handler, runs, working, ending, worker, faults>>

-----------------------------------------------------------------------------
TaskStep(i) == WorkEnds(i) \/ TaskEnds(i)

Next ==
    \/ Dispatch \/ Sweep \/ Request \/ WorkerDies \/ Restart \/ Tick
    \/ \E i \in Rows : TaskStep(i) \/ Retry(i)

Spec == Init /\ [][Next]_vars

(* Ids of rows: one for each slot, and those of users. *)
Ids == 1 .. Cardinality(Slots) + MaxManual

(* The loop goes round, tasks end with their time-outs at the latest, the    *)
(* worker is started again, and time passes.                                 *)
FairSpec ==
    /\ Spec
    /\ WF_vars(Dispatch) /\ WF_vars(Sweep) /\ WF_vars(Restart) /\ WF_vars(Tick)
    /\ \A i \in Ids : WF_vars(TaskStep(i))

-----------------------------------------------------------------------------
(* Properties. *)

(* A row is worked on only after it was claimed, and a deferred row stands   *)
(* at its slot.                                                              *)
TypeOK ==
    /\ handler \in Handlers
    /\ now \in 0 .. Horizon
    /\ runs \in Seq(Run)
    /\ working \subseteq Rows \ Deferred /\ ending \subseteq Rows \ Deferred
    /\ \A i \in Deferred : runs[i].started = runs[i].slot
    /\ worker \in [up : BOOLEAN, starting : Slots \cup {NoSlot}]
    /\ faults \in Nat

(* Two runs of a schedule are executed at the same time only if one of them  *)
(* is a user's, or its row says that it has ended: the sweep has failed it,  *)
(* because it took too long, or its crawl is being retried.  (has_active_run *)
(* before every claim, with completions, deferrals and restarts in between.) *)
RunsAlone ==
    \A i, j \in working : i # j =>
        \/ NoSlot \in {runs[i].slot, runs[j].slot}
        \/ {i, j} \cap Active # {i, j}

(* The slot of a row that is deferred is kept, that of any other is served.  *)
slotState ==
    [x \in Slots |->
        LET rows == {i \in Rows : runs[i].slot = x} IN
        CASE rows = {} -> "open"
          [] Cardinality(rows) = 1 -> IF rows \subseteq Deferred THEN "kept" ELSE "served"
          [] OTHER -> "twice"]

Service == INSTANCE SlotService WITH slots <- slotState

(* Every slot is served at most once, although runs fail, are deferred, and  *)
(* are left behind by a worker that dies; and a slot that was deferred is    *)
(* served, if only after the sweep of what blocks it.  (get_latest_run and   *)
(* is_slot_claimed; get_oldest_deferred_run, claim_deferred_run,             *)
(* cleanup_stale_runs.)                                                      *)
ImplementsService == Service!Spec
=============================================================================

# A verification of personal-hub's queues, runners and workers

personal-hub is one FastAPI and SvelteKit application around PostgreSQL, Redis,
browsers and a set of worker processes. Most of it stores rows and reads pages.
What is hard in it is where processes, threads and coroutines hand work to each
other: the *dev-runner*, which lets AI agents implement plans and merges their
branches one at a time; the queue of LLM requests; the crawls that users ask
for and those that are scheduled; and the browser tabs all of them share.

The modules here are TLA+ specifications of these parts, written from the code.
TLC checks small instances of them, and the TLA+ proof system proves the safety
properties that the instances show, for any number of threads, runners, requests,
callers and slots, from hypotheses that are named where they are needed.

- [Inventory](#inventory)
- [Modules](#modules)
- [Runs](#runs)
- [Disagreements found](#disagreements-between-the-code-and-its-documentation)
- [Fairness](#fairness)
- [Proofs](#proofs)
- [What is not modelled](#what-is-not-modelled)
- [Plan](#plan)

## Inventory

Paths are relative to `src/`; `plan_runner/` stands for `scripts/plan_runner/`.

### The dev-runner

| Component | State | Operations | Talks to |
|---|---|---|---|
| **Merge queue** `plan_runner/merge_queue.py`, `merge_lock_cli.py` | Redis list of runner ids per repository; a list of wake-up signals per runner | acquire, release, evict a stale front, signal the next; CLI acquire/release/status | reads the pid and status keys of other runners; called by listener threads and CLI processes |
| **Merge lifecycle** `_dr_merge.py`, `_dr_merge_state.py`, `_dr_merge_persistence.py`, `_dr_stream_cleanup.py`, `_dr_process_utils.py`, `_dr_commands.py`, `dev-runner-command-listener.py` (all in `plan_runner/`) | `merge_status`, `merge_requested`, `status` keys of a runner; the listener's tables of processes and threads | inline merge, retry, direct merge, resolve-conflict, the exit-code handlers, cleanup, heartbeat, fallback, reconnect after a restart | merge queue; done flow; post-merge subprocess; API |
| **Runner registry, start and stop** `_dr_plan_runner.py`, the listener, `app/modules/dev_runner/services/runner_state.py`, `executor_service.py` | active and recent sets in Redis; pid, status and identity keys; in-memory table | start, duplicate check, stop, kill, dismiss, correction of dead or living PIDs | plan-runner processes; merge lifecycle |
| **Command channel** `executor_service.py`, listener | Redis list of commands, one result key per command id | send with a timeout, enqueue and poll, dispatch | API and listener |
| **Plan execution claims** `plan_execution_claim_service.py` | claim rows (queued, active, released, stale), a pointer in the plan's header, JSON of task claims | claim, activate, heartbeat, release, sweep stale | API, CLI, runner cleanup |
| **Done flow, worktrees** `workflow_manager.py`, `worktree_manager.py`, `plan_done_service.py` | files and git | move and commit plan files, remove worktrees | called by the merge lifecycle |

### The rest of the application

| Component | State | Operations | Talks to |
|---|---|---|---|
| **LLM queue and worker** `app/modules/claude_worker/` | request rows (pending, processing, completed, failed, cancelled), profile claims, quota | enqueue with duplicate check, take, complete, fail, cancel, reset; claim and release a profile | API, worker loop, executors |
| **Browser tab pool** `app/shared/browser/tab_pool_manager.py` | tabs per account, in-use flags, waiters | acquire, create, release, clean up, recreate a context | all monitors, as coroutines of one loop |
| **Redis queue and on-demand worker** `app/shared/redis/queue.py`, `app/worker/ondemand_worker.py` | request rows and a Redis list of their ids | push, pop, pick, recover at start, sweep stale, fall back to polling | API, worker |
| **Worker supervision** `app/worker/orchestrator.py`, `app/shared/worker/base_worker.py` | state and restart times per worker | run, restart with back-off, give up, exit when all have failed | workers, external watchdog |
| **Scheduled worker** `app/worker/scheduled_worker.py`, `schedule_handler_base.py`, `app/services/task_schedule_service.py`, the handlers in `app/modules/*/schedulers` | rows of runs (running, deferred, completed, failed) per schedule | claim what is due, defer, execute with retries, sweep stale rows | crawl and report services, API |
| Monitors and crawlers, productivity modules, classifiers, archive search, notification, frontend | rows, files, pages | mostly single-row operations or pure I/O | API |

### Where it is hard, and what makes it correct

* **Merge queue.** Every operation is several Redis commands without a
  transaction. A waiter judges and removes the entries of others on the basis
  of keys it read earlier; wake-ups are pushed in a step of their own; listener,
  CLI processes and Redis itself may fail in between. *Correct* means: merges
  are serialised, the line is served in order, no runner is in it twice, no
  wake-up is lost, and every wait ends.
* **Merge lifecycle.** A merge takes minutes to hours, and its runner's process
  is dead all along, which the heartbeat, the API's runner list and the queue
  take as a sign that something is wrong. Every status change is a GET followed
  by a SET. A listener restart must pick up whatever its predecessor left.
  *Correct* means: a merge in progress always has somebody at it, what is
  reported is what is recorded, verdicts and approvals are replaced only by
  those who may, merged work gets its done flow, and completed work comes to a
  verdict.
* **Registry and command channel.** The stream thread of a process starts before
  the keys of its runner are written, two registries must agree, and commands
  outlive the callers that time out on them. *Correct* means: no plan is run
  twice at once, and what is registered as stopped has no process.
* **Claims, LLM queue.** Checks and the writes they justify are separate
  transactions, and state changes do not look at the state they start from.
  *Correct* means: at most one active claim or worker per plan, request or
  profile slot, and an end state that stays.
* **Tab pool.** Coroutines interleave at every `await` between a check and the
  action it justifies. *Correct* means: limits hold, no tab is used twice or
  closed in use, and waiters are served.
* **Redis queue and on-demand worker.** A request lives in two places.
  *Correct* means: none is lost and none executed twice, across crashes.
* **Scheduled worker.** A slot is due for some minutes and is known to be served
  only by the rows that runs leave; a run may outlast the sweep that looks for
  abandoned ones. *Correct* means: a slot is served once, what is deferred is
  served, and runs of one schedule do not overlap.

`PROJECT.json` lists all of these hazards at their lines, with the properties
that cover them. Where the code goes wrong as it stands, a property can only except the
case, and the hazard says so in its note instead of naming the property.

## Modules

| Module | What it is |
|---|---|
| `MergeTurn` | What the merge queue promises, without Redis: a line, and a turn granted only at its front |
| `MergeQueue` | The Redis protocol of the merge queue and its callers, one action per Redis command |
| `MergeState` | The merge statuses and the override matrix, pure definitions |
| `MergeLifecycle` | The merge of one runner: threads, restarts, commands, faults; `EXTENDS MergeState` |
| `RunnerStart` | From a request to run a plan to its process, and back: API, claim, command list, listener, cleanup, reconnection |
| `LLMQueue` | The rows of `llm_requests`, the worker, the chat executor, profile claims, and the API beside them |
| `CrawlRequests` | The rows of `crawl_requests` and the Redis list of their ids, API and on-demand worker |
| `TabPool` | The coroutines of one loop that take tabs of several accounts from a pool |
| `SlotService` | What a schedule owes to its slots: each served at most once, and what is kept for later is served |
| `ScheduledRuns` | The scheduled worker and the rows of one schedule; it implements `SlotService` |
| `MC...` | The instances TLC checks, one module per protocol module |
| `..._proofs` | Theorems and proofs, one module per protocol module, see [Proofs](#proofs) |

Each protocol module also holds some *variants* of its actions, every one with a
single plausible bug (a forgotten signal, a missing guard, a stale read). No
specification uses them. Put in the place of the action it is a variant of, a
variant makes TLC report a violation of the property it is listed with in
`PROJECT.json`, which is evidence that the property constrains the code.

### MergeQueue

State: `queue` is the Redis list, `turn[r]` the length of the list of signals of
runner `r` (all its elements are "go"), `pid[r]` and `status[r]` the two keys
the staleness test reads. A thread (`pc`, `seen`, `cleaning`, `attempts`) is one
merge job at a time for one runner: inline, retry, direct, manual (the CLI), or
a heartbeat pass.

| Actions | Code |
|---|---|
| `Begin`, `Enqueue`, `CheckFront` | `acquire_merge_turn`: DEL of the turn key, the Lua enqueue, LINDEX |
| `TakeSignal`, `WaitTimesOut`, `ProbeFront` | BRPOP with a signal, without one, and the check every 5 s |
| `JudgeFront`, `EvictFront`, `EvictPeek`, `EvictPush` | `_remove_if_stale`, `_signal_next` |
| `DeadlinePasses`, `Withdraw`, `AcquireRaises` | the 24-hour deadline and the exception handler |
| `FinishMerge`, `Release`, `ReleasePeek`, `ReleasePush` | the merge ends; `release_merge_turn` |
| `Cleanup`, `Sweep`, `Retire` | the parts of `_cleanup_process_state` that touch the queue and its keys |
| `HeartbeatForces` | the heartbeat's release of a turn whose process has been dead for 60 s |
| `QueueVanishes`, `CliDies`, `ListenerDies`, `ProcessExits` | expiry or flush of the list, deaths |

Abstracted: ids are model values, one repository, `_is_pid_alive` is the value
of `pid`. A GET of pid followed by a GET of status is one step, because a runner
without a pid never gets one back.

### MergeLifecycle

State: `mergeStatus` and `requested` are the two keys, `registered` the runner's
status together with its membership of the active set, `process` and `outcome`
what became of the plan-runner process, `landed` whether the branch is in main,
`doneTried` whether the done flow has been entered, `tracking` who of
`_running_processes` watches the process. A thread does jobs of one kind (its
`JobOf`): stream thread, monitor thread, reconnect pass, heartbeat, the
commands retry-merge (approved or not), direct-merge and resolve-conflict, and
the API's runner list. `want` and `read` are a call of
`MergePersistence.transition` in progress: `Consult` is its GET and comparison,
`Commit` its SET, and every other thread may act between them.

| Actions | Code |
|---|---|
| `StreamBegins`, `Decide`, `Inline`, `Preserve` | the `finally` block of the stream thread, `decide_cleanup_action`, `_do_inline_merge` |
| `Queueing`, `Acquire`, `Gate`, `Gated`, `PostMerge` | `_execute_merge_with_lock` up to the exit code |
| `Landing`, `Fixing`, `Mending`, `Repairing`, `DoneSucceeds`, `DoneFails`, `Raises`, `Conclude` | the exit-code handlers, the done flow, the exception handler, the `finally` block |
| `RetryBegins`, `DirectBegins`, `ResolveBegins`, `Resolver`, `ResolverRaises`, `Settle` | the commands |
| `Guard`, `Cleanup`, `Retire` | `_cleanup_process_state`, `_register_completed_runner_state` |
| `HeartbeatBegins`, `ForceEnd`, `Fallback`, `FallbackFails` | the heartbeat's branch for dead processes, `_try_v2_merge_fallback` |
| `ListenerDies`, `Restart` (`Attach`, `Reconnect`, `Unreadable`, `Mistaken`), `Recover`, `MonitorBegins` | death, `_reconnect_surviving_runners`, `_recover_pending_merge`, `_monitor_pid_until_exit` |
| `Poll` | `_correct_pid_state` and `_force_cleanup_state` of the API |

Abstracted:

* The turn, git and the subprocesses appear by their outcomes; each outcome the
  code distinguishes is a disjunct.
* `merge_reason`, `merge_message` and other metadata are left out. Where the code
  decides by them (a retry that a service lock refuses, a terminal status whose
  reason is missing) the model allows both outcomes.
* Left out altogether: the cycle of `restart_after_merge`, pre-review stops, key
  expiry, workflow rows, the PostgreSQL mirror, removal of worktrees. A direct
  merge without a worktree changes nothing and is not a step.
* `merge_requested` and the statuses a process leaves behind are written by the
  plan-runner, which is not in this repository. `ProcessExits` leaves any pair of
  them; the code itself expects `merge_requested` beside a terminal status
  (`_dr_stream_cleanup.py:1093`). A process that stops because of the root
  worktree leaves neither.
* `Overlap = FALSE` is a schedule: users give commands to runners that have
  stopped, when the last job has ended, and no merge takes longer than the 60 s of
  the heartbeat. `Overlap = TRUE` drops it. The runs have it `FALSE`; what is lost
  without it is in the list of observations below.

### RunnerStart

State: the starts of one plan, each with a runner id and a claim of its own.
`claims`, `claimed` and `holder` are the rows of `plan_execution_claims` (state,
order, `runner_id`), `header` the claim id in the plan file, `commands` the Redis
list, `status` and `keys` the keys of a runner and its membership of the active set,
`process` what the operating system runs, `registered` the table
`_running_processes`, `watched` who has a thread waiting for the process to end.
`api`, `listener`, `launcher` and `cleanup` say where each of the four parties is; a
runner may be cleaned up by its thread and by the listener's main thread at once.

| Actions | Code |
|---|---|
| `Check`, `Insert`, `Enqueue`, `SetQueued` | `ExecutorService.start_dev_runner`: look for a live claim, insert one, push the command, write "queued" |
| `ApiReleases`, `ApiClears` | its exception handlers: release the claim, clear the header |
| `Take`, `Accept`, `Occupies`, `Flagged` | the listener's loop, the claim check of a start, the search for a runner of the same plan, which lives or is being cleaned up |
| `LaunchFails`, `Spawn`, `WriteKeys`, `List`, `Activate` | `_launch_plan_runner_process` in its thread: process, registration and stream thread, pid and status keys, active set and claim id, `activate_claim` |
| `Exits`, `WatcherCleans` | the end of a process, the stream thread's `finally` or the monitor thread |
| `Stop`, `HeartbeatCleans` | the main thread: `stop_plan_runner`, and the heartbeat's branch for a dead process |
| `Capture`, `Releasable`, `Release`, `ClearHeader` | `_cleanup_process_state`: what it reads first, the claim it finds by id, plan or runner, `release_claim`, the header |
| `ListenerDies`, `Restart`, `Reconnect` | death with all threads; `_reconnect_surviving_runners` |
| `Correct`, `AdminReleases` | `_correct_pid_state` of the API; DELETE of a claim |

Abstracted: one plan, ids are the starts themselves, the merge that follows the
end of a process is `MergeLifecycle`. A claim's look and its insert are two steps:
the API does not turn to another request in between, but the scheduled worker, which
starts runners for plans that are due (`auto_dev_runner_schedule.py:162`), is another
process. `Stop` acts as soon as the process is registered
(`_dr_plan_runner.py:1268`), like the function the listener calls
(`_dr_runner_control.py:30`). The flag of a cleanup lasts for 30 s and the cleanup
perhaps longer, so that `Accept` may go on in spite of it.

`faults` holds what has happened of the things a property may have to except; some of
them are failures, some only unlucky moments of legal steps:

| Kind | What happens | What it breaks |
|---|---|---|
| `claim` | `claim_plan` raises, the start goes on without a claim | only the listener's search for a listed runner is left to forbid a second process |
| `race` | API and scheduled worker both look before either inserts | two claims of the plan, two processes |
| `reply` | the LPUSH is executed and its reply lost | the claim is released, the command is launched; a second start claims beside it, and the released claim is activated again |
| `admin` | an administrator releases the claim | the process runs without a claim |
| `launch` | no worktree, no memory, an archived plan | the claim stays, the plan answers 409 |
| `quick` | a process exits before its launch is done | its claim is released and then activated again |
| `early` | a user stops a runner before its launch is done | as `quick`; besides, thread and main thread may both find no claim id and release by plan, the second one the claim of another start |
| `crash` | the listener dies | the claim of a start in the command list is released by the reconnection, and a second one is accepted beside it |
| `torn` | the listener dies between the spawn of a process and the write of its claim id key | its later cleanup goes by the plan |

Each property names the kinds it holds with. No kind is excluded from the *model*:
`TypeCorrect` and `HeadersDoNotDangle` are proved with all of them (the latter but
for crashes). A crash and a quick exit together break `RunningIsClaimed`: the
reconnection may have released the claim of a start that nobody had launched yet, so
that two starts are launched side by side; when the process of one exits before its
claim id key is written, its cleanup goes by the plan and releases the claim of the
other.

### LLMQueue

State: `status` and `age` of the rows, `claims` of profiles, `worker` (where the
loop is, its request, its profile, how long the execution has taken, the rows it
found stale), the list of chat `commands`, the `chat` that is running, profiles in
a quota pause, and one `api` call between its read and its commit.

| Actions | Code |
|---|---|
| `Select`, `StartRequest`, `Delegate`, `Reject` | `_process_pending_requests`, `mark_processing`, `_delegate_to_chat_executor` with and without Redis |
| `Route`, `Unrouted`, `ClaimProfile` | the router's choice by free capacity, `reset_to_pending`, `ProfileClaimService.claim` |
| `Answer`, `Fail`, `Save`, `ReleaseProfile` | `_execute_request`: completion, failure and time-out, the save of a plain result, the `finally` |
| `StartWorker`, `SweepAtStart` | the worker's stale sweep, a read and a commit |
| `RunChat`, `ChatEnds`, `StartChatExecutor` | the chat executor |
| `UserReads`, `CancelCommits`, `ApiStarts`, `ApiCommits` | cancel, retry, batch retry and the sweep of the API's lifespan, each a read and a later commit |
| `Tick`, `PauseEnds` | time; a quota pause ends |
| `WorkerDies`, `ChatExecutorDies`, `ReleaseRaises` | faults |

Abstracted: prompts and results, priorities inside a queue, and the provider, of
which only matters whether it runs under a profile: defaults decide it when a
request is executed, so both are possible each time. `CandidatesOf` gives
the enabled profiles that a request may run under (`candidate_profiles` of its options); the push of a
delegated chat may fail after the command has reached the list. Time is
counted from the row's `processed_at` and stops at `StaleAfter`, the least age
at which a row is stale; an execution ends at `ExecTimeout` at the latest. The
system queue is served first, as in `_main_loop`.

### CrawlRequests

State: `status` of the rows and the Redis list `queue`; where the API is with a
request (`creating`, `cancel`); the `worker` (its mode is found out once, when it
starts), the `task` of a request in the worker; and two counters that only the
properties read, `asked` and `runs`. `earlier[r]` is the set of the rows whose
`requested_at` is before that of `r`: a retry moves its row to the end, and the
recovery and the polling read the rows in that order.

| Actions | Code |
|---|---|
| `Create`, `CreateQueued`, `Push`, `FallBack` | `create_request` and `create_request_async`: commit, push, and pending after a push that failed |
| `CancelReads`, `CancelRemoves`, `CancelCommits`, `Retry` | `cancel_request` across its await, with a removal from the list that may fail; `retry_request` |
| `Start`, `Setup`, `RecoverPush`, `RecoverCommits` | the stale sweep, the connection, `_recover_pending_requests`: pushes one by one, one commit at the end |
| `RecoverFails` | the query or the commit of the recovery fails, and the worker goes on |
| `Pop`, `Read`, `Poll`, `Take` | `_process_redis_queue` with its status check, `_dispatch_pending_requests`, the task that is created |
| `StartProcessing`, `Finish` | `_execute_request` |
| `WorkerDies`, `ApiDies` | process, supervised worker and API die; a worker that dies in its recovery has it again |

The run may stop (`CHECK_DEADLOCK FALSE`): when every request has been settled and
users have done what the bound allows, the loop of the worker has nothing to do.

### TabPool

State: the `open` pages, those in the `pool`, those `inUse`, how often each was
used, and per coroutine its place, its tab, and what its cleanup has collected.
An action goes from one `await` to the next, as the code does.

| Actions | Code |
|---|---|
| `BeginCleanup`, `CloseOrphan`, `Collect`, `CloseSwept`, `RemoveSwept`, `EndCleanup` | `cleanup_old_tabs` and the sweep of orphan pages |
| `TakeTab`, `CheckTab`, `BeginCreate`, `EndClearing`, `NewPage`, `Register`, `PrepareFails`, `TimesOut` | `get_tab`: lock, check, creation under `TOTAL_MAX_TABS`, wait |
| `ClosePage`, `Release` | a caller that closes its page; `release_tab` |
| `Cancel` | cancellation at any await |

The faults are `cancel`, `idle`, a tab that has not been used for ten minutes,
whether somebody holds it or not, and `browser`: the close of a swept tab raises, which
leaves the tab in the pool and removes its lock and its count; the close of a page
that is not registered fails; or `new_page` times out and opens the page all the same.
`TabIsExclusive` excepts the failing browser, since the lock that `cleanup_old_tabs`
drops may be that of a coroutine which has taken the tab during the await.

### ScheduledRuns

State: the clock `now`, the rows `runs` of one schedule, the rows whose tasks are
`working`, those whose crawl has ended but whose task has not (`ending`), and the
`worker`, which knows the slot a run is about to start for. `handler` is chosen at
the start and never changes: *feed* defers what it cannot run, *manual* claims the
runs of users, *window* (reports, writing tasks) does neither.

| Actions | Code |
|---|---|
| `Dispatch`: `ClaimManual`, `ClaimDeferred`, `Defer`, `Decide`, `StartRun` | `_dispatch_scheduled_runs`: `claim_run` of the handler, `claim_pending_manual_run`, `has_active_run`, `get_or_create_deferred_run`, `claim_deferred_run`, `get_latest_run`, `is_slot_claimed`, `start_claimed_run` |
| `WorkEnds`, `TaskEnds`, `Retry` | the crawl completes its row, or ends without having written it; its task ends and fails a row that is still running; or the browser had been closed and the crawl is run again with the same row |
| `Sweep` | `cleanup_stale_runs` |
| `Request` | the API inserts the run a user wants |
| `WorkerDies`, `Restart`, `Tick` | death of the worker process, its start with a sweep, time |

`slot` is the slot a row is for. The code writes it only to deferred rows; for the
others it is a ghost that `slotState`, the refinement mapping, reads.
The fault `unwritten` is an outcome that cannot be written and is ignored
(`crawl_service.py:135`, `scheduled_worker.py:236`): the row stays running until the
sweep. `Horizon` stands for all later times: every row that is running is stale by then.
Time ends there, so the run has `CHECK_DEADLOCK FALSE`.

## Runs

Deadlock is checked in all runs but `crawl_ondemand` and `schedule_slots`, whose
systems may come to rest.

| Run | Instance | Shows |
|---|---|---|
| `queue_orderly` | three direct merges, fair | `MergesSerialized`, `NoStrandedFront`, `EveryTurnComes`: serialised, no lost wake-up, every waiter gets its turn |
| `queue_retried` | inline merge and retry of one runner, a manual merge, one fault of any kind | `TypeOK`, `QueuedOnce`, `FrontHolds`, and `ImplementsMergeTurn`: the protocol is an implementation of `MergeTurn` |
| `queue_forced` | inline merge, heartbeat over it, direct merge, deadline | `AcquireReturns`: every wait ends, if only by its deadline |
| `queue_evicted` | three inline merges | *violated:* `MergesSerialized` |
| `lifecycle_restarts` | stream, monitor, reconnect, heartbeat, direct; two faults out of crash, exception, failed done flow, lost log | `ActiveIsAttended`, `MergedPlanIsDone` |
| `lifecycle_commands` | stream thread, then both retries, resolve-conflict and runner-list polls in any order; one exception; fair | `TypeOK`, `ResultMatchesStatus`, `ApprovalHeld`, `OutcomeStays`, `RequestSettles` |
| `lifecycle_hidden` | a runner whose keys cleanup deletes; two faults out of crash, exception, a reused PID | `ApprovalHeld`: cleanup deletes no keys of a merge that waits for an approval |
| `runner_start` | two starts of one plan, by two processes, one kind of fault out of all but `early`; fair | `OneProcess`, `RunningIsClaimed`, `HeaderIsNotDangling`, `ReleasedStaysReleased`, `ClaimReturns` |
| `llm_served` | an extracted and a plain request on one profile, a chat of the system queue; each with a candidate; one user operation, one fault; fair | `CapacityKept`, `NothingLeftBehind`, `ExecutingIsNotStale`, `AnswerStands`, `RequestSettles` |
| `crawl_ondemand` | two requests, one slot, a recovery that reads one row; two user operations, two faults out of seven kinds; fair | `QueuedIsListed`, `RunAsAsked`, `CancelStands`, `QueuedIsServed` |
| `tab_pool` | three callers, one of which closes its pages, two accounts, three pages, `TOTAL_MAX_TABS` = 2, two uses per tab; one kind of fault out of cancellation, idle tabs and a failing browser | `TabIsExclusive`, `ReusedIsOpen`, `NothingIsLost` |
| `schedule_slots` | slots at 1, 2 and 4, each due for 1, a minimal interval of 2, rows stale after 1, time up to 6; one run of a user, two faults out of crash, closed browser and unwritten outcome; fair | `RunsAlone`, and `ImplementsService`: the rows implement `SlotService` |

Each module's `TypeOK` is checked in one of its runs.

**Bounds.** `MaxAttempts`, `MaxJobs`, `MaxOps`, `MaxUserOps` and `MaxManual` bound
what users and threads begin, `MaxFaults` the faults; all interleavings within the
bounds are explored.

* Three threads are the least with which a front of the merge queue, the one that
  judges it and the one that profits can be three. In the lifecycle there is a
  thread for each *kind* of job, so that every pair of jobs meets; two faults let
  a recovery fail in turn.
* Two starts of a plan are the least that can contend for it; every party of a
  start is there, and each fault may hit at any of their steps. `MaxFaults` bounds
  the *kinds* that happen, so that, say, both launches may fail; the properties
  with two kinds are proved for them. Stops during a launch are left to the theorems,
  `TypeCorrect` and `HeadersDoNotDangle`: with them alone the instance has 1.3
  million states, with what the run has, 291,340, and they break the properties
  of claims in any case. Three starts with `launch` and either `crash` or `race`
  were explored once and gave nothing new.
* The three requests of `llm_served` are one of each kind, with a queue of two on
  the profile, so that one waits while the other is executed, and a system queue
  that passes ahead. `ExecTimeout = StaleAfter` is the tightest order the
  assumption allows (the code has 60 minutes and 65).
* One slot and two requests make the on-demand worker full; a recovery that reads
  one row of two leaves one for later, as one that reads 100 of 101 does.
* `tab_pool` has one kind of fault at a time, any number of times; the theorems
  have all of them together.
* Two tabs and three callers make the pool full with a waiter; the pages are one
  more than the pool may hold, since creators in different accounts may overshoot.
* Slots 1 and 2 are closer to each other than a slot stays due and than the
  minimal interval, slot 4 is due after the sweep of what slot 1 began.

**Why some properties name an instance.** `NoStrandedFront` and `MergesSerialized`
are claimed of merges no waiter can take for dead, that is of direct merges;
`queue_evicted` shows why. `ActiveIsAttended` is claimed of the listener by itself:
`lifecycle_restarts` has no user and no poll, since a single request of the API
for the runner list stops a runner whose process is dead, whatever its merge
status, and a restart then skips it. `RequestSettles` of the LLM queue is claimed of
requests that have an enabled candidate profile, and the properties of starts,
crawls, tabs and schedules name the faults they hold with. The theorems state these
conditions as hypotheses on the constants, each as weak as the counterexamples allow.

## Disagreements between the code and its documentation

`queue_evicted` is a run that TLC ends with a counterexample; `PROJECT.json`
quotes the lines. Merges are said to be serialised, but the pid key of a merging
runner holds the pid of its plan-runner, which exited before the inline merge.
After five seconds a waiter takes the front for dead, removes it and merges
beside it.

Seen while modelling, and kept as behaviour of the models, as conditions of the
properties or as hazards, without a run of their own:

*Merge lifecycle*

* 60 s after the *process* died the heartbeat writes `error` over an active
  status, also when the merge is running well. The merge then reports `merged`
  while the key keeps `error`.
* `approval_required` needs "an explicit user approval action"; after a restart
  the heartbeat may replace it, with the action name of an approved retry.
* A process that outlives a restart gets a monitor thread, which never looks at
  `merge_requested`; the merge does not happen.
* The API stops a runner with a dead PID whatever its merge_status; a restart then
  skips it and the active status stays.
* `retry-merge` may override nothing (`_dr_merge_state.py:76`) although
  `RETRYABLE_STATUSES` are those "that a user-commanded retry may intentionally
  replace": a plain retry of a conflict is refused.
* Two threads of one runner may both pass the comparison in `transition` (line
  77); the module describes a single writer.
* A process that dies in the middle of a merge of its own leaves `merging`; the
  stream thread does not take it as completed work (`_dr_stream_cleanup.py:1115`).
* `_recover_pending_merge` leaves a runner in `fixing`, `testing` or `pre_merge`
  alone after a restart; then only the heartbeat could end it, and only if the
  process is still in its table (`_dr_process_utils.py:926`).
* After `merged`, a failed done flow asks for `error` or `residue_blocked`; the
  transition is refused, so merge_status stays `merged` (`_dr_merge.py:1071`).
* A success of the general resolver, or of resolve-conflict, asks for `merged` from
  a status the action may not leave: the status stays `error`
  (`_dr_merge.py:1344`) or `conflict` (`_dr_commands.py:479`).
* The branch of the stream thread for "merged, but not done" comes after the one
  that preserves terminal statuses, and `merged` is one
  (`_dr_stream_cleanup.py:866`, `:897`).
* The API deletes the keys of an invisible runner in the middle of its merge
  (`runner_state.py:116`).
* The post-merge subprocess is waited for without a time-out, with the turn in
  hand (`_dr_merge.py:1922`).

*Starts and claims*

* After a crash the reconnection cleans up a runner that the API has queued and no
  process belongs to yet; its claim is released, and when the command is taken
  after all, a second start of the plan is accepted beside it.
* A launch that fails, and a start the listener refuses, may leave the claim
  queued; the plan answers 409 until the listener starts again or an
  administrator deletes the claim.
* A cleanup that finds no claim id looks for a claim of the *plan*: after an
  administrator's release this may be the one of a newer, running start.
* Two cleanups of one runner both clear the header, the second perhaps that of a
  newer claim.
* A process that exits before `activate_claim` has its claim released, and then
  made active again.
* The API writes "queued" after the push; a fast listener's "running" may be
  overwritten, until a correction puts it right.
* A push whose reply is lost is taken for one that failed: the claim is released
  and the command is in the list. The runner is launched beside that of another
  start, and `activate_claim` makes the released claim active again.
* The same happens to the claim of a runner that is stopped between its registration
  (`_dr_plan_runner.py:1268`) and `activate_claim` (1382): the plan then has a live
  claim and no process, and answers 409.
* After such a stop the stream thread and the main thread both clean up; as long as
  the claim id key is not written, both look for the claim of the *plan*, and the
  second may release that of the next start.
* API and scheduled worker may both find the plan free and claim it; no
  constraint of the table forbids it, and the listener refuses only one whose rival
  is the latest.

*LLM queue*

* The text of `/cleanup` speaks of ten minutes (`llm_status_routes.py:112`), the
  sweep uses 65. What it finds at the worker's start is said to be left by a worker
  that died (`worker.py:1504`), but a chat goes on in its own process and has no
  time-out, so that a live one may be failed.
* `reset_to_pending` does not look at the status it starts from, although it is
  described as a step from processing.
* The oldest request of a queue is taken on every pass; one whose profiles are all
  paused is put back and holds up those behind it, and one whose
  `candidate_profiles` name no enabled profile does so for ever
  (`profile_router.py:63`).
* A delegation whose LPUSH is executed and whose reply is lost fails the request
  (`worker.py:1787`), and the chat executor runs it all the same.
* The claim of a worker that died stays, and takes capacity from the profile.

*Crawl requests*

* `cancel_request` reads, awaits Redis and commits: it may cancel what has begun,
  and a task that then completes overwrites the cancellation.
* The commit of a recovery turns a request that was cancelled meanwhile into a
  queued one whose entry is gone.
* A worker that dies between a pop and the commit of the row leaves a queued row
  that no list holds; only a later recovery of *pending* rows looks, and it does
  not look for queued ones.
* `create_request` and `retry_request` write *pending* and do not push
  (`crawl_request_service.py:27`); a worker that uses Redis does not poll, so that
  such a row waits for the next start of the process.
* `_redis_initialized` stays true when the supervisor runs the worker again
  (`ondemand_worker.py:87`): there is no second recovery, unless the worker died in
  the first.
* A recovery whose commit fails leaves its entries in the list and its rows pending
  (`ondemand_worker.py:163`); nobody pushes them again, but an entry serves its row.
* Polling does not count slots (`ondemand_worker.py:313`), which the class says it
  keeps to.
* A push whose reply is lost leaves an entry, and a row that is pending again and
  may be run twice.
* The stale sweep does not filter by the kind of request.

*Tabs*

* The orphan sweep closes pages that another caller is preparing; a tab that has
  been idle for ten minutes is closed under its user.
* A cancellation inside `_is_tab_closed` leaves the tab locked for good.
* `cleanup_old_tabs` drops the metadata of a tab whose close has raised and which
  stays in the pool (`tab_pool_manager.py:441`, `:454`): who took it during the close
  has it without a lock, and the next caller gets it, too.
* A page whose close fails in the `finally` of `get_tab`, or that `new_page` opens
  after its time-out, stays open until the sweep of orphans.
* Creators that wait for their pages at the same time may exceed `TOTAL_MAX_TABS`.
* A caller that waits for a tab of its account gains nothing from one that another
  account gives back.

*Schedules*

* The sweep fails a run after 30 minutes; a crawl may take 60 and be retried. The
  next, or a deferred, run then starts beside it, and its late completion
  overwrites the failure. A retried crawl works under a row that says failed.
* A slot that comes in the moment a deferred run is claimed is passed over, and so
  is one of two that are due at once after a pause.
* A crawl whose failure cannot be written leaves its row running
  (`crawl_service.py:137`), which holds back deferred slots until the sweep.
* A user's run is claimed without a look at active runs
  (`schedule_handler_base.py:119`).
* The user's run of a writing task is never claimed
  (`app/routes/collect.py:757` starts it, and its handler looks only at the window) and
  blocks the schedule until it is swept.
* `is_slot_claimed` adds nothing to the comparison with the latest run.

## Fairness

* `MergeQueue!FairSpec`: weak fairness of every thread's steps. Threads are
  scheduled by the operating system and BRPOP returns within 5 s. That the merge
  subprocess ends is an assumption about plan-runner, which is external: the
  listener waits for it without a timeout (`_dr_merge.py:1922`). New jobs, faults
  and deaths are not fair.
* `MergeQueue!TimedSpec` adds strong fairness of `DeadlinePasses`: a waiter tests
  its deadline at every pass of its loop, and once a day has gone by every test
  is positive. The waiter is not continuously at the test, hence *strong*.
* `MergeLifecycle!FairSpec`: weak fairness of every thread's steps and of what the
  listener starts by itself, `Restart` among it, since a watchdog script
  (`scripts/watchdogs/dev-runner-listener-watchdog.ps1`) starts a listener that has
  died. The same assumption about subprocesses applies.
* `RunnerStart!FairSpec`: the listener (with its restart), the API's handlers, the
  launching threads, the threads that watch a process and the cleanups go on; a
  plan-runner process ends, which is again an assumption about it. Stops,
  corrections and administrators are not fair.
* `LLMQueue!FairSpec`: the worker's loop, the starts of worker and chat executor by
  their watchdogs, the chat executor, and the commit of an API call that has begun.
  An execution ends with its time-out; that a chat ends, and a quota pause, are
  assumptions about the command line tool and the provider.
* `CrawlRequests!FairSpec`: the worker's loop with its start, handlers of the API
  that have begun, and tasks, whose crawls have time-outs. Nobody need ask for
  anything.
* `ScheduledRuns!FairSpec`: the loop's dispatch and sweep, the restart of the
  worker process, time, and the tasks, whose crawls end with their time-outs.
* `TabPool` has safety properties only: a waiter of `get_tab` gives up by itself,
  and nothing says that it is served first.

In all of them users, faults and deaths are not fair.

## Proofs

Each protocol module has a module of theorems about its `Spec`. They hold for any
value of the constants that the `ASSUME` of the protocol module admits
(`QueueAssumption`, `LifecycleAssumption`, `StartAssumption`,
`LLMQueueAssumption`, `CrawlRequestsAssumption`, `TabPoolAssumption`,
`TimeAssumption` and `BoundAssumption`): what kind of value each constant is,
that limits are positive, and that `ExecTimeout <= StaleAfter`, as in the code.
Where a property needs more than that, the theorem has a named hypothesis about
the constants, which the tables give; TLC finds counterexamples outside them, and
the reasons are below. `TypeCorrect` (`Spec => []TypeOK`) is proved everywhere and
without hypotheses.

| Theorem | States | Hypothesis |
|---|---|---|
| **`MergeQueue_proofs`** | | |
| `QueueHasNoDuplicates` | `[]QueuedOnce` | |
| `QueueIsServedInOrder` | `[]FrontHolds` | |
| `QueueImplementsTurn` | `ImplementsMergeTurn` | |
| `DirectMergesAreSerialized` | `[]MergesSerialized` | `OnlyDirect` |
| `FrontIsNotStranded` | `[]NoStrandedFront` | `Attended` |
| **`MergeLifecycle_proofs`** | | |
| `OutcomesStay` | `OutcomeStays` | `OneByOne` |
| `ReportsAreTrue` | `[]ResultMatchesStatus` | `OneByOne`, `Plain` |
| `ApprovalsHold` | `ApprovalHeld` | `Heedful` |
| `ActiveAttended` | `[]ActiveIsAttended` | `FollowedUp` |
| `MergedPlansAreDone` | `[]MergedPlanIsDone` | `OwnMerges` |
| **`RunnerStart_proofs`** | | |
| `PlansRunOnce` | `[]OneProcess` | |
| `RunnersStayClaimed` | `[]RunningIsClaimed` | |
| `RunnersKeepClaims` | a running process has a live claim from its spawn on, with `launch` and either `race` or `quick` | |
| `HeadersDoNotDangle` | `[]HeaderIsNotDangling` | |
| `ReleasedClaimsStay` | `ReleasedStaysReleased` | |
| **`LLMQueue_proofs`** | | |
| `ExecutingNeverStale` | `[]ExecutingIsNotStale` | |
| `AnswersStand` | `AnswerStands` | |
| `CapacityIsKept` | `[]CapacityKept` | |
| `NothingIsLeftBehind` | `[]NothingLeftBehind` | |
| **`CrawlRequests_proofs`** | | |
| `CancellationsStand` | `CancelStands` | |
| `QueuedRowsAreListed` | `[]QueuedIsListed` | |
| `RunsAreAskedFor` | `[]RunAsAsked` | |
| **`TabPool_proofs`** | | |
| `TabsAreExclusive` | `[]TabIsExclusive` | |
| `ReusedTabsAreOpen` | `[]ReusedIsOpen` | |
| `NothingGetsLost` | `[]NothingIsLost` | |
| **`ScheduledRuns_proofs`** | | |
| `RunsAreAlone` | `[]RunsAlone` | |
| `SlotsAreServedOnce` | the safety part of `ImplementsService` | |

### The arguments

**Merge queue.** *Shape* = `TypeOK /\ QueuedOnce` is inductive. `QueuedOnce` is
needed already for the type of the helper results: `RemoveFirst` of a sequence
without duplicates takes out *the* entry of a runner, and only `Enqueue` adds one,
after it has looked. `FrontHolds` is not inductive: a heartbeat thread that were at
the label `merging` could be overtaken. *InOrder* adds that heartbeat threads are
never inside acquire or a merge; `MergeIsEnteredAtFront` says that the step into
`merging` finds its runner at the front, and `QueueKeepsFirst` that no step of
anybody pushes it back. The refinement maps the Redis list to the line and the `pc`
of a thread to asking, granted or out; `TurnStep` takes every disjunct of `Next`
to a step or a stutter of `MergeTurn`.

`MergesSerialized` needs *Serial*: a runner at work has status "running" and no
pid, so that no verdict calls it stale; whoever *was* found stale is over and has no
second job (`EvictedIsOver`, which is what makes the eviction of an entry after
the verdict harmless); hence a merging runner is the front. `OnlyDirect` has one
direct merge per thread, each thread with a runner of its own, and no flush.
`NoStrandedFront` needs *Awake*: of a waiter in BRPOP or at its 5-second check that
is the front, a signal is there, or somebody is between a removal and the signal
(`Coming`), and the silent removal at the end of a cleanup finds nothing (`Swept`).
`Attended` excludes what leaves the line without a signal: exceptions, deadlines,
crashes of a CLI process, two threads of one runner.

**Merge lifecycle.** All proofs start from *Staged*: jobs come one at a time
(`OneAtATime`), the threads that will see the process exit wait until it does
(`Attended`, `Running`), what a call of `transition` has read is still there when it
writes (`Called`), and at every label merge_status is what its thread has last
written (`Stage`). `OneByOne` is the hypothesis for it: `Overlap = FALSE`, one
stream thread, and not both a monitor thread and a heartbeat, which after a restart
see the same exit within seconds. The properties add to it

* *Reported*, that the result of a merge at its end is its status or what it is
  about to write. `Plain` leaves out exit code 1, a failed done flow and the
  deletion of keys of an unseen runner by a poll: in the first two the
  handlers report what `transition` has refused.
* *Heeded*, that nobody but the user who approves is about to replace a status that
  waits for an approval. `Heedful` leaves out the heartbeat, a lost log of an
  unseen runner, and a poll that follows a crash.
* *Quiet*, that a status without a thread at work is not active, unless a restart
  is to come that goes on with it. `SafeToCrash` (shared with the next) says that a
  listener that may crash gets no commands, no polls and no reused PID;
  `FollowedUp` also that the process leaves no active status behind, that a crash
  does not come with exit code 2, whose `fixing` no restart takes up, and that the
  resolver of resolve-conflict does not raise.
* *Finishing*, that whoever asks for `merged` will do the done flow or asks in vain.
  `OwnMerges`: neither the process nor resolve-conflict merges by itself, and no
  approved retry overrides the error of exit code 1.

**Starts.** *Base* is the types and what goes with a claim from the start on: a
start has one command, one launch, one process (`LaunchedOnce`), and one watching
thread, which cleans up after it has stopped watching (`WatchedOnce`). *UpOnce* says
that without a crash every process there is has been launched by this listener,
whose main thread cleans up only after what has ended. *Trusted*, for the faults
`launch` with `race` or with `quick` (`Calm`), has two parts. `AllNamed`: whoever
needs its claim (a request being enqueued, a command, a launching thread, a running
process) has it live, and cleanups go by the claim id, but for one of a start whose
process was quick, which still has its own claim live. `Single`: without a race at
most one start counts, that is, checks, or has a live claim and its first life ahead.
What goes by the plan then finds its own claim, since there is no other.
`OneProcess` follows from both parts, `ReleasedStaysReleased` and the rest from
`AllNamed` alone, which is why they withstand a race.

For `RunningIsClaimed` after a crash, *Recovered* says what the crash leaves. The
danger is a cleanup that finds no claim id key, since it releases whatever live
claim the plan has: a start that the API has queued and nobody has launched is such
a cleanup to come. So as long as a process that the crash has cut off from its
launching thread runs (`Survivor`), it has the only live claim, nobody launches
(`NobodyLaunches`), and no other start has anything to clean up except by its own
claim id (`Outside`): the listener refuses every command because of the claim, and
the API every request. `CrashLeavesRecovered` derives this from `Trusted`, from
*Settled* (a start that was never launched has a live claim or no trace in Redis) and
from *AllBear* (a launched runner has its keys, and its claim its own id: `Own`,
`Bearing`), which a torn launch would not have; `RecoveredStep` carries it through
the restart.

**LLM queue.** *Order* ties the worker to its request: the age of the row counts
from the start of the execution (`Fresh`), nobody else answers it (`Unanswered`),
only chats come to the chat executor, and what a sweep has read is in no worker's
hands when it commits (`SweepsApart`). `CapacityKept` is inductive over it: claims
are added one at a time, and only after a count. `NothingLeftBehind` needs
`InHand`: without a fault a request in processing has somebody who works on it, and
a claim belongs to the request that the worker executes or has just executed.

**Crawl requests.** *Base* says who may hold a row (`Known`), in which order the
worker goes (`WorkerOrder`), and that a row with a task is not queued. `Listed` and
`Due` are inductive over it: an entry is dropped only for a row that is not
queued, and a request to which a run is still owed has had fewer than were asked for.

**Tabs.** *Hands*: a coroutine from its check to its release has a tab, no two have
the same, and it stays locked unless a sweep has removed it; a page in preparation
is in no list yet, and a swept tab is closed before it is removed. Of the locks this
is said only as long as the browser closes what is swept (`Closes`).
`OnlySpentAreSwept` adds that, unless tabs have been found idle, a sweep takes only
what is worn out and free; `Accounted`, that, unless a call was cancelled, every
lock and every page outside the pool has its coroutine.

**Schedules.** *Alone*: a slot has at most one row, no row starts before its slot,
and between the look at active rows and the insert only rows of users come
(`Starting`), so that the slot is still without a row. `TasksAlone` compares the runs
that are worked on or about to end (`Engaged`), since a crawl may leave its row running
until its task ends, and makes the exceptions of `RunsAlone`. With one row per slot,
`slotState` is a function of that row, and every step is one of `SlotService` or a
stutter.

### What is only model-checked

* All liveness, with the fairness it assumes, and the fairness part of
  `ImplementsService`: the proof system handles neither fairness nor ENABLED.
* `ActiveIsAttended` and `MergedPlanIsDone` with a monitor thread beside a heartbeat,
  which `OneByOne` excludes and `lifecycle_restarts` has. `lifecycle_commands`,
  `lifecycle_hidden` and `queue_orderly` are instances of the
  hypotheses of the theorems about their properties.

Outside the hypotheses TLC finds these properties violated, each by behaviour that
the observations above describe: `ResultMatchesStatus` with exit code 1 or a failed
done flow, `ApprovalHeld` with a heartbeat, with a lost log of an unseen runner, and
with a poll and a crash, `ActiveIsAttended` after a crash when a status was
`fixing`, the PID was reused, or a command or a poll had come to a stopped runner,
`MergedPlanIsDone` after a crash with a reused PID, `RunningIsClaimed` after a
crash together with a quick exit. For the properties of starts the table of
[RunnerStart](#runnerstart) says what each excepted fault does.

## What is not modelled

*Parts of modelled components*

* Merge lifecycle: `restart_after_merge`, pre-review stops, key expiry, workflow
  rows, the PostgreSQL mirror, removal of worktrees.
* Runner start: force-stop and kill, the cleanup by a reconnection that finds a living
  process and no log file (`_dr_process_utils.py:870`, as `Unreadable` in
  `MergeLifecycle`), the restoration of keys after a lost Redis connection, runners no
  user sees, whose keys a cleanup deletes (`MergeLifecycle` has them), runner ids that
  collide, the identity check of a reconnection,
  `max_concurrent_runners` (which the API compares long before the runner is
  registered), expiry of keys, result keys and the time-out of a command whose result nobody
  waits for any more, dismissal of stopped runners.
* Claims: claims of tasks, leases, heartbeats, `mark_stale_claims`; of these only
  tests make use.
* LLM queue: the duplicate check at enqueue, priorities, schedules and execution
  windows, soft delete, update of a pending request, pauses of a whole provider, the
  push of a busy chat executor's command. `app/database.py`, with its sessions, is
  not in the repository.
* Crawl requests: the crawl itself, retries of single addresses, the search for
  duplicates, the circuit breaker of the database, requests for activities.
* Tabs: recovery of a dead browser and its stale contexts, warm-up, registration
  of tabs at the start, `close_all_tabs`, pop-up and login handling. The browser
  manager is not in the repository.
* Schedules: how slots are drawn from windows and cron expressions, expiry and
  disabling of schedules, what the runs do.

*Whole components*

* Worker supervision: planned, see below.
* The done flow, worktrees and git: state is the file system, behind subprocesses.
  The merge sees their outcomes.
* `merge_lock.py`, the predecessor of the merge queue.
* Archive indexing and search, events and logs, notifications: no protocol that
  another part decides by.
* Site monitors and crawlers: what they compute depends on pages outside the
  repository.
* Productivity modules: single-row operations, one request at a time.
* Classifiers and scanner: batch file processing with external models.
* Frontend, mobile app, migrations: declarative or generated.

## Plan

Done: `MergeTurn`, `MergeQueue`, `MergeState`, `MergeLifecycle`, `RunnerStart`,
`LLMQueue`, `CrawlRequests`, `TabPool`, `SlotService`, `ScheduledRuns`, and proofs of
every safety property that a run checks.

To come, in this order:

1. `OneByOne` without its last condition: monitor thread and heartbeat side by side
   after a restart, for `ActiveIsAttended` and `MergedPlanIsDone`, for which
   `Staged` has to allow two jobs at a time when one of them is a heartbeat.
2. `DirectMergesAreSerialized` with the command line's own merges beside the
   listener's: `OnlyDirect` admits jobs of kind "direct" alone, and a job of the
   command line is another kind, which dies with its process.
3. Worker supervision: restarts in a window, permanent failure at the fifth
   exception, and the exit of the process when every worker has failed.

----------------------------- MODULE RunnerStart -----------------------------
(* The starts and stops of runners of one plan: the API claims the plan in  *)
(* the database and puts a command into a Redis list; the listener takes    *)
(* it, checks claims and registered runners, and launches plan-runner from  *)
(* a thread of its own; whoever sees the process end cleans up after it and *)
(* releases the claim.  A start has a runner id and a claim id of its own,  *)
(* and both are named by the start here.  Runners are visible: their keys   *)
(* stay when they have ended.                                               *)
EXTENDS Naturals, FiniteSets, Sequences, SequencesExt

CONSTANTS
    Starts,      \* requests to run the plan
    FaultKinds,  \* the faults and unlucky moments that may happen
    MaxFaults    \* bound: how many kinds of them

NoStart == "no start"

ASSUME StartAssumption ==
    /\ NoStart \notin Starts /\ IsFiniteSet(Starts)
    /\ FaultKinds \subseteq {"claim", "race", "reply", "admin", "launch",
                             "quick", "early", "crash", "torn"}
    /\ MaxFaults \in Nat

VARIABLES
    claims,    \* plan_execution_claims.state of a start's claim
    claimed,   \* the starts that have claims, by claimed_at
    holder,    \* plan_execution_claims.runner_id
    header,    \* the claim id in the header of the plan file
    api,       \* where the API is with a start
    commands,  \* the command list, oldest first
    listener,  \* the listener: up, the start it accepts, runners to reconnect
    launcher,  \* where the thread is that launches a runner
    process,   \* the plan-runner process of a start
    status,    \* ...:status
    keys,      \* which other keys of a runner there are, see Keys
    registered, \* the runners in _running_processes
    watched,   \* the runners with a stream or monitor thread
    cleanup,   \* calls of _cleanup_process_state, see Cleaners
    faults     \* the faults that have happened

claiming == <<claims, claimed, holder, header>>
redis == <<commands, status, keys>>
running == <<process, registered, watched>>
vars == <<claiming, api, redis, listener, launcher, running, cleanup, faults>>

(* ...:pid, ...:plan_file, ...:claim_id, and membership in active_runners.  *)
Keys == {"pid", "plan", "claim", "active"}

(* A cleanup is called by the thread that watches the runner, or by the     *)
(* listener's main thread, for a stop command or while it reconnects.       *)
Cleaners == Starts \X {"thread", "main"}
NotCleaning == [pc |-> "idle", by |-> "none", of |-> NoStart]

TypeOK ==
    /\ claims \in [Starts -> {"none", "queued", "active", "released"}]
    /\ claimed \in Seq(Starts)
    /\ \A s \in Starts : claims[s] = "none" <=> ~Contains(claimed, s)
    /\ holder \in [Starts -> Starts]
    /\ header \in Starts \cup {NoStart}
    /\ api \in [Starts -> {"idle", "claiming", "enqueuing", "enqueued", "failed",
                           "clearing", "done"}]
    /\ commands \in Seq(Starts)
    /\ listener \in [up : BOOLEAN, accepting : Starts \cup {NoStart},
                     reconnecting : SUBSET Starts]
    /\ launcher \in [Starts -> {"none", "preparing", "spawned", "listing",
                                "activating", "done"}]
    /\ process \in [Starts -> {"none", "running", "exited"}]
    /\ status \in [Starts -> {"none", "queued", "running", "error", "stopped"}]
    /\ keys \in [Starts -> SUBSET Keys]
    /\ registered \subseteq Starts /\ watched \subseteq Starts
    /\ cleanup \in [Cleaners -> [pc : {"idle", "capture", "release", "clear"},
                                 by : {"none", "claim", "plan", "runner"},
                                 of : Starts \cup {NoStart}]]
    /\ faults \subseteq FaultKinds

Down == [up |-> FALSE, accepting |-> NoStart, reconnecting |-> {}]

Init ==
    /\ claims = [s \in Starts |-> "none"]
    /\ claimed = <<>>
    /\ holder = [s \in Starts |-> s]
    /\ header = NoStart
    /\ api = [s \in Starts |-> "idle"]
    /\ commands = <<>>
    /\ listener = [Down EXCEPT !.up = TRUE]
    /\ launcher = [s \in Starts |-> "none"]
    /\ process = [s \in Starts |-> "none"]
    /\ status = [s \in Starts |-> "none"]
    /\ keys = [s \in Starts |-> {}]
    /\ registered = {} /\ watched = {}
    /\ cleanup = [c \in Cleaners |-> NotCleaning]
    /\ faults = {}

Fault(kind) ==
    /\ kind \in FaultKinds
    /\ faults' = faults \cup {kind}
    /\ Cardinality(faults') <= MaxFaults

Live == {s \in Starts : claims[s] \in {"queued", "active"}}

(* get_active_claim_for_plan: the live claim claimed last, or NoStart. *)
LatestLive ==
    IF Live = {} THEN NoStart
    ELSE LET last == CHOOSE i \in DOMAIN claimed :
                 /\ claimed[i] \in Live
                 /\ \A j \in DOMAIN claimed : claimed[j] \in Live => j <= i
         IN  claimed[last]

SetClaim(s, state) == claims' = [claims EXCEPT ![s] = state]

-----------------------------------------------------------------------------
(* start_dev_runner of the API. *)

ApiAt(s, label) == api[s] = label
ApiGoto(s, label) == api' = [api EXCEPT ![s] = label]
ApiKeeps == UNCHANGED <<listener, launcher, running, cleanup>>

(* Variant: a claim that has not been activated yet is overlooked. *)
CheckActive(s) ==
    /\ ApiAt(s, "idle")
    /\ \/ /\ \E t \in Starts : claims[t] = "active"
          /\ ApiGoto(s, "done") /\ UNCHANGED faults
       \/ /\ \A t \in Starts : claims[t] # "active"
          /\ ApiGoto(s, "claiming")
          /\ IF \E t \in Starts : ApiAt(t, "claiming") THEN Fault("race")
             ELSE UNCHANGED faults
    /\ ApiKeeps /\ UNCHANGED <<claiming, redis>>

(* claim_plan looks for a live claim: the 409 of a conflict.  A process     *)
(* that starts runners does not turn to another request before it has       *)
(* inserted its claim; the API and the scheduled worker are two processes.  *)
Check(s) ==
    /\ ApiAt(s, "idle")
    /\ \/ Live # {} /\ ApiGoto(s, "done") /\ UNCHANGED faults
       \/ /\ Live = {} /\ ApiGoto(s, "claiming")
          /\ IF \E t \in Starts : ApiAt(t, "claiming") THEN Fault("race")
             ELSE UNCHANGED faults
    /\ ApiKeeps /\ UNCHANGED <<claiming, redis>>

(* The header is written and the row committed; or claim_plan raises, and   *)
(* the start goes on without a claim.                                       *)
Insert(s) ==
    /\ ApiAt(s, "claiming")
    /\ \/ /\ SetClaim(s, "queued")
          /\ claimed' = Append(claimed, s)
          /\ header' = s
          /\ UNCHANGED <<holder, faults>>
       \/ Fault("claim") /\ UNCHANGED claiming
    /\ ApiGoto(s, "enqueuing")
    /\ ApiKeeps /\ UNCHANGED redis

(* Variant: the failure is only reported. *)
EnqueueOrReport(s) ==
    /\ ApiAt(s, "enqueuing")
    /\ \/ /\ commands' = Append(commands, s)
          /\ ApiGoto(s, "enqueued") /\ UNCHANGED faults
       \/ ApiGoto(s, "done") /\ UNCHANGED <<commands, faults>>
       \/ /\ commands' = Append(commands, s)
          /\ ApiGoto(s, "done") /\ Fault("reply")
    /\ ApiKeeps /\ UNCHANGED <<claiming, status, keys>>

(* The command is in the list; or Redis fails; or the command is in the     *)
(* list and the reply is lost, which to the API is the same.                *)
Enqueue(s) ==
    /\ ApiAt(s, "enqueuing")
    /\ \/ /\ commands' = Append(commands, s)
          /\ ApiGoto(s, "enqueued") /\ UNCHANGED faults
       \/ ApiGoto(s, "failed") /\ UNCHANGED <<commands, faults>>
       \/ /\ commands' = Append(commands, s)
          /\ ApiGoto(s, "failed") /\ Fault("reply")
    /\ ApiKeeps /\ UNCHANGED <<claiming, status, keys>>

(* Variant: a start without a claim is released, too. *)
ApiReleasesAlways(s) ==
    /\ ApiAt(s, "failed")
    /\ SetClaim(s, "released") /\ ApiGoto(s, "clearing")
    /\ ApiKeeps /\ UNCHANGED <<claimed, holder, header, redis, faults>>

(* The claim, if there is one, is released whatever state it is in. *)
ApiReleases(s) ==
    /\ ApiAt(s, "failed")
    /\ IF claims[s] = "none" THEN ApiGoto(s, "done") /\ UNCHANGED claims
       ELSE ApiGoto(s, "clearing") /\ SetClaim(s, "released")
    /\ ApiKeeps /\ UNCHANGED <<claimed, holder, header, redis, faults>>

ApiClears(s) ==
    /\ ApiAt(s, "clearing")
    /\ header' = NoStart
    /\ ApiGoto(s, "done")
    /\ ApiKeeps /\ UNCHANGED <<claims, claimed, holder, redis, faults>>

(* The runner's first keys, whatever the listener has written meanwhile;    *)
(* or an exception before them.                                             *)
SetQueued(s) ==
    /\ ApiAt(s, "enqueued")
    /\ \/ /\ status' = [status EXCEPT ![s] = "queued"]
          /\ keys' = [keys EXCEPT ![s] = @ \cup {"plan"}]
       \/ UNCHANGED <<status, keys>>
    /\ ApiGoto(s, "done")
    /\ ApiKeeps /\ UNCHANGED <<claiming, commands, faults>>

ApiStep(s) ==
    \/ Check(s) \/ Insert(s) \/ Enqueue(s) \/ SetQueued(s)
    \/ ApiReleases(s) \/ ApiClears(s)

(* cleanup_stale_runners, and the status and the list of runners: one with  *)
(* a dead pid is stopped, one with a living pid is running.                  *)
Correct(s) ==
    /\ "pid" \in keys[s]
    /\ \/ /\ process[s] = "exited" /\ (status[s] = "running" \/ "active" \in keys[s])
          /\ status' = [status EXCEPT ![s] = "stopped"]
          /\ keys' = [keys EXCEPT ![s] = @ \ {"active"}]
       \/ /\ process[s] = "running" /\ status[s] # "running"
          /\ status' = [status EXCEPT ![s] = "running"]
          /\ keys' = [keys EXCEPT ![s] = @ \cup {"active"}]
    /\ UNCHANGED <<claiming, api, commands, listener, launcher, running, cleanup,
                   faults>>

(* DELETE /plans/.../claim. *)
AdminReleases ==
    /\ Fault("admin") /\ Live # {}
    /\ SetClaim(LatestLive, "released")
    /\ header' = NoStart
    /\ UNCHANGED <<claimed, holder, api, redis, listener, launcher, running,
                   cleanup>>

-----------------------------------------------------------------------------
(* The listener's main thread takes a command, or cleans up, or reconnects. *)

MainIsFree ==
    /\ listener.up /\ listener.accepting = NoStart /\ listener.reconnecting = {}
    /\ \A s \in Starts : cleanup[<<s, "main">>] = NotCleaning

ListenerKeeps == UNCHANGED <<api, status, keys>>

(* A run command is refused when another runner has the plan's live claim.  *)
Take ==
    /\ MainIsFree /\ commands # <<>>
    /\ commands' = Tail(commands)
    /\ listener' = IF LatestLive = NoStart \/ holder[LatestLive] = Head(commands)
                   THEN [listener EXCEPT !.accepting = Head(commands)]
                   ELSE listener
    /\ ListenerKeeps
    /\ UNCHANGED <<claiming, launcher, running, cleanup, faults>>

(* A runner of the plan in active_runners that lives, or whose cleanup has  *)
(* set its flag. *)
Listed(s) == {"active", "plan"} \subseteq keys[s]
Occupies(s) == Listed(s) /\ "pid" \in keys[s] /\ process[s] = "running"
Flagged(s) == Listed(s) /\ \E c \in Cleaners : c[1] = s /\ cleanup[c] # NotCleaning

(* The user is shown such a runner instead; or a thread is started.  (The   *)
(* flag lasts for 30 s, and a cleanup may last longer.)                     *)
Accept ==
    /\ listener.accepting # NoStart
    /\ LET s == listener.accepting
           others == Starts \ {s}
       IN  \/ (\E t \in others : Occupies(t) \/ Flagged(t)) /\ UNCHANGED launcher
           \/ /\ \A t \in others : ~Occupies(t)
              /\ launcher' = [launcher EXCEPT ![s] = "preparing"]
    /\ listener' = [listener EXCEPT !.accepting = NoStart]
    /\ ListenerKeeps
    /\ UNCHANGED <<claiming, commands, running, cleanup, faults>>

-----------------------------------------------------------------------------
(* The thread that launches a runner. *)

LauncherAt(s, label) == launcher[s] = label
LauncherGoto(s, label) == launcher' = [launcher EXCEPT ![s] = label]

(* No worktree, no memory, an archived plan: the claim stays as it is. *)
LaunchFails(s) ==
    /\ Fault("launch") /\ LauncherAt(s, "preparing")
    /\ status' = [status EXCEPT ![s] = "error"]
    /\ LauncherGoto(s, "none")
    /\ UNCHANGED <<claiming, api, commands, keys, listener, running, cleanup>>

(* Popen, the registration of the process, and the stream thread. *)
Spawn(s) ==
    /\ LauncherAt(s, "preparing")
    /\ process' = [process EXCEPT ![s] = "running"]
    /\ registered' = registered \cup {s}
    /\ watched' = watched \cup {s}
    /\ LauncherGoto(s, "spawned")
    /\ UNCHANGED <<claiming, api, redis, listener, cleanup, faults>>

WriteKeys(s) ==
    /\ LauncherAt(s, "spawned")
    /\ keys' = [keys EXCEPT ![s] = @ \cup {"pid", "plan"}]
    /\ status' = [status EXCEPT ![s] = "running"]
    /\ LauncherGoto(s, "listing")
    /\ UNCHANGED <<claiming, api, commands, listener, running, cleanup, faults>>

(* The claim_id key is empty when there is no claim. *)
List(s) ==
    /\ LauncherAt(s, "listing")
    /\ keys' = [keys EXCEPT ![s] =
                   @ \cup {"active"} \cup IF claims[s] = "none" THEN {} ELSE {"claim"}]
    /\ LauncherGoto(s, "activating")
    /\ UNCHANGED <<claiming, api, commands, status, listener, running, cleanup,
                   faults>>

(* activate_claim, whatever state the claim is in; without a claim of its   *)
(* own, that of the plan if it is queued.  The claim is the runner's then.  *)
Activate(s) ==
    LET claim == IF claims[s] # "none" THEN s
                 ELSE IF LatestLive # NoStart /\ claims[LatestLive] = "queued"
                 THEN LatestLive ELSE NoStart
    IN
    /\ LauncherAt(s, "activating")
    /\ IF claim = NoStart THEN UNCHANGED <<claims, holder>>
       ELSE SetClaim(claim, "active") /\ holder' = [holder EXCEPT ![claim] = s]
    /\ LauncherGoto(s, "done")
    /\ UNCHANGED <<claimed, header, api, redis, listener, running, cleanup, faults>>

LauncherStep(s) == Spawn(s) \/ WriteKeys(s) \/ List(s) \/ Activate(s)

-----------------------------------------------------------------------------
(* The end of a process, and what is cleaned up after it. *)

(* A process that ends before its launcher is done is quick. *)
Exits(s) ==
    /\ process[s] = "running"
    /\ IF launcher[s] \in {"none", "done"} THEN UNCHANGED faults ELSE Fault("quick")
    /\ process' = [process EXCEPT ![s] = "exited"]
    /\ UNCHANGED <<claiming, api, redis, listener, launcher, registered, watched,
                   cleanup>>

BeginCleanup(s, by) ==
    cleanup' = [cleanup EXCEPT ![<<s, by>>].pc = "capture"]

(* The stream thread, or the monitor thread of a later listener, which      *)
(* leaves a runner alone that is not registered any more.                   *)
WatcherCleans(s) ==
    /\ s \in watched /\ process[s] = "exited"
    /\ watched' = watched \ {s}
    /\ IF LauncherAt(s, "none") /\ s \notin registered THEN UNCHANGED cleanup
       ELSE BeginCleanup(s, "thread")
    /\ UNCHANGED <<claiming, api, redis, listener, launcher, process, registered,
                   faults>>

(* The main thread comes to clean up after a runner.  It is early if the    *)
(* runner has been registered, and is still being launched.                 *)
MainCleans(s) ==
    /\ MainIsFree /\ s \in registered
    /\ BeginCleanup(s, "main")
    /\ IF launcher[s] \in {"none", "done"} THEN UNCHANGED faults ELSE Fault("early")
    /\ UNCHANGED <<claiming, api, redis, listener, launcher, registered, watched>>

(* A stop command kills the process and cleans up. *)
Stop(s) ==
    /\ process[s] = "running"
    /\ process' = [process EXCEPT ![s] = "exited"]
    /\ MainCleans(s)

(* The heartbeat finds the process ended, and nobody who cleans up. *)
HeartbeatCleans(s) ==
    /\ process[s] = "exited"
    /\ MainCleans(s) /\ UNCHANGED process

CleanupAt(c, pc) == cleanup[c].pc = pc

(* The runner is struck off; what is known of the claim; the registration   *)
(* as stopped.                                                              *)
Capture(c) ==
    LET s == c[1] IN
    /\ CleanupAt(c, "capture")
    /\ registered' = registered \ {s}
    /\ cleanup' = [cleanup EXCEPT ![c].pc = "release",
                      ![c].by = IF "claim" \in keys[s] THEN "claim"
                                ELSE IF "plan" \in keys[s] THEN "plan"
                                ELSE "runner"]
    /\ status' = [status EXCEPT ![s] = "stopped"]
    /\ keys' = [keys EXCEPT ![s] = @ \ {"active"}]
    /\ UNCHANGED <<claiming, api, commands, listener, launcher, process, watched,
                   faults>>

(* get_active_claim_for_runner. *)
LatestOf(s) ==
    LET own == {t \in Live : holder[t] = s}
    IN  IF own = {} THEN NoStart ELSE CHOOSE t \in own : TRUE

(* Variant: the plan's live claim, whoever has it. *)
ReleasableByPlan(c) == LatestLive

(* The claim to be released: that of the claim_id key, or the plan's live   *)
(* claim, or the runner's.                                                  *)
Releasable(c) ==
    CASE cleanup[c].by = "claim" -> c[1]
      [] cleanup[c].by = "plan" /\ LatestLive # NoStart -> LatestLive
      [] OTHER -> LatestOf(c[1])

Release(c) ==
    LET claim == Releasable(c) IN
    /\ CleanupAt(c, "release")
    /\ IF claim = NoStart
       THEN /\ cleanup' = [cleanup EXCEPT ![c] = NotCleaning]
            /\ UNCHANGED claims
       ELSE /\ cleanup' = [cleanup EXCEPT ![c].pc = "clear", ![c].of = claim]
            /\ SetClaim(claim, "released")
    /\ UNCHANGED <<claimed, holder, header, api, redis, listener, launcher, running,
                   faults>>

(* Variant: the header is cleared for the runner's own claim only. *)
ClearOwnHeader(c) ==
    /\ CleanupAt(c, "clear")
    /\ header' = IF cleanup[c].by = "claim" THEN NoStart ELSE header
    /\ cleanup' = [cleanup EXCEPT ![c] = NotCleaning]
    /\ UNCHANGED <<claims, claimed, holder, api, redis, listener, launcher, running,
                   faults>>

ClearHeader(c) ==
    /\ CleanupAt(c, "clear")
    /\ header' = NoStart
    /\ cleanup' = [cleanup EXCEPT ![c] = NotCleaning]
    /\ UNCHANGED <<claims, claimed, holder, api, redis, listener, launcher, running,
                   faults>>

CleanupStep(c) == Capture(c) \/ Release(c) \/ ClearHeader(c)

-----------------------------------------------------------------------------
(* The listener dies, with its threads, and is started again: at most once. *)

(* A launch is torn if there is a process and no claim_id key yet. *)
ListenerDies ==
    /\ listener.up /\ {"crash", "torn"} \cap faults = {}
    /\ Fault(IF \E s \in Starts : launcher[s] \in {"spawned", "listing"}
             THEN "torn" ELSE "crash")
    /\ listener' = Down
    /\ launcher' = [s \in Starts |-> "none"]
    /\ registered' = {} /\ watched' = {}
    /\ cleanup' = [c \in Cleaners |-> NotCleaning]
    /\ UNCHANGED <<claiming, api, redis, process>>

(* Every runner is looked at before the first command is taken.             *)
Restart ==
    /\ ~listener.up
    /\ listener' = [Down EXCEPT !.up = TRUE, !.reconnecting = Starts]
    /\ UNCHANGED <<claiming, api, redis, launcher, running, cleanup, faults>>

(* A runner without a status, or stopped, is passed over.  Of the others, a *)
(* living process is watched again, and anything else is cleaned up.  A     *)
(* start that the API has queued and nobody has launched has no pid either. *)
Reconnect(s) ==
    /\ s \in listener.reconnecting
    /\ \A t \in Starts : cleanup[<<t, "main">>] = NotCleaning
    /\ listener' = [listener EXCEPT !.reconnecting = @ \ {s}]
    /\ \/ /\ status[s] \in {"none", "stopped"}
          /\ UNCHANGED <<registered, watched, cleanup>>
       \/ /\ status[s] \notin {"none", "stopped"}
          /\ "pid" \in keys[s] /\ process[s] = "running"
          /\ registered' = registered \cup {s} /\ watched' = watched \cup {s}
          /\ UNCHANGED cleanup
       \/ /\ status[s] \notin {"none", "stopped"}
          /\ ~("pid" \in keys[s] /\ process[s] = "running")
          /\ BeginCleanup(s, "main")
          /\ UNCHANGED <<registered, watched>>
    /\ UNCHANGED <<claiming, api, redis, launcher, process, faults>>

-----------------------------------------------------------------------------
ListenerStep ==
    \/ Take \/ Accept \/ Restart
    \/ \E s \in Starts : Reconnect(s)

(* Every start has been answered and every process has ended. *)
Finished ==
    /\ \A s \in Starts : api[s] = "done" /\ process[s] # "running"
    /\ commands = <<>> /\ MainIsFree /\ watched = {}
    /\ \A s \in Starts : launcher[s] \in {"none", "done"}
    /\ \A c \in Cleaners : cleanup[c] = NotCleaning
    /\ UNCHANGED vars

Next ==
    \/ ListenerStep \/ ListenerDies
    \/ \E s \in Starts :
          \/ ApiStep(s) \/ Correct(s)
          \/ LauncherStep(s) \/ LaunchFails(s)
          \/ Exits(s) \/ WatcherCleans(s) \/ Stop(s) \/ HeartbeatCleans(s)
    \/ \E c \in Cleaners : CleanupStep(c)
    \/ AdminReleases
    \/ Finished

Spec == Init /\ [][Next]_vars

(* The processes and threads go on, and a plan-runner comes to an end. *)
FairSpec ==
    /\ Spec
    /\ WF_vars(ListenerStep)
    /\ \A s \in Starts : /\ WF_vars(ApiStep(s)) /\ WF_vars(LauncherStep(s))
                         /\ WF_vars(Exits(s)) /\ WF_vars(WatcherCleans(s))
    /\ \A c \in Cleaners : WF_vars(CleanupStep(c))

-----------------------------------------------------------------------------
(* Properties.  Each says under which faults it holds; what a fault that is *)
(* not named does to it is described in the README.  A user's stop in the   *)
(* middle of a launch, which is no fault but an unlucky moment, is among    *)
(* them ("early"), and no property on claims but that of the header admits  *)
(* it: the claim is released, and the launching thread activates it again.  *)

(* A plan is run by one process at a time, whatever starts, later stops and *)
(* corrections users ask for and however the launching thread, the stream   *)
(* thread and the main thread of the listener interleave.  (The 409 of      *)
(* claim_plan, the claim check of the listener, and the search for an       *)
(* existing runner in _start_plan_runner; _release_claim_safe and the       *)
(* release in _cleanup_process_state.)                                      *)
OneProcess ==
    faults \subseteq {"launch", "quick"} =>
        Cardinality({s \in Starts : process[s] = "running"}) <= 1

(* The claim of a runner that has been launched and still runs is live: no  *)
(* cleanup of another runner, and no restart of the listener, releases it,  *)
(* so the next start of the plan is refused.  (The claim that               *)
(* _cleanup_process_state finds by claim id, by plan or by runner.)         *)
RunningIsClaimed ==
    \/ faults \subseteq {"launch", "quick"} \/ faults \subseteq {"launch", "race"}
    \/ faults \subseteq {"launch", "crash"}
    => \A s \in Starts :
           process[s] = "running" /\ launcher[s] \in {"none", "done"} => s \in Live

(* The header of the plan names a released claim only as long as somebody   *)
(* is about to clear it.  (release_claim commits, and clears the header     *)
(* after that, whoever's claim id stands there.)                            *)
HeaderIsNotDangling ==
    /\ {"crash", "torn"} \cap faults = {}
    /\ header # NoStart /\ claims[header] = "released"
    => \/ ApiAt(header, "clearing")
       \/ \E c \in Cleaners : CleanupAt(c, "clear") /\ cleanup[c].of = header

(* A claim that was released is never made active again, beside a newer     *)
(* claim of the plan.  (activate_claim sets the state without a look at the *)
(* one before.)                                                             *)
ReleasedStaysReleased ==
    [][(faults' \subseteq {"launch", "race"})
       => \A s \in Starts : claims[s] = "released" => claims'[s] = "released"]_vars

(* Without faults and early stops every claim is released in the end, and   *)
(* the plan can be started again.  (Every path from claim_plan to a         *)
(* release: the failure of the enqueue, the refusals of the listener, the   *)
(* end of the process.)                                                     *)
ClaimReturns ==
    [](faults = {}) => \A s \in Starts : s \in Live ~> s \notin Live
=============================================================================

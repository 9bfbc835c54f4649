----------------------------- MODULE MergeQueue -----------------------------
(***************************************************************************)
(* The dev-runner merge queue: scripts/plan_runner/merge_queue.py and its  *)
(* callers in the command listener.  Several threads and processes share   *)
(* one Redis; every action below is one Redis command (or one local step)  *)
(* of one of them, so that every interleaving of commands is explored.     *)
(*                                                                         *)
(* A thread runs one merge job for one runner.  JobOf tells who calls:     *)
(*   "inline"     the stream thread of a runner whose process has exited   *)
(*   "retry"      the background thread of a retry-merge command           *)
(*   "direct"     the background thread of a direct-merge command          *)
(*   "manual"     merge_lock_cli.py acquire, a manual merge, then release  *)
(*   "heartbeat"  the listener's heartbeat, which after 60 s forces the    *)
(*                turn of a runner whose process is dead to be released    *)
(***************************************************************************)
EXTENDS Naturals, Sequences, SequencesExt

CONSTANTS
    Threads,      \* threads of the listener, and CLI processes
    Runners,      \* runner ids, the elements of the queue
    RunnerOf,     \* the runner a thread works for
    JobOf,        \* the caller a thread stands for
    Visible,      \* runners triggered by a user: cleanup keeps their keys
    MaxAttempts,  \* bound: merge jobs per thread
    FaultKinds,   \* the faults that may happen
    MaxFaults     \* bound: how many of them

Jobs == {"inline", "retry", "direct", "manual", "heartbeat"}
Faults == {"exception", "flush", "crash", "deadline"}

ASSUME QueueAssumption ==
    /\ RunnerOf \in [Threads -> Runners]
    /\ JobOf \in [Threads -> Jobs]
    /\ Visible \subseteq Runners
    /\ FaultKinds \subseteq Faults
    /\ MaxAttempts \in Nat
    /\ MaxFaults \in Nat

VARIABLES
    queue,     \* plan-runner:merge-queue:{repo}, a Redis LIST
    turn,      \* length of plan-runner:merge-turn:{runner} (a list of "go")
    pid,       \* plan-runner:runners:{runner}:pid: no key, a live or a dead pid
    status,    \* plan-runner:runners:{runner}:status
    pc,        \* where each thread is
    seen,      \* the queue entry a thread has read and not yet acted upon
    cleaning,  \* the thread is past its own release, in _cleanup_process_state
    attempts,  \* merge jobs a thread has started
    faults     \* faults that have happened

redis == <<queue, turn, pid, status>>
locals == <<seen, cleaning>>
vars == <<queue, turn, pid, status, pc, seen, cleaning, attempts, faults>>

Labels == {"idle", "enqueue", "look", "wait", "recheck", "probe", "judge",
           "evict", "evictPeek", "evictPush", "promote", "withdraw", "merging",
           "release", "releasePeek", "releasePush", "sweep", "cleanup",
           "retire", "dead"}

(* Inside acquire_merge_turn, from its first enqueue to its return. *)
Acquiring == {"enqueue", "look", "wait", "recheck", "probe", "judge", "evict",
              "evictPeek", "evictPush", "promote", "withdraw"}

Me(t) == RunnerOf[t]
IsFront(r) == queue # <<>> /\ Head(queue) = r
HasJob(r, job) == \E t \in Threads : RunnerOf[t] = r /\ JobOf[t] = job

-----------------------------------------------------------------------------
(* A runner that the listener started has a live process and status        *)
(* "running"; one that is only retried finished earlier; direct and manual *)
(* merges have no keys yet.                                                *)
Init ==
    /\ queue = <<>>
    /\ turn = [r \in Runners |-> 0]
    /\ pid = [r \in Runners |-> IF HasJob(r, "inline") THEN "alive"
                                ELSE IF HasJob(r, "retry") THEN "dead"
                                ELSE "none"]
    /\ status = [r \in Runners |-> IF HasJob(r, "inline") THEN "running"
                                   ELSE IF HasJob(r, "retry") THEN "stopped"
                                   ELSE "none"]
    /\ pc = [t \in Threads |-> "idle"]
    /\ seen = [t \in Threads |-> Me(t)]
    /\ cleaning = [t \in Threads |-> FALSE]
    /\ attempts = [t \in Threads |-> 0]
    /\ faults = 0

Goto(t, label) == pc' = [pc EXCEPT ![t] = label]
Read(t, r) == seen' = [seen EXCEPT ![t] = r]
Signal(r) == turn' = [turn EXCEPT ![r] = @ + 1]

(* Where acquire_merge_turn's failure, and the end of a release, leads: a  *)
(* CLI process ends, a listener thread goes on to _cleanup_process_state.  *)
AfterTurn(t) == IF JobOf[t] = "manual" THEN "idle"
                ELSE IF cleaning[t] THEN "sweep" ELSE "cleanup"

(***************************************************************************)
(* Variants of the steps below, each with one plausible bug in it.  No     *)
(* specification uses them; every property fails when one of them takes    *)
(* the place of the step it is a variant of.                               *)
(***************************************************************************)

(* Enqueue without the search for an entry of the runner. *)
EnqueueAgain(t) ==
    /\ pc[t] = "enqueue"
    /\ queue' = Append(queue, Me(t))
    /\ Goto(t, "look")
    /\ UNCHANGED <<turn, pid, status, locals, attempts, faults>>

(* CheckFront that is content with any place in the queue. *)
EnterIfQueued(t) ==
    /\ pc[t] \in {"look", "recheck", "promote"}
    /\ Goto(t, IF Contains(queue, Me(t)) THEN "merging" ELSE "wait")
    /\ UNCHANGED <<redis, locals, attempts, faults>>

(* TakeSignal that believes the signal without looking at the queue. *)
TrustSignal(t) ==
    /\ pc[t] = "wait"
    /\ turn[Me(t)] > 0
    /\ turn' = [turn EXCEPT ![Me(t)] = @ - 1]
    /\ Goto(t, "merging")
    /\ UNCHANGED <<queue, pid, status, locals, attempts, faults>>

(* TakeSignal that does not block. *)
PopNothing(t) ==
    /\ pc[t] = "wait"
    /\ turn' = [turn EXCEPT ![Me(t)] = @ - 1]
    /\ Goto(t, "recheck")
    /\ UNCHANGED <<queue, pid, status, locals, attempts, faults>>

(* IsStale that asks for a living process only. *)
StaleUnlessAlive(r) == pid[r] # "alive"

(* EvictFront and Release that leave the next runner unsignalled. *)
EvictQuietly(t) ==
    /\ pc[t] = "evict"
    /\ queue' = RemoveFirst(queue, seen[t])
    /\ Goto(t, "promote")
    /\ UNCHANGED <<turn, pid, status, locals, attempts, faults>>

ReleaseQuietly(t) ==
    /\ pc[t] = "release"
    /\ queue' = RemoveFirst(queue, Me(t))
    /\ Goto(t, AfterTurn(t))
    /\ UNCHANGED <<turn, pid, status, locals, attempts, faults>>

(* ReleasePush to the wrong turn key. *)
SignalSelf(t) ==
    /\ pc[t] = "releasePush"
    /\ Signal(Me(t))
    /\ Goto(t, AfterTurn(t))
    /\ UNCHANGED <<queue, pid, status, locals, attempts, faults>>

(* A deadline that starts again with every BRPOP. *)
RestartDeadline(t) ==
    /\ "deadline" \in FaultKinds
    /\ pc[t] = "wait"
    /\ Goto(t, "probe")
    /\ UNCHANGED <<redis, locals, attempts, faults>>

-----------------------------------------------------------------------------

(* The plan-runner subprocess exits; its pid stays in the pid key. *)
ProcessExits(r) ==
    /\ pid[r] = "alive"
    /\ pid' = [pid EXCEPT ![r] = "dead"]
    /\ UNCHANGED <<queue, turn, status, pc, locals, attempts, faults>>

(***************************************************************************)
(* acquire_merge_turn                                                      *)
(***************************************************************************)

(* A job starts and deletes a left-over signal.  The inline merge runs     *)
(* after the runner's process has exited; a direct merge first writes      *)
(* status "running" for its temporary runner, and no pid.                  *)
Begin(t) ==
    /\ pc[t] = "idle"
    /\ JobOf[t] # "heartbeat"
    /\ attempts[t] < MaxAttempts
    /\ JobOf[t] = "inline" => pid[Me(t)] # "alive"
    /\ attempts' = [attempts EXCEPT ![t] = @ + 1]
    /\ cleaning' = [cleaning EXCEPT ![t] = FALSE]
    /\ status' = IF JobOf[t] = "direct"
                 THEN [status EXCEPT ![Me(t)] = "running"] ELSE status
    /\ turn' = [turn EXCEPT ![Me(t)] = 0]
    /\ Goto(t, "enqueue")
    /\ UNCHANGED <<queue, pid, seen, faults>>

(* The Lua script: RPUSH unless the runner is already in the list. *)
Enqueue(t) ==
    /\ pc[t] = "enqueue"
    /\ queue' = IF Contains(queue, Me(t)) THEN queue ELSE Append(queue, Me(t))
    /\ Goto(t, "look")
    /\ UNCHANGED <<turn, pid, status, locals, attempts, faults>>

(* LINDEX 0 = me?  Right after the enqueue, after a signal, and after a    *)
(* stale front was examined.                                               *)
CheckFront(t) ==
    /\ pc[t] \in {"look", "recheck", "promote"}
    /\ Goto(t, IF IsFront(Me(t)) THEN "merging" ELSE "wait")
    /\ UNCHANGED <<redis, locals, attempts, faults>>

(* BRPOP pops a signal. *)
TakeSignal(t) ==
    /\ pc[t] = "wait"
    /\ turn[Me(t)] > 0
    /\ turn' = [turn EXCEPT ![Me(t)] = @ - 1]
    /\ Goto(t, "recheck")
    /\ UNCHANGED <<queue, pid, status, locals, attempts, faults>>

(* BRPOP returns nothing after 5 seconds. *)
WaitTimesOut(t) ==
    /\ pc[t] = "wait"
    /\ turn[Me(t)] = 0
    /\ Goto(t, "probe")
    /\ UNCHANGED <<redis, locals, attempts, faults>>

(* The 5-second check: an empty queue ends the call; a front that is this  *)
(* runner is not taken as the turn; another front is examined.             *)
ProbeFront(t) ==
    /\ pc[t] = "probe"
    /\ \/ /\ queue = <<>>
          /\ Goto(t, AfterTurn(t))
          /\ UNCHANGED seen
       \/ /\ IsFront(Me(t))
          /\ Goto(t, "wait")
          /\ UNCHANGED seen
       \/ /\ queue # <<>> /\ Head(queue) # Me(t)
          /\ Read(t, Head(queue))
          /\ Goto(t, "judge")
    /\ UNCHANGED <<redis, cleaning, attempts, faults>>

(* _remove_if_stale's verdict: a pid key decides alone; without one, the   *)
(* status does.  GET pid and GET status are one step here: a runner that   *)
(* has no pid never gets one back, so the two cannot disagree.             *)
IsStale(r) == \/ pid[r] = "dead"
              \/ pid[r] = "none" /\ status[r] \in {"none", "stopped"}

JudgeFront(t) ==
    /\ pc[t] = "judge"
    /\ Goto(t, IF IsStale(seen[t]) THEN "evict" ELSE "promote")
    /\ UNCHANGED <<redis, locals, attempts, faults>>

(* LREM of the front that was read and found stale some steps ago. *)
EvictFront(t) ==
    /\ pc[t] = "evict"
    /\ queue' = RemoveFirst(queue, seen[t])
    /\ Goto(t, "evictPeek")
    /\ UNCHANGED <<turn, pid, status, locals, attempts, faults>>

(* _signal_next: LINDEX 0, then LPUSH to the runner that was read. *)
EvictPeek(t) ==
    /\ pc[t] = "evictPeek"
    /\ \/ /\ queue = <<>>
          /\ Goto(t, "promote")
          /\ UNCHANGED seen
       \/ /\ queue # <<>>
          /\ Read(t, Head(queue))
          /\ Goto(t, "evictPush")
    /\ UNCHANGED <<redis, cleaning, attempts, faults>>

EvictPush(t) ==
    /\ pc[t] = "evictPush"
    /\ Signal(seen[t])
    /\ Goto(t, "promote")
    /\ UNCHANGED <<queue, pid, status, locals, attempts, faults>>

(* The 24-hour deadline is tested before every BRPOP. *)
DeadlinePasses(t) ==
    /\ "deadline" \in FaultKinds
    /\ pc[t] = "wait"
    /\ Goto(t, "withdraw")
    /\ UNCHANGED <<redis, locals, attempts, faults>>

(* LREM self, with no signal to the runner that becomes the front. *)
Withdraw(t) ==
    /\ pc[t] = "withdraw"
    /\ queue' = RemoveFirst(queue, Me(t))
    /\ Goto(t, AfterTurn(t))
    /\ UNCHANGED <<turn, pid, status, locals, attempts, faults>>

(***************************************************************************)
(* release_merge_turn and _cleanup_process_state                           *)
(***************************************************************************)

(* The post-merge subprocess and the handling of its exit code end. *)
FinishMerge(t) ==
    /\ pc[t] = "merging"
    /\ Goto(t, "release")
    /\ UNCHANGED <<redis, locals, attempts, faults>>

(* LREM self; nothing else happens when there was nothing to remove. *)
Release(t) ==
    /\ pc[t] = "release"
    /\ queue' = RemoveFirst(queue, Me(t))
    /\ Goto(t, IF Contains(queue, Me(t)) THEN "releasePeek" ELSE AfterTurn(t))
    /\ UNCHANGED <<turn, pid, status, locals, attempts, faults>>

ReleasePeek(t) ==
    /\ pc[t] = "releasePeek"
    /\ \/ /\ queue = <<>>
          /\ Goto(t, AfterTurn(t))
          /\ UNCHANGED seen
       \/ /\ queue # <<>>
          /\ Read(t, Head(queue))
          /\ Goto(t, "releasePush")
    /\ UNCHANGED <<redis, cleaning, attempts, faults>>

ReleasePush(t) ==
    /\ pc[t] = "releasePush"
    /\ Signal(seen[t])
    /\ Goto(t, AfterTurn(t))
    /\ UNCHANGED <<queue, pid, status, locals, attempts, faults>>

(* _cleanup_process_state reads merge_status: approval_required keeps the  *)
(* queue entry, anything else releases the turn once more.                 *)
Cleanup(t) ==
    /\ pc[t] = "cleanup"
    /\ cleaning' = [cleaning EXCEPT ![t] = TRUE]
    /\ \E approvalRequired \in BOOLEAN :
          Goto(t, IF approvalRequired THEN "retire" ELSE "release")
    /\ UNCHANGED <<redis, seen, attempts, faults>>

(* LREM 0 takes every entry of the runner, without a signal.  QueuedOnce    *)
(* holds before the step, so the first entry is every entry.               *)
Sweep(t) ==
    /\ pc[t] = "sweep"
    /\ queue' = RemoveFirst(queue, Me(t))
    /\ Goto(t, "retire")
    /\ UNCHANGED <<turn, pid, status, locals, attempts, faults>>

(* The runner is registered as stopped; the keys of an invisible one go. *)
Retire(t) ==
    /\ pc[t] = "retire"
    /\ status' = [status EXCEPT
                    ![Me(t)] = IF Me(t) \in Visible THEN "stopped" ELSE "none"]
    /\ pid' = [pid EXCEPT ![Me(t)] = IF Me(t) \in Visible THEN @ ELSE "none"]
    /\ Goto(t, "idle")
    /\ UNCHANGED <<queue, turn, locals, attempts, faults>>

(* The heartbeat finds the runner's process dead for 60 s while its merge  *)
(* is queued or running: it releases the turn, then cleans up.             *)
HeartbeatForces(t) ==
    /\ JobOf[t] = "heartbeat"
    /\ pc[t] = "idle"
    /\ attempts[t] < MaxAttempts
    /\ pid[Me(t)] = "dead"
    /\ \E u \in Threads : /\ JobOf[u] = "inline" /\ Me(u) = Me(t)
                          /\ pc[u] \in Acquiring \cup {"merging"}
    /\ attempts' = [attempts EXCEPT ![t] = @ + 1]
    /\ cleaning' = [cleaning EXCEPT ![t] = FALSE]
    /\ Goto(t, "release")
    /\ UNCHANGED <<redis, seen, faults>>

(***************************************************************************)
(* Faults                                                                  *)
(***************************************************************************)
Fault(kind) ==
    /\ kind \in FaultKinds
    /\ faults < MaxFaults
    /\ faults' = faults + 1

(* A Redis call of acquire_merge_turn raises: the handler's own LREM may   *)
(* succeed or fail, and the exception goes to the caller.                  *)
AcquireRaises(t) ==
    /\ Fault("exception")
    /\ pc[t] \in Acquiring \ {"withdraw"}
    /\ queue' \in {queue, RemoveFirst(queue, Me(t))}
    /\ Goto(t, AfterTurn(t))
    /\ UNCHANGED <<turn, pid, status, locals, attempts>>

(* The queue key expires or the database is flushed. *)
QueueVanishes ==
    /\ Fault("flush")
    /\ queue # <<>>
    /\ queue' = <<>>
    /\ UNCHANGED <<turn, pid, status, pc, locals, attempts>>

(* A CLI process is killed, or nobody ever calls its release. *)
CliDies(t) ==
    /\ Fault("crash")
    /\ JobOf[t] = "manual"
    /\ pc[t] \notin {"idle", "dead"}
    /\ Goto(t, "dead")
    /\ UNCHANGED <<redis, locals, attempts>>

(* The listener dies and with it every thread that is inside a job. *)
ListenerDies ==
    /\ Fault("crash")
    /\ \E t \in Threads : JobOf[t] # "manual" /\ pc[t] \notin {"idle", "dead"}
    /\ pc' = [t \in Threads |-> IF JobOf[t] = "manual" \/ pc[t] = "idle"
                               THEN pc[t] ELSE "dead"]
    /\ UNCHANGED <<redis, locals, attempts>>

-----------------------------------------------------------------------------
(* The steps a running thread is bound to take. *)
Step(t) ==
    \/ Enqueue(t) \/ CheckFront(t) \/ TakeSignal(t) \/ WaitTimesOut(t)
    \/ ProbeFront(t) \/ JudgeFront(t)
    \/ EvictFront(t) \/ EvictPeek(t) \/ EvictPush(t) \/ Withdraw(t)
    \/ FinishMerge(t) \/ Release(t) \/ ReleasePeek(t) \/ ReleasePush(t)
    \/ Cleanup(t) \/ Sweep(t) \/ Retire(t)

(* Every job the bounds allow is over. *)
Finished ==
    /\ \A t \in Threads : pc[t] \in {"idle", "dead"}
    /\ UNCHANGED vars

Next ==
    \/ \E t \in Threads : \/ Begin(t) \/ HeartbeatForces(t) \/ Step(t)
                          \/ DeadlinePasses(t) \/ AcquireRaises(t) \/ CliDies(t)
    \/ \E r \in Runners : ProcessExits(r)
    \/ QueueVanishes
    \/ ListenerDies
    \/ Finished

Spec == Init /\ [][Next]_vars

(* Threads are scheduled, BRPOP returns within 5 seconds and a merge       *)
(* subprocess ends.                                                        *)
FairSpec == Spec /\ \A t \in Threads : WF_vars(Step(t))

(* A day also passes: a waiting loop tests its deadline again and again,   *)
(* and from some moment on every test fails.                               *)
TimedSpec == FairSpec /\ \A t \in Threads : SF_vars(DeadlinePasses(t))
-----------------------------------------------------------------------------
(***************************************************************************)
(* Properties                                                              *)
(***************************************************************************)

(* Every variable has the shape the code gives it. *)
TypeOK ==
    /\ queue \in Seq(Runners)
    /\ turn \in [Runners -> Nat]
    /\ pid \in [Runners -> {"none", "alive", "dead"}]
    /\ status \in [Runners -> {"none", "running", "stopped"}]
    /\ pc \in [Threads -> Labels]
    /\ seen \in [Threads -> Runners]
    /\ cleaning \in [Threads -> BOOLEAN]
    /\ attempts \in [Threads -> Nat]
    /\ faults \in Nat

Once(s) == \A i, j \in 1..Len(s) : s[i] = s[j] => i = j

(* A runner is at most once in the queue, whatever threads enqueue it and  *)
(* whatever entries a failed LREM leaves behind: release's LREM 1 then     *)
(* really ends the runner's turn.                                          *)
QueuedOnce == Once(queue)

(* No other merge job works for the thread's runner. *)
Sole(t) == \A u \in Threads : Me(u) = Me(t) => u = t \/ JobOf[u] = "heartbeat"

(* A merge that still has its queue entry is at the front, so no runner    *)
(* behind another one in the list is ever merging: the queue is served in  *)
(* order, even while entries are evicted, swept or flushed.                *)
FrontHolds ==
    \A t \in Threads :
        pc[t] = "merging" /\ Sole(t) /\ Contains(queue, Me(t))
            => IsFront(Me(t))

(* What merge_queue.py is for: at most one merge runs at a time. *)
MergesSerialized ==
    \A t, u \in Threads : pc[t] = "merging" /\ pc[u] = "merging" => t = u

(* No lost wake-up: a runner that waits in BRPOP at the front of the queue *)
(* has a signal, or some thread is about to send it one.                   *)
NoStrandedFront ==
    \A t \in Threads :
        pc[t] = "wait" /\ IsFront(Me(t)) =>
            \/ turn[Me(t)] > 0
            \/ \E u \in Threads :
                  \/ pc[u] \in {"releasePeek", "evictPeek"}
                  \/ pc[u] \in {"releasePush", "evictPush"} /\ seen[u] = Me(t)

(* Every runner that waits for its turn gets it. *)
EveryTurnComes ==
    \A t \in Threads : pc[t] = "wait" ~> pc[t] = "merging"

(* acquire_merge_turn returns: with the turn, or without it. *)
AcquireReturns ==
    \A t \in Threads : pc[t] \in Acquiring ~> pc[t] \notin Acquiring
-----------------------------------------------------------------------------
(* The queue is the abstract line; a thread inside acquire_merge_turn asks *)
(* and one whose acquire_merge_turn has returned True has been granted.    *)
turnState == [t \in Threads |-> IF pc[t] \in Acquiring THEN "asking"
                                ELSE IF pc[t] = "merging" THEN "granted"
                                ELSE "out"]

Turn == INSTANCE MergeTurn WITH line <- queue, state <- turnState

(* The Redis protocol implements the abstract line: turns are granted only *)
(* at the front, in order of arrival.                                      *)
ImplementsMergeTurn == Turn!TurnSpec
=============================================================================

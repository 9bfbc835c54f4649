------------------------ MODULE MergeLifecycle_proofs ------------------------
(***************************************************************************)
(* Proofs about MergeLifecycle: its types, that the jobs of a runner do    *)
(* not overlap when users wait for the runner to stop, and what follows    *)
(* from it about the statuses that may not be replaced, about what a merge *)
(* reports, about approvals, and about merges that are not left behind.    *)
(***************************************************************************)
EXTENDS MergeLifecycle, TLAPS

-----------------------------------------------------------------------------
(* Types.                                                                  *)

Calls == [to : Statuses, by : Actions \cup {"nobody"}]

(* What there is to be found in the sets of names.                         *)
LEMMA StatusNames ==
    /\ {"none", "queued", "merging", "pending_merge", "resolving", "fixing", "merged",
        "error", "approval_required", "conflict", "test_failed", "residue_blocked",
        "push_required"} \subseteq Statuses
    /\ TERMINAL \subseteq Statuses /\ ACTIVE \subseteq Statuses /\ Blocked \subseteq Statuses
  BY DEF Statuses, TERMINAL, ACTIVE, Blocked

(* What there is to be found in the sets of actions.                       *)
LEMMA ActionNames ==
    /\ {"inline-merge", "retry-merge", "direct-merge", "approved-retry"} \subseteq Actions
    /\ \A t : ActionOf(t) \in Actions
  BY DEF Actions, ActionOf

(* A thread that asks for a status keeps the types.                        *)
LEMMA AskTypes ==
    ASSUME want \in [Threads -> Calls], NEW t \in Threads,
           NEW to \in Statuses, NEW by \in Actions, Ask(t, to, by)
    PROVE  want' \in [Threads -> Calls]
<1>1. [to |-> to, by |-> by] \in Calls
  BY DEF Calls
<1> QED
  BY <1>1 DEF Ask

(* A report keeps the types.                                               *)
LEMMA ReportTypes ==
    ASSUME result \in [Threads -> Statuses], NEW t \in Threads,
           NEW s \in Statuses, Report(t, s)
    PROVE  result' \in [Threads -> Statuses]
  BY DEF Report

(* A thread that goes on keeps the types.                                  *)
LEMMA GotoTypes ==
    ASSUME pc \in [Threads -> Labels], NEW t \in Threads,
           NEW label \in Labels, Goto(t, label)
    PROVE  pc' \in [Threads -> Labels]
  BY DEF Goto

(* A thread that begins a job keeps the types.                             *)
LEMMA CountTypes ==
    ASSUME jobs \in [Threads -> 0 .. MaxJobs], NEW t \in Threads,
           jobs[t] < MaxJobs, jobs' = [jobs EXCEPT ![t] = @ + 1]
    PROVE  jobs' \in [Threads -> 0 .. MaxJobs]
  BY LifecycleAssumption

(* A fault keeps the types.                                                *)
LEMMA FaultTypes ==
    ASSUME faults \in 0 .. MaxFaults, NEW kind, Fault(kind)
    PROVE  faults' \in 0 .. MaxFaults
  BY LifecycleAssumption DEF Fault

(* What a handler of an exit code may do.                                  *)
ThreadTypes == /\ pc \in [Threads -> Labels]
               /\ want \in [Threads -> Calls]
               /\ result \in [Threads -> Statuses]

(* The end of a merge keeps the types.                                     *)
LEMMA EndTypes ==
    ASSUME ThreadTypes, NEW t \in Threads, NEW s \in Statuses, End(t, s)
    PROVE  ThreadTypes'
<1>1. "conclude" \in Labels
  BY DEF Labels
<1> QED
  BY <1>1, ActionNames, AskTypes, ReportTypes, GotoTypes DEF ThreadTypes, End

(* A merge that lands keeps the types.                                     *)
LEMMA LandTypes ==
    ASSUME ThreadTypes, NEW t \in Threads, Land(t)
    PROVE  ThreadTypes' /\ landed' = TRUE
<1>1. "done" \in Labels
  BY DEF Labels
<1> QED
  BY <1>1, StatusNames, ActionNames, AskTypes, GotoTypes DEF ThreadTypes, Land

(* The first step of each handler of an exit code keeps the types.         *)
LEMMA PostMergeTypes ==
    ASSUME TypeOK, NEW t \in Threads,
           Merged(t) \/ Fails(t) \/ TestsFail(t) \/ Conflicts(t) \/ NeedsApproval(t)
    PROVE  ThreadTypes' /\ landed' \in BOOLEAN /\ mergeStatus' \in Statuses
<1>0. ThreadTypes /\ landed \in BOOLEAN /\ mergeStatus \in Statuses
  BY DEF ThreadTypes, TypeOK, Calls
<1>l. {"landing", "repairing", "fixing", "mending"} \subseteq Labels
  BY DEF Labels
<1>1. CASE Merged(t)
  BY <1>0, <1>l, <1>1, GotoTypes DEF Merged, ThreadTypes
<1>2. CASE Fails(t)
  BY <1>0, <1>l, <1>2, StatusNames, ActionNames, AskTypes, GotoTypes
     DEF Fails, ThreadTypes
<1>3. CASE TestsFail(t)
  <2>1. CASE End(t, "test_failed")
    BY <1>0, <1>3, <2>1, StatusNames, EndTypes DEF TestsFail
  <2>2. CASE Ask(t, "fixing", ActionOf(t)) /\ Goto(t,
         "fixing") /\ UNCHANGED result
    BY <1>0, <1>l, <1>3, <2>2, StatusNames, ActionNames, AskTypes, GotoTypes
       DEF TestsFail, ThreadTypes
  <2> QED
    BY <1>3, <2>1, <2>2 DEF TestsFail
<1>4. CASE Conflicts(t)
  BY <1>0, <1>l, <1>4, StatusNames, ActionNames, AskTypes, GotoTypes
     DEF Conflicts, ThreadTypes
<1>5. CASE NeedsApproval(t)
  BY <1>0, <1>5, StatusNames, EndTypes DEF NeedsApproval
<1> QED
  BY <1>1, <1>2, <1>3, <1>4, <1>5

(* The types of what belongs to the runner and to the listener.            *)
RunnerTypes ==
    /\ mergeStatus \in Statuses /\ requested \in BOOLEAN
    /\ registered \in {"running", "stopped"} /\ process \in {"running", "exited"}
    /\ outcome \in {"none", "nothing", "mergeable", "scope"}
    /\ landed \in BOOLEAN /\ doneTried \in BOOLEAN
    /\ listener \in {"up", "down"}
    /\ tracking \in {"none", "stream", "monitor", "busy"}

(* Every step keeps the types.                                             *)
LEMMA TypesStep == TypeOK /\ [Next]_vars => TypeOK'
<1> SUFFICES ASSUME TypeOK, [Next]_vars PROVE TypeOK'
  OBVIOUS
<1> USE DEF TypeOK, Calls, keys, runner, control, counts
<1>0. /\ {"idle", "decide", "inline", "preserve", "queueing", "acquire", "gate",
        "gated", "postmerge", "landing", "done", "fixing", "mending", "repairing",
        "conclude", "fallback", "guard", "cleanup", "retire", "keep", "settle",
        "recover", "force", "resolver"} \subseteq Labels
  BY DEF Labels
<1>1. ASSUME NEW t \in Threads,
             Step(t) \/ Starts(t) \/ Commands(t) \/ HeartbeatBegins(t) \/ Poll(t)
             \/ Faults(t)
      PROVE  TypeOK'
  <2>1. CASE Consult(t)
    BY <2>1 DEF Consult
  <2>2. CASE Commit(t)
    <3>1. want[t] \in Calls
      OBVIOUS
    <3>2. mergeStatus' \in Statuses
      BY <2>2, <3>1 DEF Commit
    <3>3. /\ accepted' = [accepted EXCEPT ![t] = Allowed(read[t], want[t].to, want[t].by)]
          /\ want' = [want EXCEPT ![t] = Nothing]
          /\ read' = [read EXCEPT ![t] = Unread]
      BY <2>2 DEF Commit
    <3>4. Allowed(read[t], want[t].to, want[t].by) \in BOOLEAN
      BY DEF Allowed
    <3>5. Nothing \in Calls
      BY StatusNames DEF Nothing
    <3>6. want' \in [Threads -> Calls] /\ read' \in [Threads -> {Unread} \cup Statuses]
          /\ accepted' \in [Threads -> BOOLEAN]
      BY <3>3, <3>4, <3>5
    <3> QED
      BY <2>2, <3>2, <3>6 DEF Commit
  <2>3. CASE Decide(t)
    <3>1. want' \in [Threads -> Calls]
      <4>1. UNCHANGED want \/ Ask(t, mergeStatus, "inline-merge")
        BY <2>3 DEF Decide
      <4> QED
        BY <4>1, ActionNames, AskTypes
    <3>2. pc' \in [Threads -> Labels]
      BY <2>3, <1>0, GotoTypes DEF Decide
    <3>3. requested' \in BOOLEAN /\ UNCHANGED <<mergeStatus, runner, listener, read,
                                               accepted, result, counts>>
      BY <2>3 DEF Decide
    <3> QED
      BY <3>1, <3>2, <3>3
  <2>4. CASE Inline(t)
    BY <2>4, <1>0, GotoTypes DEF Inline
  <2>5. CASE Preserve(t)
    <3>1. want' \in [Threads -> Calls]
      BY <2>5, StatusNames, ActionNames, AskTypes DEF Preserve
    <3>2. pc' \in [Threads -> Labels]
      BY <2>5, <1>0, GotoTypes DEF Preserve
    <3>3. result' \in [Threads -> Statuses]
      BY <2>5, StatusNames, ReportTypes DEF Preserve
    <3>4. UNCHANGED <<jobs>>
      BY <2>5 DEF Preserve
    <3>5. requested' \in BOOLEAN
          /\ UNCHANGED <<mergeStatus, runner, listener, read, accepted, counts>>
      BY <2>5 DEF Preserve
    <3> QED
      BY <3>1, <3>2, <3>3, <3>4, <3>5
  <2>6. CASE Queueing(t)
    BY <2>6, StatusNames, ReportTypes, <1>0, GotoTypes DEF Queueing
  <2>7. CASE Acquire(t)
    <3>1. want' \in [Threads -> Calls]
      BY <2>7, StatusNames, ActionNames, AskTypes DEF Acquire, End
    <3>2. pc' \in [Threads -> Labels]
      BY <2>7, <1>0, GotoTypes DEF Acquire, End
    <3>3. result' \in [Threads -> Statuses]
      BY <2>7, StatusNames, ReportTypes DEF Acquire, End
    <3>4. UNCHANGED <<jobs>>
      BY <2>7 DEF Acquire, End
    <3>5. RunnerTypes' /\ read' \in [Threads -> {Unread} \cup Statuses]
          /\ accepted' \in [Threads -> BOOLEAN] /\ faults' \in 0 .. MaxFaults
      BY <2>7 DEF Acquire, End, RunnerTypes
    <3> HIDE DEF keys, runner, control, counts
    <3> QED
      BY <3>1, <3>2, <3>3, <3>4, <3>5 DEF RunnerTypes
  <2>8. CASE Gate(t)
    <3>1. want' \in [Threads -> Calls]
      BY <2>8, StatusNames, ActionNames, AskTypes DEF Gate
    <3>2. pc' \in [Threads -> Labels]
      BY <2>8, <1>0, GotoTypes DEF Gate
    <3>3. UNCHANGED <<result, jobs>>
      BY <2>8 DEF Gate
    <3>4. RunnerTypes' /\ read' \in [Threads -> {Unread} \cup Statuses]
          /\ accepted' \in [Threads -> BOOLEAN] /\ faults' \in 0 .. MaxFaults
      BY <2>8 DEF Gate, RunnerTypes
    <3> HIDE DEF keys, runner, control, counts
    <3> QED
      BY <3>1, <3>2, <3>3, <3>4 DEF RunnerTypes
  <2>9. CASE Gated(t)
    BY <2>9, StatusNames, ReportTypes, <1>0, GotoTypes DEF Gated
  <2>10. CASE PostMerge(t)
    BY <2>10, PostMergeTypes DEF PostMerge, ThreadTypes
  <2>11. CASE Landing(t)
    <3>1. ThreadTypes
      BY DEF ThreadTypes
    <3>2. CASE Land(t)
      BY <2>11, <3>1, <3>2, LandTypes DEF Landing, ThreadTypes
    <3>3. CASE UNCHANGED landed /\ \E s \in Statuses : End(t, s)
      BY <2>11, <3>1, <3>3, EndTypes DEF Landing, ThreadTypes
    <3> QED
      BY <2>11, <3>2, <3>3, StatusNames DEF Landing
  <2>12. CASE Fixing(t)
    <3>1. ThreadTypes
      BY DEF ThreadTypes
    <3>2. CASE Land(t)
      BY <2>12, <3>1, <3>2, LandTypes DEF Fixing, ThreadTypes
    <3>3. CASE UNCHANGED landed /\ \E s \in Statuses : End(t, s)
      BY <2>12, <3>1, <3>3, EndTypes DEF Fixing, ThreadTypes
    <3> QED
      BY <2>12, <3>2, <3>3, StatusNames DEF Fixing
  <2>13. CASE Mending(t)
    <3>1. ThreadTypes
      BY DEF ThreadTypes
    <3>2. CASE Land(t)
      BY <2>13, <3>1, <3>2, LandTypes DEF Mending, ThreadTypes
    <3>3. CASE UNCHANGED landed /\ \E s \in Statuses : End(t, s)
      BY <2>13, <3>1, <3>3, EndTypes DEF Mending, ThreadTypes
    <3> QED
      BY <2>13, <3>2, <3>3, StatusNames DEF Mending
  <2>14. CASE Repairing(t)
    <3>1. want' \in [Threads -> Calls]
      BY <2>14, StatusNames, ActionNames, AskTypes DEF Repairing, End
    <3>2. pc' \in [Threads -> Labels]
      BY <2>14, <1>0, GotoTypes DEF Repairing, End
    <3>3. result' \in [Threads -> Statuses]
      BY <2>14, StatusNames, ReportTypes DEF Repairing, End
    <3>4. UNCHANGED <<jobs>>
      BY <2>14 DEF Repairing, End
    <3>5. landed' \in BOOLEAN
          /\ UNCHANGED <<keys, registered, process, outcome, doneTried, tracking,
                         listener, read, accepted, counts>>
      BY <2>14 DEF Repairing, End
    <3> QED
      BY <3>1, <3>2, <3>3, <3>4, <3>5
  <2>15. CASE DoneSucceeds(t)
    BY <2>15, StatusNames, ReportTypes, <1>0, GotoTypes DEF DoneSucceeds
  <2>16. CASE Conclude(t)
    BY <2>16, <1>0, GotoTypes DEF Conclude
  <2>17. CASE Guard(t)
    BY <2>17, <1>0, GotoTypes DEF Guard
  <2>18. CASE Cleanup(t)
    <3>1. want' \in [Threads -> Calls]
      BY <2>18, StatusNames, ActionNames, AskTypes DEF Cleanup
    <3>2. pc' \in [Threads -> Labels]
      BY <2>18, <1>0, GotoTypes DEF Cleanup
    <3>3. UNCHANGED <<result, jobs>>
      BY <2>18 DEF Cleanup
    <3>4. RunnerTypes' /\ read' \in [Threads -> {Unread} \cup Statuses]
          /\ accepted' \in [Threads -> BOOLEAN] /\ faults' \in 0 .. MaxFaults
      BY <2>18 DEF Cleanup, RunnerTypes
    <3> HIDE DEF keys, runner, control, counts
    <3> QED
      BY <3>1, <3>2, <3>3, <3>4 DEF RunnerTypes
  <2>19. CASE Retire(t)
    BY <2>19, StatusNames, <1>0, GotoTypes DEF Retire
  <2>20. CASE Settle(t)
    <3>1. want' \in [Threads -> Calls]
      BY <2>20, StatusNames, ActionNames, AskTypes DEF Settle
    <3>2. pc' \in [Threads -> Labels]
      BY <2>20, <1>0, GotoTypes DEF Settle
    <3>3. UNCHANGED <<result, jobs>>
      BY <2>20 DEF Settle
    <3>4. RunnerTypes' /\ read' \in [Threads -> {Unread} \cup Statuses]
          /\ accepted' \in [Threads -> BOOLEAN] /\ faults' \in 0 .. MaxFaults
      BY <2>20 DEF Settle, RunnerTypes
    <3> HIDE DEF keys, runner, control, counts
    <3> QED
      BY <3>1, <3>2, <3>3, <3>4 DEF RunnerTypes
  <2>21. CASE ForceEnd(t)
    <3>1. want' \in [Threads -> Calls]
      BY <2>21, StatusNames, ActionNames, AskTypes DEF ForceEnd
    <3>2. pc' \in [Threads -> Labels]
      BY <2>21, <1>0, GotoTypes DEF ForceEnd
    <3>3. UNCHANGED <<result, jobs>>
      BY <2>21 DEF ForceEnd
    <3>4. RunnerTypes' /\ read' \in [Threads -> {Unread} \cup Statuses]
          /\ accepted' \in [Threads -> BOOLEAN] /\ faults' \in 0 .. MaxFaults
      BY <2>21 DEF ForceEnd, RunnerTypes
    <3> HIDE DEF keys, runner, control, counts
    <3> QED
      BY <3>1, <3>2, <3>3, <3>4 DEF RunnerTypes
  <2>22. CASE Fallback(t)
    BY <2>22, <1>0, GotoTypes DEF Fallback
  <2>23. CASE Recover(t)
    BY <2>23, <1>0, GotoTypes DEF Recover
  <2>24. CASE Resolver(t)
    <3>1. want' \in [Threads -> Calls]
      BY <2>24, StatusNames, ActionNames, AskTypes DEF Resolver
    <3>2. pc' \in [Threads -> Labels]
      BY <2>24, <1>0, GotoTypes DEF Resolver
    <3>3. UNCHANGED <<result, jobs>>
      BY <2>24 DEF Resolver
    <3>4. RunnerTypes' /\ read' \in [Threads -> {Unread} \cup Statuses]
          /\ accepted' \in [Threads -> BOOLEAN] /\ faults' \in 0 .. MaxFaults
      BY <2>24 DEF Resolver, RunnerTypes
    <3> HIDE DEF keys, runner, control, counts
    <3> QED
      BY <3>1, <3>2, <3>3, <3>4 DEF RunnerTypes
  <2>25. CASE StreamBegins(t)
    <3>1. want' \in [Threads -> Calls]
      BY <2>25, StatusNames, ActionNames, AskTypes DEF StreamBegins, Begin
    <3>2. pc' \in [Threads -> Labels]
      BY <2>25, <1>0, GotoTypes DEF StreamBegins, Begin
    <3>3. jobs' \in [Threads -> 0 .. MaxJobs]
      BY <2>25, CountTypes DEF StreamBegins, Begin
    <3>4. UNCHANGED <<result>>
      BY <2>25 DEF StreamBegins, Begin
    <3>5. RunnerTypes' /\ read' \in [Threads -> {Unread} \cup Statuses]
          /\ accepted' \in [Threads -> BOOLEAN] /\ faults' \in 0 .. MaxFaults
      BY <2>25 DEF StreamBegins, Begin, RunnerTypes
    <3> HIDE DEF keys, runner, control, counts
    <3> QED
      BY <3>1, <3>2, <3>3, <3>4, <3>5 DEF RunnerTypes
  <2>26. CASE MonitorBegins(t)
    BY <2>26, <1>0, GotoTypes, CountTypes DEF MonitorBegins, Begin
  <2>27. CASE Restart(t)
    BY <2>27, StatusNames, ActionNames, AskTypes, <1>0, GotoTypes,
       FaultTypes DEF Restart, Attach, Reconnect, Unreadable, Mistaken
  <2>28. CASE RetryBegins(t)
    <3>1. want' \in [Threads -> Calls]
      BY <2>28, StatusNames, ActionNames, AskTypes DEF RetryBegins, Begin
    <3>2. pc' \in [Threads -> Labels]
      BY <2>28, <1>0, GotoTypes DEF RetryBegins, Begin
    <3>3. jobs' \in [Threads -> 0 .. MaxJobs]
      BY <2>28, CountTypes DEF RetryBegins, Begin
    <3>4. UNCHANGED <<result>>
      BY <2>28 DEF RetryBegins, Begin
    <3>5. RunnerTypes' /\ read' \in [Threads -> {Unread} \cup Statuses]
          /\ accepted' \in [Threads -> BOOLEAN] /\ faults' \in 0 .. MaxFaults
      BY <2>28 DEF RetryBegins, Begin, RunnerTypes
    <3> HIDE DEF keys, runner, control, counts
    <3> QED
      BY <3>1, <3>2, <3>3, <3>4, <3>5 DEF RunnerTypes
  <2>29. CASE DirectBegins(t)
    <3>1. want' \in [Threads -> Calls]
      BY <2>29, StatusNames, ActionNames, AskTypes DEF DirectBegins, Begin
    <3>2. pc' \in [Threads -> Labels]
      BY <2>29, <1>0, GotoTypes DEF DirectBegins, Begin
    <3>3. jobs' \in [Threads -> 0 .. MaxJobs]
      BY <2>29, CountTypes DEF DirectBegins, Begin
    <3>4. UNCHANGED <<result>>
      BY <2>29 DEF DirectBegins, Begin
    <3>5. RunnerTypes' /\ read' \in [Threads -> {Unread} \cup Statuses]
          /\ accepted' \in [Threads -> BOOLEAN] /\ faults' \in 0 .. MaxFaults
      BY <2>29 DEF DirectBegins, Begin, RunnerTypes
    <3> HIDE DEF keys, runner, control, counts
    <3> QED
      BY <3>1, <3>2, <3>3, <3>4, <3>5 DEF RunnerTypes
  <2>30. CASE ResolveBegins(t)
    <3>1. want' \in [Threads -> Calls]
      BY <2>30, StatusNames, ActionNames, AskTypes DEF ResolveBegins, Begin
    <3>2. pc' \in [Threads -> Labels]
      BY <2>30, <1>0, GotoTypes DEF ResolveBegins, Begin
    <3>3. jobs' \in [Threads -> 0 .. MaxJobs]
      BY <2>30, CountTypes DEF ResolveBegins, Begin
    <3>4. UNCHANGED <<result>>
      BY <2>30 DEF ResolveBegins, Begin
    <3>5. RunnerTypes' /\ read' \in [Threads -> {Unread} \cup Statuses]
          /\ accepted' \in [Threads -> BOOLEAN] /\ faults' \in 0 .. MaxFaults
      BY <2>30 DEF ResolveBegins, Begin, RunnerTypes
    <3> HIDE DEF keys, runner, control, counts
    <3> QED
      BY <3>1, <3>2, <3>3, <3>4, <3>5 DEF RunnerTypes
  <2>31. CASE HeartbeatBegins(t)
    BY <2>31, <1>0, GotoTypes, CountTypes DEF HeartbeatBegins, Begin
  <2>32. CASE Poll(t)
    BY <2>32, StatusNames, CountTypes DEF Poll
  <2>33. CASE DoneFails(t)
    BY <2>33, StatusNames, ActionNames, AskTypes, ReportTypes, <1>0,
       GotoTypes, FaultTypes DEF DoneFails, End
  <2>34. CASE Raises(t)
    BY <2>34, StatusNames, ActionNames, AskTypes, ReportTypes, <1>0,
       GotoTypes, FaultTypes DEF Raises, End
  <2>35. CASE ResolverRaises(t)
    BY <2>35, <1>0, GotoTypes, FaultTypes DEF ResolverRaises
  <2>36. CASE FallbackFails(t)
    BY <2>36, StatusNames, ActionNames, AskTypes, <1>0, GotoTypes,
       FaultTypes DEF FallbackFails
  <2> HIDE DEF TypeOK, keys, runner, control, counts
  <2> QED
    BY <1>1, <2>1, <2>2, <2>3, <2>4, <2>5, <2>6, <2>7, <2>8, <2>9, <2>10,
       <2>11, <2>12, <2>13, <2>14, <2>15, <2>16, <2>17, <2>18, <2>19, <2>20,
       <2>21, <2>22, <2>23, <2>24, <2>25, <2>26, <2>27, <2>28, <2>29, <2>30,
       <2>31, <2>32, <2>33, <2>34, <2>35, <2>36 DEF Step, Starts, Commands,
       Faults
<1>2. CASE ProcessExits
  BY <1>2, LifecycleAssumption DEF ProcessExits
<1>3. CASE ListenerDies
  BY <1>3, <1>0, FaultTypes, StatusNames, LifecycleAssumption
     DEF ListenerDies, Nothing
<1>4. CASE UNCHANGED vars
  BY <1>4 DEF vars
<1> HIDE DEF TypeOK
<1> QED
  BY <1>1, <1>2, <1>3, <1>4 DEF Next, Finished

-----------------------------------------------------------------------------
(* The jobs of a runner do not overlap.                                    *)

(* A thread that is in the middle of a job.                                *)
Busy(t) == pc[t] # "idle" \/ want[t] # Nothing

(* The runner id of a direct merge, which never had a process.             *)
Fresh == process = "exited" /\ outcome = "none"

(* The schedule under which jobs are one at a time: users wait for the     *)
(* runner to stop, one thread has started the process, and there is no     *)
(* heartbeat to see the same exit as a monitor thread does.                *)
OneByOne ==
    /\ Overlap = FALSE
    /\ \A t, u \in Threads : JobOf[t] = "stream" /\ JobOf[u] = "stream" => t = u
    /\ ~(HasJob("monitor") /\ HasJob("heartbeat"))

OneAtATime == \A t, u \in Threads : Busy(t) /\ Busy(u) => t = u

(* Whoever will see the process exit finds nobody at work: the stream      *)
(* thread, because nothing begins before it, the monitor thread, because   *)
(* its listener has just started.                                          *)
Attended ==
    /\ listener = "down" => Idle /\ tracking = "none"
    /\ tracking = "stream" => Idle
    /\ tracking = "monitor" /\ HasJob("monitor") => Idle
    /\ Fresh => tracking = "none"
    /\ \A s \in Threads : JobOf[s] = "stream" /\ jobs[s] = 0 /\ MaxJobs # 0 /\ ~Fresh
                          => tracking = "stream" /\ listener = "up"

(* While the process runs, the only job is the cleanup of one whose log is *)
(* gone, and there is no merge yet.                                        *)
Running ==
    process = "running" =>
        /\ mergeStatus = "none" /\ outcome = "none" /\ ~landed
        /\ \A t \in Threads :
              /\ want[t] = Nothing
              /\ pc[t] # "idle" => /\ JobOf[t] = "recover"
                                   /\ pc[t] \in {"cleanup", "retire"}

Solo == TypeOK /\ OneAtATime /\ Attended /\ Running

(* What a thread does in a job it has begun, and how it gets into one.     *)
Works(t) == Step(t) \/ Faults(t)
Comes(t) == Starts(t) \/ Commands(t) \/ HeartbeatBegins(t)

(* What a step of t leaves alone.                                          *)
LeavesOthers(t) ==
    \A u \in Threads \ {t} :
        /\ pc'[u] = pc[u] /\ want'[u] = want[u] /\ read'[u] = read[u]
        /\ accepted'[u] = accepted[u] /\ result'[u] = result[u]
        /\ jobs'[u] = jobs[u]

(* A thread that works is in the middle of a job; it leaves the others, the *)
(* process and the listener alone, and at most takes the runner out of     *)
(* _running_processes.                                                     *)
LEMMA WorksDoes ==
    ASSUME TypeOK, NEW t \in Threads, Works(t)
    PROVE  /\ Busy(t) /\ LeavesOthers(t)
           /\ UNCHANGED <<process, outcome, listener, jobs>>
           /\ tracking' \in {tracking, "none"}
           /\ want[t] = Nothing => listener = "up"
<1> USE DEF TypeOK, keys, runner, control, counts, At, Goto, Report, Ask, Busy,
LeavesOthers, Fault
<1>1. CASE Consult(t)
  BY <1>1 DEF Consult
<1>2. CASE Commit(t)
  BY <1>2 DEF Commit
<1>3. CASE Decide(t)
  BY <1>3 DEF Decide
<1>4. CASE Inline(t)
  BY <1>4 DEF Inline
<1>5. CASE Preserve(t)
  BY <1>5 DEF Preserve
<1>6. CASE Queueing(t)
  BY <1>6 DEF Queueing
<1>7. CASE Acquire(t)
  BY <1>7 DEF Acquire, End
<1>8. CASE Gate(t)
  BY <1>8 DEF Gate
<1>9. CASE Gated(t)
  BY <1>9 DEF Gated
<1>10. CASE PostMerge(t)
  BY <1>10 DEF PostMerge, Merged, Fails, TestsFail, Conflicts, NeedsApproval,
     End
<1>11. CASE Landing(t)
  BY <1>11 DEF Landing, Land, End
<1>12. CASE Fixing(t)
  BY <1>12 DEF Fixing, Land, End
<1>13. CASE Mending(t)
  BY <1>13 DEF Mending, Land, End
<1>14. CASE Repairing(t)
  BY <1>14 DEF Repairing, End
<1>15. CASE DoneSucceeds(t)
  BY <1>15 DEF DoneSucceeds
<1>16. CASE Conclude(t)
  BY <1>16 DEF Conclude
<1>17. CASE Guard(t)
  BY <1>17 DEF Guard
<1>18. CASE Cleanup(t)
  BY <1>18 DEF Cleanup
<1>19. CASE Retire(t)
  BY <1>19 DEF Retire
<1>20. CASE Settle(t)
  BY <1>20 DEF Settle
<1>21. CASE ForceEnd(t)
  BY <1>21 DEF ForceEnd
<1>22. CASE Fallback(t)
  BY <1>22 DEF Fallback
<1>23. CASE Recover(t)
  BY <1>23 DEF Recover
<1>24. CASE Resolver(t)
  BY <1>24 DEF Resolver
<1>25. CASE DoneFails(t)
  BY <1>25 DEF DoneFails, End
<1>26. CASE Raises(t)
  BY <1>26 DEF Raises, End
<1>27. CASE ResolverRaises(t)
  BY <1>27 DEF ResolverRaises
<1>28. CASE FallbackFails(t)
  BY <1>28 DEF FallbackFails
<1> HIDE DEF TypeOK, keys, runner, control, counts, At, Goto, Report, Ask,
Busy, LeavesOthers, Fault
<1> QED
  BY <1>1, <1>2, <1>3, <1>4, <1>5, <1>6, <1>7, <1>8, <1>9, <1>10, <1>11,
     <1>12, <1>13, <1>14, <1>15, <1>16, <1>17, <1>18, <1>19, <1>20, <1>21,
     <1>22, <1>23, <1>24, <1>25, <1>26, <1>27, <1>28 DEF Works, Step, Faults

(* A thread that comes to a job was idle; it leaves the others and the     *)
(* process alone.                                                          *)
LEMMA ComesDoes ==
    ASSUME TypeOK, NEW t \in Threads, Comes(t)
    PROVE  /\ LeavesOthers(t)
           /\ UNCHANGED <<process, outcome, mergeStatus, requested, landed, doneTried,
                         read, accepted, result>>
           /\ listener' = "up"
<1> USE DEF TypeOK, keys, runner, control, counts, At, Goto, Report, Ask, Busy,
LeavesOthers, Fault, Begin
<1>1. CASE StreamBegins(t)
  BY <1>1 DEF StreamBegins
<1>2. CASE MonitorBegins(t)
  BY <1>2 DEF MonitorBegins
<1>3. CASE Restart(t)
  BY <1>3 DEF Restart, Attach, Reconnect, Unreadable, Mistaken
<1>4. CASE RetryBegins(t)
  BY <1>4 DEF RetryBegins
<1>5. CASE DirectBegins(t)
  BY <1>5 DEF DirectBegins
<1>6. CASE ResolveBegins(t)
  BY <1>6 DEF ResolveBegins
<1>7. CASE HeartbeatBegins(t)
  BY <1>7 DEF HeartbeatBegins
<1> HIDE DEF TypeOK, keys, runner, control, counts, At, Goto, Report, Ask,
Busy, LeavesOthers, Fault
<1> QED
  BY <1>1, <1>2, <1>3, <1>4, <1>5, <1>6, <1>7 DEF Comes, Starts, Commands

(* Nobody is at work when a thread comes to a job; then it is watched by   *)
(* nobody, or by the thread that comes.                                    *)
LEMMA ComesAlone ==
    ASSUME Solo, OneByOne, NEW t \in Threads, Comes(t)
    PROVE  /\ Idle
           /\ tracking = "stream" => StreamBegins(t)
           /\ tracking' # "stream"
           /\ tracking' = "monitor" /\ HasJob("monitor") => UNCHANGED <<pc, want>>
           /\ Fresh => tracking' = "none"
           /\ process = "running" =>
                 Restart(t) /\ (UNCHANGED <<pc, want>> \/ Unreadable(t))
<1> USE DEF Solo, Attended
<1>1. CASE StreamBegins(t)
  <2>1. /\ process = "exited" /\ outcome # "none" /\ JobOf[t] = "stream"
        /\ jobs[t] = 0 /\ MaxJobs # 0
    BY <1>1 DEF StreamBegins, Begin
  <2>2. tracking = "stream"
    BY <2>1 DEF Fresh
  <2>3. tracking' = "busy"
    BY <1>1, <2>2 DEF StreamBegins
  <2> QED
    BY <1>1, <2>1, <2>2, <2>3 DEF Fresh
<1>2. CASE MonitorBegins(t)
  <2>1. /\ process = "exited" /\ tracking = "monitor" /\ tracking' = "busy"
        /\ HasJob("monitor")
    BY <1>2 DEF MonitorBegins, Begin, HasJob
  <2> QED
    BY <2>1 DEF Fresh
<1>3. CASE Restart(t)
  <2>1. listener = "down"
    BY <1>3 DEF Restart
  <2>2. tracking = "none" /\ Idle
    BY <2>1
  <2>3. CASE Attach(t)
    BY <1>3, <2>2, <2>3 DEF Attach, Fresh
  <2>4. CASE Reconnect(t)
    BY <2>2, <2>4 DEF Reconnect
  <2>5. CASE Unreadable(t)
    BY <1>3, <2>2, <2>5 DEF Unreadable
  <2>6. CASE Mistaken(t)
    <3>1. process = "exited"
      BY <2>6 DEF Mistaken, Running, TypeOK
    <3> QED
      BY <2>2, <2>6, <3>1 DEF Mistaken
  <2> QED
    BY <1>3, <2>3, <2>4, <2>5, <2>6 DEF Restart
<1>4. CASE RetryBegins(t) \/ ResolveBegins(t)
  <2>1. /\ process = "exited" /\ tracking' = tracking /\ UserMay
    BY <1>4 DEF RetryBegins, ResolveBegins, Begin, runner
  <2>2. Idle /\ tracking = "none"
    BY <2>1 DEF UserMay, OneByOne
  <2> QED
    BY <2>1, <2>2
<1>5. CASE DirectBegins(t)
  <2>1. /\ process = "exited" /\ tracking' = tracking /\ Idle /\ outcome = "none"
    BY <1>5 DEF DirectBegins, Begin
  <2> QED
    BY <2>1 DEF Fresh
<1>6. CASE HeartbeatBegins(t)
  <2>1. /\ process = "exited" /\ tracking' = tracking /\ HasJob("heartbeat")
    BY <1>6 DEF HeartbeatBegins, Begin, runner, HasJob
  <2>2. Idle /\ tracking \notin {"stream", "none"}
    BY <1>6 DEF HeartbeatBegins, OneByOne
  <2> QED
    BY <2>1, <2>2 DEF OneByOne
<1> QED
  BY <1>1, <1>2, <1>3, <1>4, <1>5, <1>6 DEF Comes, Starts, Commands

(* The others are idle, before and after.                                  *)
LEMMA OthersIdle ==
    ASSUME Solo, OneByOne, NEW t \in Threads, Works(t) \/ Comes(t),
           NEW u \in Threads \ {t}
    PROVE  ~Busy(u) /\ ~Busy(u)'
<1>1. LeavesOthers(t)
  BY WorksDoes, ComesDoes DEF Solo
<1>2. ~Busy(u)
  BY WorksDoes, ComesAlone DEF Solo, OneAtATime, Idle, Busy
<1> QED
  BY <1>1, <1>2 DEF LeavesOthers, Busy

(* While the process runs, only the cleanup of a lost log is at work.      *)
LEMMA RunningStep ==
    ASSUME Solo, OneByOne, NEW t \in Threads, Works(t) \/ Comes(t)
    PROVE  Running'
<1> SUFFICES ASSUME process = "running"
             PROVE  /\ mergeStatus' = "none" /\ outcome' = "none" /\ ~landed'
                    /\ want'[t] = Nothing
                    /\ pc'[t] # "idle" => /\ JobOf[t] = "recover"
                                          /\ pc'[t] \in {"cleanup", "retire"}
  <2>1. process' = process
    BY WorksDoes, ComesDoes DEF Solo
  <2>2. \A u \in Threads \ {t} : pc'[u] = "idle" /\ want'[u] = Nothing
    BY OthersIdle DEF Busy
  <2> QED
    BY <2>1, <2>2 DEF Running
<1>0. /\ mergeStatus = "none" /\ outcome = "none" /\ ~landed
      /\ want[t] = Nothing
      /\ pc[t] # "idle" => JobOf[t] = "recover" /\ pc[t] \in {"cleanup", "retire"}
  BY DEF Solo, Running
<1>1. CASE Works(t)
  <2>1. pc[t] \in {"cleanup", "retire"} /\ JobOf[t] = "recover"
    BY <1>0, <1>1, WorksDoes DEF Busy, Solo
  <2>2. CASE Cleanup(t)
    <3>1. UNCHANGED <<mergeStatus, outcome, landed, want>>
      BY <1>0, <2>2 DEF Cleanup, keys
    <3>2. Goto(t, "retire")
      BY <1>0, <2>2 DEF Cleanup, APPROVAL
    <3> QED
      BY <1>0, <2>1, <3>1, <3>2 DEF Goto, Solo, TypeOK
  <2>3. CASE Retire(t)
    <3>1. /\ UNCHANGED <<outcome, landed, want>> /\ Goto(t, "idle")
          /\ mergeStatus' = "none"
      BY <1>0, <2>1, <2>3 DEF Retire, control, At
    <3> QED
      BY <1>0, <3>1 DEF Goto, Solo, TypeOK
  <2>4. Cleanup(t) \/ Retire(t)
    BY <1>0, <1>1, <2>1 DEF Works, Step, Faults, Consult, Commit, At, Decide,
       Inline,
       Preserve, Queueing, Acquire, Gate, Gated, PostMerge, Landing, Fixing,
       Mending, Repairing, DoneSucceeds, Conclude, Guard, Settle, ForceEnd,
       Fallback, Recover, Resolver, DoneFails, Raises, ResolverRaises,
       FallbackFails
  <2> QED
    BY <2>2, <2>3, <2>4
<1>2. CASE Comes(t)
  <2>1. UNCHANGED <<mergeStatus, outcome, landed>>
    BY <1>2, ComesDoes DEF Solo
  <2>2. Restart(t) /\ (UNCHANGED <<pc, want>> \/ Unreadable(t)) /\ Idle
    BY <1>2, ComesAlone
  <2>3. CASE Unreadable(t)
    <3>1. Goto(t, "cleanup") /\ UNCHANGED want /\ JobOf[t] = "recover"
      BY <2>2, <2>3 DEF Unreadable, Restart
    <3> QED
      BY <1>0, <2>1, <3>1 DEF Goto, Solo, TypeOK
  <2> QED
    BY <1>0, <2>1, <2>2, <2>3 DEF Idle
<1> QED
  BY <1>1, <1>2

(* Whoever waits for the process to exit goes on finding nobody at work.   *)
LEMMA AttendedStep ==
    ASSUME Solo, OneByOne, NEW t \in Threads, Works(t) \/ Comes(t)
    PROVE  Attended'
<1>0. /\ UNCHANGED <<process, outcome>> /\ LeavesOthers(t)
  BY WorksDoes, ComesDoes DEF Solo
<1>1. CASE Works(t)
  <2>1. /\ tracking \notin {"stream"} /\ (tracking = "monitor" => ~HasJob("monitor"))
        /\ listener = "up"
    BY <1>1, WorksDoes DEF Solo, Attended, Busy, Idle, TypeOK
  <2>2. tracking' \in {tracking, "none"} /\ UNCHANGED <<listener, jobs>>
    BY <1>1, WorksDoes DEF Solo
  <2> QED
    BY <1>0, <2>1, <2>2 DEF Solo, Attended, Fresh
<1>2. CASE Comes(t)
  <2>1. listener' = "up"
    BY <1>2, ComesDoes DEF Solo
  <2>2. tracking' # "stream" /\ Idle /\ (Fresh => tracking' = "none")
        /\ (tracking = "stream" => StreamBegins(t))
    BY <1>2, ComesAlone
  <2>3. (tracking' = "monitor" /\ HasJob("monitor")) => Idle'
    BY <1>2, <2>2, ComesAlone DEF Idle
  <2>4. ASSUME NEW s \in Threads, JobOf[s] = "stream", jobs'[s] = 0, MaxJobs # 0,
               ~Fresh'
        PROVE  FALSE
    <3>1. CASE StreamBegins(t)
      <4>1. JobOf[t] = "stream" /\ jobs'[t] = 1
        BY <3>1 DEF StreamBegins, Begin, Solo, TypeOK
      <4> QED
        BY <2>4, <4>1 DEF OneByOne
    <3>2. CASE ~StreamBegins(t)
      <4>1. jobs[s] = 0
        <5>1. CASE s # t
          BY <1>0, <2>4, <5>1 DEF LeavesOthers
        <5>2. CASE s = t
          <6>1. Restart(t) \/ jobs' = [jobs EXCEPT ![t] = @ + 1]
            BY <1>2, <3>2 DEF Comes, Starts, Commands, MonitorBegins,
               RetryBegins,
               DirectBegins, ResolveBegins, HeartbeatBegins, Begin
          <6>2. Restart(t) => jobs' = jobs
            BY DEF Restart
          <6>3. jobs[t] \in Nat
            BY LifecycleAssumption DEF Solo, TypeOK
          <6>4. jobs' = [jobs EXCEPT ![t] = @ + 1] => jobs'[t] = jobs[t] + 1
            BY DEF Solo, TypeOK
          <6> QED
            BY <2>4, <5>2, <6>1, <6>2, <6>3, <6>4
        <5> QED
          BY <5>1, <5>2
      <4>2. ~Fresh
        BY <1>0, <2>4 DEF Fresh
      <4> QED
        BY <2>2, <2>4, <3>2, <4>1, <4>2 DEF Solo, Attended
    <3> QED
      BY <3>1, <3>2
  <2>5. Fresh' => tracking' = "none"
    BY <1>0, <2>2 DEF Fresh
  <2> QED
    BY <2>1, <2>2, <2>3, <2>4, <2>5 DEF Attended
<1> QED
  BY <1>1, <1>2

(* Jobs do not overlap: nobody comes while somebody works.                 *)
LEMMA SoloStep == Solo /\ OneByOne /\ [Next]_vars => Solo'
<1> SUFFICES ASSUME Solo, OneByOne, [Next]_vars PROVE Solo'
  OBVIOUS
<1>0. TypeOK'
  BY TypesStep DEF Solo
<1>1. ASSUME NEW t \in Threads, Works(t) \/ Comes(t) PROVE Solo'
  <2>1. OneAtATime'
    <3>1. \A u \in Threads \ {t} : ~Busy(u)'
      BY <1>1, OthersIdle
    <3> QED
      BY <3>1 DEF OneAtATime
  <2> QED
    BY <1>0, <1>1, <2>1, RunningStep, AttendedStep DEF Solo
<1>2. ASSUME NEW t \in Threads, Poll(t) PROVE Solo'
  <2>1. /\ UNCHANGED <<process, outcome, landed, tracking, listener, pc, want>>
        /\ process = "exited" /\ jobs' = [jobs EXCEPT ![t] = @ + 1] /\ JobOf[t] = "poll"
    BY <1>2 DEF Poll, control
  <2>2. \A s \in Threads : JobOf[s] = "stream" => jobs'[s] = jobs[s]
    BY <2>1 DEF Solo, TypeOK
  <2>3. OneAtATime'
    BY <2>1 DEF Solo, OneAtATime, Busy
  <2>4. Attended'
    BY <2>1, <2>2 DEF Solo, Attended, Fresh, Idle
  <2> QED
    BY <1>0, <2>1, <2>3, <2>4 DEF Solo, Running
<1>3. CASE ProcessExits
  <2>1. /\ UNCHANGED <<tracking, listener, pc, want, jobs>>
        /\ process = "running" /\ process' = "exited" /\ outcome' # "none"
    BY <1>3 DEF ProcessExits, control, counts
  <2>2. OneAtATime'
    BY <2>1 DEF Solo, OneAtATime, Busy
  <2>3. Attended'
    BY <2>1 DEF Solo, Attended, Fresh, Idle
  <2> QED
    BY <1>0, <2>1, <2>2, <2>3 DEF Solo, Running
<1>4. CASE ListenerDies
  <2>1. /\ UNCHANGED <<process, mergeStatus, landed>> /\ tracking' = "none"
        /\ listener' = "down"
        /\ \A t \in Threads : pc'[t] = "idle" /\ want'[t] = Nothing
        /\ \A t \in Threads : JobOf[t] = "stream" => jobs'[t] = MaxJobs
    BY <1>4 DEF ListenerDies, keys
  <2>2. outcome' = outcome \/ outcome = "scope"
    BY <1>4 DEF ListenerDies
  <2>3. Running'
    BY <2>1, <2>2 DEF Solo, Running
  <2>4. Attended'
    BY <2>1 DEF Attended, Idle
  <2>5. OneAtATime'
    BY <2>1 DEF OneAtATime, Busy
  <2> QED
    BY <1>0, <2>3, <2>4, <2>5 DEF Solo
<1>5. CASE UNCHANGED vars
  BY <1>0, <1>5 DEF Solo, OneAtATime, Attended, Running, Busy, Fresh, Idle,
     vars,
     keys, runner, control, counts
<1> QED
  BY <1>1, <1>2, <1>3, <1>4, <1>5 DEF Next, Finished, Works, Comes

-----------------------------------------------------------------------------
(* The statuses of a merge.                                                *)

(* What a poll may make of merge_status at any time.                       *)
Deleted == IF HasJob("poll") /\ ~Visible THEN {"none"} ELSE {}

(* A call of transition() goes by what it has read, and that is still      *)
(* there.                                                                  *)
Called ==
    \A t \in Threads : /\ want[t] = Nothing => read[t] = Unread
                       /\ read[t] # Unread => mergeStatus \in {read[t]} \cup Deleted

(* A thread at the label asks for the status, or has got it.               *)
Aims(t, label, to) ==
    pc[t] = label =>
        IF want[t] # Nothing
        THEN want[t].to = to /\ mergeStatus \in ACTIVE \cup Deleted
        ELSE mergeStatus \in {to} \cup Deleted

(* Where a merge is, and the merge_status that goes with it.               *)
Stage(t) ==
    /\ want[t] # Nothing => want[t].by \in Actions
    /\ pc[t] = "queueing" =>
          IF want[t] # Nothing THEN want[t].to = "queued"
          ELSE accepted[t] => mergeStatus \in {"queued"} \cup Deleted
    /\ pc[t] \in {"acquire", "gate"} =>
          want[t] = Nothing /\ mergeStatus \in {"queued"} \cup Deleted
    /\ pc[t] = "landing" =>
          want[t] = Nothing /\ mergeStatus \in {"merging"} \cup Deleted
    /\ Aims(t, "gated", "error") /\ Aims(t, "postmerge", "merging")
    /\ Aims(t, "fixing", "fixing") /\ Aims(t, "mending", "resolving")
    /\ Aims(t, "repairing", "error") /\ Aims(t, "done", "merged")
    /\ pc[t] = "repairing" => 1 \in ExitCodes
    /\ pc[t] = "resolver" => JobOf[t] = "resolve"

Staged == Solo /\ Called /\ \A t \in Threads : Stage(t)

(* What a thread asks for, where it goes and what it reports.              *)
LEMMA Updates ==
    ASSUME TypeOK, NEW t \in Threads
    PROVE  /\ \A label : Goto(t, label) => pc'[t] = label
           /\ \A to, by : Ask(t, to, by) =>
                 /\ want'[t] = [to |-> to, by |-> by]
                 /\ want'[t].to = to /\ want'[t].by = by
                 /\ to # "none" => want'[t] # Nothing
           /\ \A s : Report(t, s) => result'[t] = s
<1>1. ASSUME NEW to, NEW by, Ask(t, to, by)
      PROVE  want'[t] = [to |-> to, by |-> by]
  BY <1>1 DEF Ask, TypeOK
<1>2. ASSUME NEW to, NEW by, to # "none"
      PROVE  [to |-> to, by |-> by] # Nothing
  BY <1>2 DEF Nothing
<1> QED
  BY <1>1, <1>2 DEF TypeOK, Goto, Report

(* A status is written by transition(), by the post-merge subprocess and   *)
(* by the end of a runner that nobody sees.                                *)
LEMMA StatusKept ==
    ASSUME TypeOK, NEW t \in Threads, Works(t) \/ Comes(t)
    PROVE  \/ mergeStatus' = mergeStatus
           \/ Commit(t)
           \/ At(t, "postmerge") /\ NeedsApproval(t)
           \/ At(t, "retire") /\ ~Visible /\ mergeStatus' = "none" /\ Retire(t)
<1> USE DEF keys
<1>1. CASE Comes(t)
  BY <1>1, ComesDoes
<1>2. CASE PostMerge(t)
  BY <1>2 DEF PostMerge, Merged, Fails, TestsFail, Conflicts
<1>3. CASE Retire(t)
  BY <1>3 DEF Retire
<1>4. CASE Works(t) /\ ~PostMerge(t) /\ ~Retire(t)
  BY <1>4 DEF Works, Step, Faults, Consult, Decide, Inline, Preserve, Queueing,
     Acquire, Gate, Gated, Landing, Fixing, Mending, Repairing, DoneSucceeds,
     Conclude, Guard, Cleanup, Settle, ForceEnd, Fallback, Recover, Resolver,
     DoneFails, Raises, ResolverRaises, FallbackFails
<1> QED
  BY <1>1, <1>2, <1>3, <1>4

(* A call sets what it asks for when it may replace what it has read.      *)
LEMMA CommitDoes ==
    ASSUME Solo, Called, NEW t \in Threads, Commit(t)
    PROVE  /\ want[t] # Nothing /\ want'[t] = Nothing /\ read'[t] = Unread
           /\ UNCHANGED <<pc, result, JobOf>>
           /\ \/ /\ accepted'[t] /\ mergeStatus' = want[t].to
                 /\ \/ mergeStatus \in Deleted \cup {"none", want[t].to}
                    \/ mergeStatus \notin TERMINAL
                    \/ mergeStatus \in Overridable(want[t].by)
              \/ /\ ~accepted'[t] /\ mergeStatus' = mergeStatus
                 /\ mergeStatus \in TERMINAL \cup Deleted
<1> DEFINE ok == Allowed(read[t], want[t].to, want[t].by)
<1>1. /\ want[t] # Nothing /\ want'[t] = Nothing /\ read'[t] = Unread
      /\ UNCHANGED <<pc, result>> /\ accepted'[t] = ok /\ read[t] # Unread
      /\ mergeStatus' = IF ok THEN want[t].to ELSE mergeStatus
  BY DEF Commit, Solo, TypeOK
<1>2. mergeStatus = read[t] \/ mergeStatus \in Deleted
  BY <1>1 DEF Called
<1>3. ok => \/ read[t] \in {"none", want[t].to}
            \/ read[t] \notin TERMINAL
            \/ read[t] \in Overridable(want[t].by)
  BY DEF Allowed
<1>4. ~ok => read[t] \in TERMINAL
  BY DEF Allowed
<1> HIDE DEF ok
<1> QED
  BY <1>1, <1>2, <1>3, <1>4

(* Calls go by what is there, whoever moves.                               *)
LEMMA CalledStep ==
    ASSUME Staged, OneByOne, NEW t \in Threads, Works(t) \/ Comes(t)
    PROVE  Called'
<1>1. \A u \in Threads \ {t} : want'[u] = Nothing /\ read'[u] = Unread
  BY OthersIdle, WorksDoes, ComesDoes DEF LeavesOthers, Staged, Solo, Called,
     Busy
<1>2. CASE Commit(t)
  BY <1>1, <1>2, CommitDoes DEF Called, Staged
<1>3. CASE Consult(t)
  <2>1. mergeStatus' = mergeStatus /\ want'[t] # Nothing /\ read'[t] = mergeStatus
    BY <1>3 DEF Consult, keys, Staged, Solo, TypeOK
  <2> QED
    BY <1>1, <2>1 DEF Called
<1>4. CASE ~Commit(t) /\ ~Consult(t)
  <2>1. want[t] = Nothing
    BY <1>4, ComesAlone DEF Works, Step, Faults, Idle, Staged, Decide, Inline,
       Preserve,
       Queueing, Acquire, Gate, Gated, PostMerge, Landing, Fixing, Mending, Repairing,
       DoneSucceeds, Conclude, Guard, Cleanup, Retire, Settle, ForceEnd, Fallback,
       Recover, Resolver, DoneFails, Raises, ResolverRaises, FallbackFails, At
  <2>2. read'[t] = read[t]
    <3>1. CASE Comes(t)
      BY <3>1, ComesDoes DEF Staged, Solo
    <3>2. CASE Works(t)
      BY <1>4, <3>2 DEF Works, Step, Faults, Decide, Inline, Preserve,
         Queueing,
         Acquire, Gate, Gated, PostMerge, Landing, Fixing, Mending, Repairing,
         DoneSucceeds, Conclude, Guard, Cleanup, Retire, Settle, ForceEnd, Fallback,
         Recover, Resolver, DoneFails, Raises, ResolverRaises, FallbackFails, control
    <3> QED
      BY <3>1, <3>2
  <2>3. read'[t] = Unread
    BY <2>1, <2>2 DEF Staged, Called
  <2> QED
    BY <1>1, <2>3 DEF Called
<1> QED
  BY <1>2, <1>3, <1>4

(* The thread that moves gets on with its merge.                           *)
LEMMA StageStep ==
    ASSUME Staged, OneByOne, NEW t \in Threads, Works(t) \/ Comes(t)
    PROVE  Stage(t)'
<1>t. TypeOK /\ Solo /\ Called /\ Stage(t)
  BY DEF Staged, Solo
<1>u. /\ \A label : Goto(t, label) => pc'[t] = label
      /\ \A to, by : Ask(t, to, by) => want'[t].to = to /\ want'[t].by = by
                                     /\ (to # "none" => want'[t] # Nothing)
  BY <1>t, Updates
<1>i. Comes(t) => pc[t] = "idle" /\ want[t] = Nothing
  BY ComesAlone DEF Idle, Staged
<1> USE DEF Stage, Aims, At, keys, control
<1>1. CASE Commit(t)
  <2>1. /\ want[t] # Nothing /\ want'[t] = Nothing /\ pc' = pc
        /\ \/ accepted'[t] /\ mergeStatus' = want[t].to
           \/ ~accepted'[t] /\ mergeStatus' = mergeStatus
              /\ mergeStatus \in TERMINAL \cup Deleted
    BY <1>1, <1>t, CommitDoes
  <2>2. \A s \in ACTIVE : s \notin TERMINAL
    BY DEF ACTIVE, TERMINAL
  <2> QED
    BY <1>t, <2>1, <2>2
<1>2. CASE Consult(t)
  <2>1. UNCHANGED <<pc, want, accepted, mergeStatus>>
    BY <1>2 DEF Consult
  <2> QED
    BY <1>t, <2>1
<1>3. CASE Decide(t)
  BY <1>t, <1>u, <1>3, ActionNames DEF Decide
<1>4. CASE Inline(t)
  BY <1>t, <1>u, <1>4, ActionNames DEF Inline
<1>5. CASE Preserve(t)
  BY <1>t, <1>u, <1>5, ActionNames DEF Preserve
<1>6. CASE Queueing(t)
  BY <1>t, <1>u, <1>6, ActionNames DEF Queueing
<1>7. CASE Acquire(t)
  BY <1>t, <1>u, <1>7, ActionNames DEF Acquire, End, ACTIVE
<1>8. CASE Gate(t)
  BY <1>t, <1>u, <1>8, ActionNames DEF Gate, ACTIVE
<1>9. CASE Gated(t)
  BY <1>t, <1>u, <1>9, ActionNames DEF Gated
<1>10. CASE PostMerge(t)
  BY <1>t, <1>u, <1>10, ActionNames DEF PostMerge, Merged, Fails, TestsFail,
     Conflicts, NeedsApproval, End, ACTIVE
<1>11. CASE Landing(t)
  BY <1>t, <1>u, <1>11, ActionNames DEF Landing, Land, End, ACTIVE
<1>12. CASE Fixing(t)
  BY <1>t, <1>u, <1>12, ActionNames DEF Fixing, Land, End, ACTIVE
<1>13. CASE Mending(t)
  BY <1>t, <1>u, <1>13, ActionNames DEF Mending, Land, End, ACTIVE
<1>14. CASE Repairing(t)
  BY <1>t, <1>u, <1>14, ActionNames DEF Repairing, End
<1>15. CASE DoneSucceeds(t)
  BY <1>t, <1>u, <1>15, ActionNames DEF DoneSucceeds
<1>16. CASE Conclude(t)
  BY <1>t, <1>u, <1>16, ActionNames DEF Conclude
<1>17. CASE Guard(t)
  BY <1>t, <1>u, <1>17, ActionNames DEF Guard
<1>18. CASE Cleanup(t)
  BY <1>t, <1>u, <1>18, ActionNames DEF Cleanup
<1>19. CASE Retire(t)
  BY <1>t, <1>u, <1>19, ActionNames DEF Retire
<1>20. CASE Settle(t)
  BY <1>t, <1>u, <1>20, ActionNames DEF Settle
<1>21. CASE ForceEnd(t)
  BY <1>t, <1>u, <1>21, ActionNames DEF ForceEnd
<1>22. CASE Fallback(t)
  BY <1>t, <1>u, <1>22, ActionNames DEF Fallback
<1>23. CASE Recover(t)
  BY <1>t, <1>u, <1>23, ActionNames DEF Recover
<1>24. CASE Resolver(t)
  BY <1>t, <1>u, <1>24, ActionNames DEF Resolver
<1>25. CASE DoneFails(t)
  BY <1>t, <1>u, <1>25, ActionNames DEF DoneFails, End
<1>26. CASE Raises(t)
  BY <1>t, <1>u, <1>26, ActionNames DEF Raises, End
<1>27. CASE ResolverRaises(t)
  BY <1>t, <1>u, <1>27, ActionNames DEF ResolverRaises
<1>28. CASE FallbackFails(t)
  BY <1>t, <1>u, <1>28, ActionNames DEF FallbackFails
<1>29. CASE StreamBegins(t)
  BY <1>t, <1>u, <1>29, ActionNames, <1>i DEF StreamBegins, Begin
<1>30. CASE MonitorBegins(t)
  BY <1>t, <1>u, <1>30, ActionNames, <1>i DEF MonitorBegins, Begin
<1>31. CASE Restart(t)
  BY <1>t, <1>u, <1>31, ActionNames, <1>i DEF Restart, Attach, Reconnect,
     Unreadable, Mistaken
<1>32. CASE RetryBegins(t)
  BY <1>t, <1>u, <1>32, ActionNames, <1>i DEF RetryBegins, Begin
<1>33. CASE DirectBegins(t)
  BY <1>t, <1>u, <1>33, ActionNames, <1>i DEF DirectBegins, Begin
<1>34. CASE ResolveBegins(t)
  BY <1>t, <1>u, <1>34, ActionNames, <1>i DEF ResolveBegins, Begin
<1>35. CASE HeartbeatBegins(t)
  BY <1>t, <1>u, <1>35, ActionNames, <1>i DEF HeartbeatBegins, Begin
<1> HIDE DEF Stage, Aims, At, keys, control
<1> QED
  BY <1>1, <1>2, <1>3, <1>4, <1>5, <1>6, <1>7, <1>8, <1>9, <1>10, <1>11,
     <1>12, <1>13, <1>14, <1>15, <1>16, <1>17, <1>18, <1>19, <1>20, <1>21,
     <1>22, <1>23, <1>24, <1>25, <1>26, <1>27, <1>28, <1>29, <1>30, <1>31,
     <1>32, <1>33, <1>34, <1>35 DEF Works, Step, Faults, Comes, Starts,
     Commands

(* What a step of the system does to the statuses.                         *)
LEMMA StagedStep == Staged /\ OneByOne /\ [Next]_vars => Staged'
<1> SUFFICES ASSUME Staged, OneByOne, [Next]_vars PROVE Staged'
  OBVIOUS
<1>0. Solo' /\ TypeOK
  BY SoloStep DEF Staged, Solo
<1> USE DEF Stage, Aims
<1>1. ASSUME NEW t \in Threads, Works(t) \/ Comes(t) PROVE Staged'
  <2> HIDE DEF Stage, Aims
  <2>1. Called' /\ Stage(t)'
    BY <1>1, CalledStep, StageStep
  <2>2. ASSUME NEW u \in Threads \ {t} PROVE Stage(u)'
    <3>1. pc'[u] = "idle" /\ want'[u] = Nothing
      BY <1>1, OthersIdle DEF Staged, Busy
    <3> QED
      BY <3>1 DEF Stage, Aims
  <2> QED
    BY <1>0, <2>1, <2>2 DEF Staged
<1>2. ASSUME NEW t \in Threads, Poll(t) PROVE Staged'
  <2>1. /\ UNCHANGED <<pc, want, read, accepted>>
        /\ mergeStatus' = mergeStatus \/ mergeStatus' \in Deleted
    BY <1>2 DEF Poll, control, Deleted, HasJob
  <2>2. Deleted' = Deleted
    BY DEF Deleted, HasJob
  <2> QED
    BY <1>0, <2>1, <2>2 DEF Staged, Called
<1>3. CASE ProcessExits
  <2>1. UNCHANGED <<pc, want, read, accepted>> /\ process = "running"
    BY <1>3 DEF ProcessExits, control
  <2>2. \A t \in Threads : want[t] = Nothing /\ pc[t] \in {"idle", "cleanup", "retire"}
    BY <2>1 DEF Staged, Solo, Running
  <2> QED
    BY <1>0, <2>1, <2>2 DEF Staged, Called
<1>4. CASE ListenerDies
  <2>1. \A t \in Threads : pc'[t] = "idle" /\ want'[t] = Nothing /\ read'[t] = Unread
    BY <1>4 DEF ListenerDies
  <2> QED
    BY <1>0, <2>1 DEF Staged, Called
<1>5. CASE UNCHANGED vars
  BY <1>0, <1>5 DEF Staged, Called, vars, keys, control
<1> HIDE DEF Stage, Aims
<1> QED
  BY <1>1, <1>2, <1>3, <1>4, <1>5 DEF Next, Finished, Works, Comes

(* The types of a runner that has just been started.                       *)
LEMMA TypesInit == Init => TypeOK
<1> SUFFICES ASSUME Init PROVE TypeOK
  OBVIOUS
<1>1. Nothing \in Calls
  BY StatusNames DEF Nothing, Calls
<1>2. "idle" \in Labels /\ "none" \in Statuses /\ 0 \in 0 .. MaxJobs
      /\ 0 \in 0 .. MaxFaults
  BY StatusNames, LifecycleAssumption DEF Labels
<1> QED
  BY <1>1, <1>2 DEF Init, TypeOK, Calls

(* A runner that has just been started has no merge.                       *)
LEMMA StagedInit == Init /\ OneByOne => Staged
<1> SUFFICES ASSUME Init, OneByOne PROVE Staged
  OBVIOUS
<1>1. TypeOK
  BY TypesInit
<1>2. Idle
  BY DEF Init, Idle
<1>3. OneAtATime
  BY <1>2 DEF Idle, OneAtATime, Busy
<1>4. Attended
  BY <1>2 DEF Init, Attended, Fresh
<1>5. Running
  BY DEF Init, Running
<1>6. Called /\ \A t \in Threads : Stage(t)
  BY <1>2 DEF Init, Called, Stage, Aims, Idle
<1> QED
  BY <1>1, <1>3, <1>4, <1>5, <1>6 DEF Staged, Solo


(* What nobody may override is deleted with the keys, or stays.            *)
LEMMA FinalKept ==
    ASSUME Staged, OneByOne, NEW t \in Threads, Works(t) \/ Comes(t),
           mergeStatus \in TERMINAL \ RETRYABLE
    PROVE  \/ mergeStatus' = mergeStatus
           \/ At(t, "retire") /\ ~Visible /\ mergeStatus' = "none"
<1>0. /\ mergeStatus \in TERMINAL /\ mergeStatus \notin RETRYABLE
      /\ mergeStatus \notin Deleted \cup {"none"} \cup ACTIVE
  BY DEF TERMINAL, RETRYABLE, Deleted, ACTIVE
<1>1. CASE Commit(t)
  <2>1. Overridable(want[t].by) \subseteq RETRYABLE
    <3>1. want[t].by \in Actions
      BY <1>1 DEF Staged, Stage, Commit
    <3> QED
      BY <3>1 DEF Overridable, Actions
  <2> QED
    BY <1>0, <1>1, <2>1, CommitDoes DEF Staged
<1>2. CASE At(t, "postmerge")
  <2>1. mergeStatus \in {"merging"} \cup Deleted
    BY <1>2 DEF Staged, Stage, Aims, At
  <2> QED
    BY <1>0, <2>1 DEF ACTIVE
<1> QED
  BY <1>1, <1>2, StatusKept DEF Staged, Solo

-----------------------------------------------------------------------------
(* What a merge reports.                                                   *)

(* The post-merge subprocess does not fail in a way that leaves "error"    *)
(* to be overridden, the done flow does not fail after "merged" has been   *)
(* written, and no poll deletes the keys of a merge.  In each of these the *)
(* report and merge_status do part.                                        *)
Plain ==
    /\ 1 \notin ExitCodes
    /\ "done" \notin FaultKinds
    /\ HasJob("poll") => Visible

(* At the end of a merge its result is merge_status, or is going to be.    *)
Reports(t) ==
    /\ pc[t] # "repairing"
    /\ pc[t] = "conclude" =>
          IF want[t] # Nothing
          THEN result[t] = want[t].to /\ mergeStatus \in ACTIVE \cup {want[t].to}
          ELSE result[t] = mergeStatus

Reported == Staged /\ \A t \in Threads : Reports(t)

(* The thread that moves reports what it writes.                           *)
LEMMA ReportsStep ==
    ASSUME Reported, OneByOne, Plain, NEW t \in Threads, Works(t) \/ Comes(t)
    PROVE  Reports(t)'
<1>t. TypeOK /\ Staged /\ Stage(t) /\ Reports(t) /\ Deleted = {}
      /\ ~Fault("done") /\ 1 \notin ExitCodes
  BY DEF Reported, Staged, Solo, Plain, Deleted, Fault
<1>u. /\ \A label : Goto(t, label) => pc'[t] = label
      /\ \A to, by : Ask(t, to, by) => want'[t].to = to
                                     /\ (to # "none" => want'[t] # Nothing)
      /\ \A s : Report(t, s) => result'[t] = s
  BY <1>t, Updates
<1>i. Comes(t) => pc[t] = "idle" /\ want[t] = Nothing
  BY ComesAlone DEF Idle, Staged, Reported
<1>a. {"queued", "merging", "fixing", "resolving"} \subseteq ACTIVE
  BY DEF ACTIVE
<1> USE DEF Reports, Stage, Aims, At, keys, control
<1>1. CASE Commit(t)
  <2>1. /\ want[t] # Nothing /\ want'[t] = Nothing /\ pc' = pc /\ result' = result
        /\ \/ mergeStatus' = want[t].to
           \/ mergeStatus' = mergeStatus /\ mergeStatus \in TERMINAL
    BY <1>1, <1>t, CommitDoes DEF Staged
  <2>2. \A s \in ACTIVE : s \notin TERMINAL
    BY DEF ACTIVE, TERMINAL
  <2> QED
    BY <1>t, <2>1, <2>2
<1>2. CASE Consult(t)
  <2>1. UNCHANGED <<pc, want, result, mergeStatus>>
    BY <1>2 DEF Consult
  <2> QED
    BY <1>t, <2>1
<1>3. CASE Decide(t)
  BY <1>t, <1>u, <1>a, <1>3 DEF Decide
<1>4. CASE Inline(t)
  BY <1>t, <1>u, <1>a, <1>4 DEF Inline
<1>5. CASE Preserve(t)
  BY <1>t, <1>u, <1>a, <1>5 DEF Preserve
<1>6. CASE Queueing(t)
  BY <1>t, <1>u, <1>a, <1>6 DEF Queueing
<1>7. CASE Acquire(t)
  BY <1>t, <1>u, <1>a, <1>7 DEF Acquire, End
<1>8. CASE Gate(t)
  BY <1>t, <1>u, <1>a, <1>8 DEF Gate
<1>9. CASE Gated(t)
  BY <1>t, <1>u, <1>a, <1>9 DEF Gated
<1>10. CASE PostMerge(t)
  BY <1>t, <1>u, <1>a, <1>10 DEF PostMerge, Merged, Fails, TestsFail,
     Conflicts, NeedsApproval, End
<1>11. CASE Landing(t)
  <2>1. mergeStatus' = mergeStatus /\ mergeStatus \in ACTIVE
    BY <1>t, <1>a, <1>11 DEF Landing
  <2>2. CASE Land(t)
    BY <1>u, <2>2 DEF Land
  <2>3. ASSUME NEW s \in Blocked \cup {"push_required"}, End(t, s) PROVE Reports(t)'
    <3>1. result'[t] = s /\ want'[t].to = s /\ want'[t] # Nothing /\ pc'[t] = "conclude"
      BY <1>u, <2>3 DEF End, Blocked
    <3> QED
      BY <2>1, <3>1
  <2> QED
    BY <1>11, <2>2, <2>3 DEF Landing
<1>12. CASE Fixing(t)
  <2>1. mergeStatus' = mergeStatus /\ mergeStatus \in ACTIVE
    BY <1>t, <1>a, <1>12 DEF Fixing
  <2>2. CASE Land(t)
    BY <1>u, <2>2 DEF Land
  <2>3. ASSUME NEW s \in Blocked \cup {"test_failed"}, End(t, s) PROVE Reports(t)'
    <3>1. result'[t] = s /\ want'[t].to = s /\ want'[t] # Nothing /\ pc'[t] = "conclude"
      BY <1>u, <2>3 DEF End, Blocked
    <3> QED
      BY <2>1, <3>1
  <2> QED
    BY <1>12, <2>2, <2>3 DEF Fixing
<1>13. CASE Mending(t)
  BY <1>t, <1>u, <1>a, <1>13 DEF Mending, Land, End
<1>14. CASE Repairing(t)
  BY <1>t, <1>u, <1>a, <1>14 DEF Repairing, End
<1>15. CASE DoneSucceeds(t)
  BY <1>t, <1>u, <1>a, <1>15 DEF DoneSucceeds
<1>16. CASE Conclude(t)
  BY <1>t, <1>u, <1>a, <1>16 DEF Conclude
<1>17. CASE Guard(t)
  BY <1>t, <1>u, <1>a, <1>17 DEF Guard
<1>18. CASE Cleanup(t)
  BY <1>t, <1>u, <1>a, <1>18 DEF Cleanup
<1>19. CASE Retire(t)
  BY <1>t, <1>u, <1>a, <1>19 DEF Retire
<1>20. CASE Settle(t)
  BY <1>t, <1>u, <1>a, <1>20 DEF Settle
<1>21. CASE ForceEnd(t)
  BY <1>t, <1>u, <1>a, <1>21 DEF ForceEnd
<1>22. CASE Fallback(t)
  BY <1>t, <1>u, <1>a, <1>22 DEF Fallback
<1>23. CASE Recover(t)
  BY <1>t, <1>u, <1>a, <1>23 DEF Recover
<1>24. CASE Resolver(t)
  BY <1>t, <1>u, <1>a, <1>24 DEF Resolver
<1>25. CASE DoneFails(t)
  BY <1>t, <1>25 DEF DoneFails, End
<1>26. CASE Raises(t)
  BY <1>t, <1>u, <1>a, <1>26 DEF Raises, End
<1>27. CASE ResolverRaises(t)
  BY <1>t, <1>u, <1>a, <1>27 DEF ResolverRaises
<1>28. CASE FallbackFails(t)
  BY <1>t, <1>28 DEF FallbackFails
<1>29. CASE StreamBegins(t)
  BY <1>t, <1>u, <1>a, <1>29, <1>i DEF StreamBegins, Begin
<1>30. CASE MonitorBegins(t)
  BY <1>t, <1>u, <1>a, <1>30, <1>i DEF MonitorBegins, Begin
<1>31. CASE Restart(t)
  BY <1>t, <1>u, <1>a, <1>31, <1>i DEF Restart, Attach, Reconnect, Unreadable,
     Mistaken
<1>32. CASE RetryBegins(t)
  BY <1>t, <1>u, <1>a, <1>32, <1>i DEF RetryBegins, Begin
<1>33. CASE DirectBegins(t)
  BY <1>t, <1>u, <1>a, <1>33, <1>i DEF DirectBegins, Begin
<1>34. CASE ResolveBegins(t)
  BY <1>t, <1>u, <1>a, <1>34, <1>i DEF ResolveBegins, Begin
<1>35. CASE HeartbeatBegins(t)
  BY <1>t, <1>u, <1>a, <1>35, <1>i DEF HeartbeatBegins, Begin
<1> HIDE DEF Reports, Stage, Aims, At, keys, control
<1> QED
  BY <1>1, <1>2, <1>3, <1>4, <1>5, <1>6, <1>7, <1>8, <1>9, <1>10, <1>11,
     <1>12, <1>13, <1>14, <1>15, <1>16, <1>17, <1>18, <1>19, <1>20, <1>21,
     <1>22, <1>23, <1>24, <1>25, <1>26, <1>27, <1>28, <1>29, <1>30, <1>31,
     <1>32, <1>33, <1>34, <1>35 DEF Works, Step, Faults, Comes, Starts,
     Commands

(* What a step of the system does to reports.                              *)
LEMMA ReportedStep ==
    ASSUME Reported, OneByOne, Plain, [Next]_vars
    PROVE  Reported'
<1>0. Staged'
  BY StagedStep DEF Reported
<1>1. ASSUME NEW t \in Threads, Works(t) \/ Comes(t) PROVE Reported'
  <2>1. Reports(t)'
    BY <1>1, ReportsStep
  <2>2. ASSUME NEW u \in Threads \ {t} PROVE Reports(u)'
    <3>1. pc'[u] = "idle"
      BY <1>1, OthersIdle DEF Reported, Staged, Busy
    <3> QED
      BY <3>1 DEF Reports
  <2> QED
    BY <1>0, <2>1, <2>2 DEF Reported
<1>2. ASSUME NEW t \in Threads, Poll(t) PROVE Reported'
  <2>1. UNCHANGED <<pc, want, result, mergeStatus>>
    BY <1>2 DEF Poll, control, Plain, HasJob
  <2> QED
    BY <1>0, <2>1 DEF Reported, Reports
<1>3. CASE ProcessExits
  <2>1. UNCHANGED <<pc, want, result>> /\ process = "running"
    BY <1>3 DEF ProcessExits, control
  <2>2. \A t \in Threads : pc[t] \in {"idle", "cleanup", "retire"}
    BY <2>1 DEF Reported, Staged, Solo, Running
  <2> QED
    BY <1>0, <2>1, <2>2 DEF Reported, Reports
<1>4. CASE ListenerDies
  <2>1. \A t \in Threads : pc'[t] = "idle"
    BY <1>4 DEF ListenerDies
  <2> QED
    BY <1>0, <2>1 DEF Reported, Reports
<1>5. CASE UNCHANGED vars
  BY <1>0, <1>5 DEF Reported, Reports, vars, keys, control
<1> QED
  BY <1>1, <1>2, <1>3, <1>4, <1>5 DEF Next, Finished, Works, Comes

-----------------------------------------------------------------------------
(* Approvals.                                                              *)

(* Under what an approval is respected: a heartbeat overrides it, the log  *)
(* of an unseen runner may be lost and its keys deleted while it still     *)
(* runs, and a poll deletes the keys of an unseen runner, or, before a     *)
(* crash, makes a restart forget an error about the root worktree.         *)
Heedful ==
    /\ OneByOne
    /\ ~HasJob("heartbeat")
    /\ Visible \/ "log" \notin FaultKinds
    /\ HasJob("poll") => Visible /\ "crash" \notin FaultKinds

(* No thread but that of the user who approves is about to replace a       *)
(* status that waits for an approval.                                      *)
Heeds(t) ==
    /\ pc[t] # "force"
    /\ pc[t] = "decide" => JobOf[t] = "stream"
    /\ pc[t] \in {"retire", "fallback"} => want[t] = Nothing
    /\ mergeStatus \in APPROVAL =>
          /\ want[t].by = "approved-retry" => JobOf[t] = "approved"
          /\ pc[t] = "retire" => Visible
          /\ pc[t] = "fallback" /\ JobOf[t] # "stream" => ~landed

(* A runner whose branch has landed is not seen by a monitor thread while  *)
(* it waits for an approval.                                               *)
Monitored ==
    tracking = "monitor" /\ HasJob("monitor") /\ landed => mergeStatus \notin APPROVAL

RunningUnseen == process = "running" /\ ~Visible => Idle

Listed == tracking = "stream" => registered = "running" \/ HasJob("poll")

(* The error about the root worktree before merge_status has it: the       *)
(* stream thread will record it, or a thread does, or, after a restart,    *)
(* the cleanup will.                                                       *)
Unrecorded ==
    /\ mergeStatus = "none" /\ ~requested /\ ~landed
    /\ IF HasJob("poll") THEN tracking = "stream" \/ ~Idle ELSE registered = "running"
    /\ \A t \in Threads : Busy(t) =>
          \/ want[t].to = "residue_blocked"
          \/ /\ want[t] = Nothing /\ pc[t] \in {"fallback", "guard", "cleanup"}
             /\ JobOf[t] = "recover" /\ ~HasJob("poll")

ScopeKept ==
    outcome = "scope" => /\ tracking # "monitor"
                         /\ \A t \in Threads : pc[t] # "retire"
                         /\ mergeStatus = "residue_blocked" \/ Unrecorded

Heeded == /\ Staged /\ Monitored /\ RunningUnseen /\ Listed /\ ScopeKept
          /\ \A t \in Threads : Heeds(t)

(* What the conditions say of a step that is not a heartbeat's.            *)
LEMMA HeedsStep ==
    ASSUME Heeded, Heedful, NEW t \in Threads, Works(t) \/ Comes(t)
    PROVE  Heeds(t)'
<1>t. TypeOK /\ Staged /\ Heeds(t) /\ OneByOne /\ JobOf[t] # "heartbeat"
  BY DEF Heeded, Staged, Solo, Heedful, HasJob
<1>u. /\ \A label : Goto(t, label) => pc'[t] = label
      /\ \A to, by : Ask(t, to, by) => want'[t].to = to /\ want'[t].by = by
  BY <1>t, Updates
<1>i. Comes(t) => pc[t] = "idle" /\ want[t] = Nothing
  BY <1>t, ComesAlone DEF Idle, Staged
<1>n. want[t] = Nothing => want[t].by = "nobody"
  BY DEF Nothing
<1>a. ActionOf(t) = "approved-retry" => JobOf[t] = "approved"
  BY <1>t, LifecycleAssumption DEF ActionOf, Jobs
<1>s. outcome = "scope" => mergeStatus \notin APPROVAL
  BY DEF Heeded, ScopeKept, Unrecorded, APPROVAL
<1>g. {"none", "merging", "resolving"} \cap APPROVAL = {}
  BY DEF APPROVAL
<1> USE DEF Heeds, At, keys, control
<1>1. CASE Commit(t)
  <2>1. want[t] # Nothing /\ want'[t] = Nothing /\ pc' = pc
    BY <1>1, <1>t, CommitDoes DEF Staged
  <2> QED
    BY <1>t, <2>1 DEF Nothing
<1>2. CASE Consult(t)
  BY <1>t, <1>2 DEF Consult
<1>3. CASE Decide(t)
  BY <1>t, <1>u, <1>n, <1>a, <1>s, <1>g, <1>3 DEF Decide
<1>4. CASE Inline(t)
  BY <1>t, <1>u, <1>n, <1>a, <1>s, <1>g, <1>4 DEF Inline
<1>5. CASE Preserve(t)
  BY <1>t, <1>u, <1>n, <1>a, <1>s, <1>g, <1>5 DEF Preserve
<1>6. CASE Queueing(t)
  BY <1>t, <1>u, <1>n, <1>a, <1>s, <1>g, <1>6 DEF Queueing
<1>7. CASE Acquire(t)
  BY <1>t, <1>u, <1>n, <1>a, <1>s, <1>g, <1>7 DEF Acquire, End
<1>8. CASE Gate(t)
  BY <1>t, <1>u, <1>n, <1>a, <1>s, <1>g, <1>8 DEF Gate
<1>9. CASE Gated(t)
  BY <1>t, <1>u, <1>n, <1>a, <1>s, <1>g, <1>9 DEF Gated
<1>10. CASE PostMerge(t)
  BY <1>t, <1>u, <1>n, <1>a, <1>s, <1>g, <1>10 DEF PostMerge, Merged, Fails,
     TestsFail, Conflicts, NeedsApproval, End
<1>11. CASE Landing(t)
  BY <1>t, <1>u, <1>n, <1>a, <1>s, <1>g, <1>11 DEF Landing, Land, End
<1>12. CASE Fixing(t)
  BY <1>t, <1>u, <1>n, <1>a, <1>s, <1>g, <1>12 DEF Fixing, Land, End
<1>13. CASE Mending(t)
  BY <1>t, <1>u, <1>n, <1>a, <1>s, <1>g, <1>13 DEF Mending, Land, End
<1>14. CASE Repairing(t)
  BY <1>t, <1>u, <1>n, <1>a, <1>s, <1>g, <1>14 DEF Repairing, End
<1>15. CASE DoneSucceeds(t)
  BY <1>t, <1>u, <1>n, <1>a, <1>s, <1>g, <1>15 DEF DoneSucceeds
<1>16. CASE Conclude(t)
  BY <1>t, <1>u, <1>n, <1>a, <1>s, <1>g, <1>16 DEF Conclude
<1>17. CASE Guard(t)
  BY <1>t, <1>u, <1>n, <1>a, <1>s, <1>g, <1>17 DEF Guard
<1>18. CASE Cleanup(t)
  BY <1>t, <1>u, <1>n, <1>a, <1>s, <1>g, <1>18 DEF Cleanup
<1>19. CASE Retire(t)
  BY <1>t, <1>u, <1>n, <1>a, <1>s, <1>g, <1>19 DEF Retire
<1>20. CASE Settle(t)
  BY <1>t, <1>u, <1>n, <1>a, <1>s, <1>g, <1>20 DEF Settle
<1>21. CASE ForceEnd(t)
  BY <1>t, <1>u, <1>n, <1>a, <1>s, <1>g, <1>21 DEF ForceEnd
<1>22. CASE Fallback(t)
  BY <1>t, <1>u, <1>n, <1>a, <1>s, <1>g, <1>22 DEF Fallback
<1>23. CASE Recover(t)
  BY <1>t, <1>u, <1>n, <1>a, <1>s, <1>g, <1>23 DEF Recover
<1>24. CASE Resolver(t)
  BY <1>t, <1>u, <1>n, <1>a, <1>s, <1>g, <1>24 DEF Resolver
<1>25. CASE DoneFails(t)
  BY <1>t, <1>u, <1>n, <1>a, <1>s, <1>g, <1>25 DEF DoneFails, End
<1>26. CASE Raises(t)
  BY <1>t, <1>u, <1>n, <1>a, <1>s, <1>g, <1>26 DEF Raises, End
<1>27. CASE ResolverRaises(t)
  BY <1>t, <1>u, <1>n, <1>a, <1>s, <1>g, <1>27 DEF ResolverRaises
<1>28. CASE FallbackFails(t)
  BY <1>t, <1>u, <1>n, <1>a, <1>s, <1>g, <1>28 DEF FallbackFails
<1>29. CASE StreamBegins(t)
  BY <1>t, <1>u, <1>n, <1>a, <1>s, <1>g, <1>29, <1>i DEF StreamBegins, Begin
<1>30. CASE MonitorBegins(t)
  <2>1. landed => mergeStatus \notin APPROVAL
    BY <1>30 DEF MonitorBegins, Begin, HasJob, Heeded, Monitored
  <2>2. UNCHANGED <<want, mergeStatus, landed>> /\ pc'[t] = "fallback"
        /\ want[t] = Nothing
    BY <1>u, <1>30 DEF MonitorBegins, Begin
  <2> QED
    BY <1>n, <2>1, <2>2
<1>31. CASE Restart(t)
  <2>1. UNCHANGED <<mergeStatus, landed>> /\ pc[t] = "idle" /\ want[t] = Nothing
    BY <1>i, <1>31 DEF Restart, Comes, Starts
  <2>2. CASE Attach(t)
    BY <1>t, <2>1, <2>2 DEF Attach
  <2>3. CASE Reconnect(t)
    BY <1>t, <1>u, <1>n, <1>g, <2>1, <2>3 DEF Reconnect
  <2>4. CASE Unreadable(t) \/ Mistaken(t)
    BY <1>t, <1>u, <1>n, <2>1, <2>4 DEF Unreadable, Mistaken
  <2> QED
    BY <1>31, <2>2, <2>3, <2>4 DEF Restart
<1>32. CASE RetryBegins(t)
  BY <1>t, <1>u, <1>n, <1>a, <1>s, <1>g, <1>32, <1>i DEF RetryBegins, Begin
<1>33. CASE DirectBegins(t)
  BY <1>t, <1>u, <1>n, <1>a, <1>s, <1>g, <1>33, <1>i DEF DirectBegins, Begin
<1>34. CASE ResolveBegins(t)
  BY <1>t, <1>u, <1>n, <1>a, <1>s, <1>g, <1>34, <1>i DEF ResolveBegins, Begin
<1>35. CASE HeartbeatBegins(t)
  BY <1>t, <1>u, <1>n, <1>a, <1>s, <1>g, <1>35, <1>i DEF HeartbeatBegins, Begin
<1> HIDE DEF Heeds, At, keys, control
<1> QED
  BY <1>1, <1>2, <1>3, <1>4, <1>5, <1>6, <1>7, <1>8, <1>9, <1>10, <1>11,
     <1>12, <1>13, <1>14, <1>15, <1>16, <1>17, <1>18, <1>19, <1>20, <1>21,
     <1>22, <1>23, <1>24, <1>25, <1>26, <1>27, <1>28, <1>29, <1>30, <1>31,
     <1>32, <1>33, <1>34, <1>35 DEF Works, Step, Faults, Comes, Starts,
     Commands

(* A step makes no thread retire a runner with an unrecorded error, and    *)
(* re-attaches to none whose process has exited.                           *)
LEMMA NoneRetires ==
    ASSUME TypeOK, NEW t \in Threads, Works(t) \/ Comes(t), outcome = "scope"
    PROVE  /\ pc'[t] = "retire" => pc[t] = "retire"
           /\ tracking' = "monitor" => tracking = "monitor" \/ process = "running"
<1>u. \A label : Goto(t, label) => pc'[t] = label
  BY Updates
<1> USE DEF keys, runner, control
<1>1. CASE Consult(t)
  BY <1>u, <1>1 DEF Consult, control
<1>2. CASE Commit(t)
  BY <1>u, <1>2 DEF Commit
<1>3. CASE Decide(t)
  BY <1>u, <1>3 DEF Decide
<1>4. CASE Inline(t)
  BY <1>u, <1>4 DEF Inline
<1>5. CASE Preserve(t)
  BY <1>u, <1>5 DEF Preserve
<1>6. CASE Queueing(t)
  BY <1>u, <1>6 DEF Queueing
<1>7. CASE Acquire(t)
  BY <1>u, <1>7 DEF Acquire, End
<1>8. CASE Gate(t)
  BY <1>u, <1>8 DEF Gate
<1>9. CASE Gated(t)
  BY <1>u, <1>9 DEF Gated
<1>10. CASE PostMerge(t)
  BY <1>u, <1>10 DEF PostMerge, Merged, Fails, TestsFail, Conflicts,
     NeedsApproval, End
<1>11. CASE Landing(t)
  BY <1>u, <1>11 DEF Landing, Land, End
<1>12. CASE Fixing(t)
  BY <1>u, <1>12 DEF Fixing, Land, End
<1>13. CASE Mending(t)
  BY <1>u, <1>13 DEF Mending, Land, End
<1>14. CASE Repairing(t)
  BY <1>u, <1>14 DEF Repairing, End
<1>15. CASE DoneSucceeds(t)
  BY <1>u, <1>15 DEF DoneSucceeds
<1>16. CASE Conclude(t)
  BY <1>u, <1>16 DEF Conclude
<1>17. CASE Guard(t)
  BY <1>u, <1>17 DEF Guard
<1>18. CASE Cleanup(t)
  BY <1>u, <1>18 DEF Cleanup
<1>19. CASE Retire(t)
  BY <1>u, <1>19 DEF Retire
<1>20. CASE Settle(t)
  BY <1>u, <1>20 DEF Settle
<1>21. CASE ForceEnd(t)
  BY <1>u, <1>21 DEF ForceEnd
<1>22. CASE Fallback(t)
  BY <1>u, <1>22 DEF Fallback
<1>23. CASE Recover(t)
  BY <1>u, <1>23 DEF Recover
<1>24. CASE Resolver(t)
  BY <1>u, <1>24 DEF Resolver
<1>25. CASE DoneFails(t)
  BY <1>u, <1>25 DEF DoneFails, End
<1>26. CASE Raises(t)
  BY <1>u, <1>26 DEF Raises, End
<1>27. CASE ResolverRaises(t)
  BY <1>u, <1>27 DEF ResolverRaises
<1>28. CASE FallbackFails(t)
  BY <1>u, <1>28 DEF FallbackFails
<1>29. CASE StreamBegins(t)
  BY <1>u, <1>29 DEF StreamBegins, Begin
<1>30. CASE MonitorBegins(t)
  BY <1>u, <1>30 DEF MonitorBegins, Begin
<1>31. CASE Restart(t)
  BY <1>u, <1>31 DEF Restart, Attach, Reconnect, Unreadable, Mistaken
<1>32. CASE RetryBegins(t)
  BY <1>u, <1>32 DEF RetryBegins, Begin
<1>33. CASE DirectBegins(t)
  BY <1>u, <1>33 DEF DirectBegins, Begin
<1>34. CASE ResolveBegins(t)
  BY <1>u, <1>34 DEF ResolveBegins, Begin
<1>35. CASE HeartbeatBegins(t)
  BY <1>u, <1>35 DEF HeartbeatBegins, Begin
<1> HIDE DEF keys, runner, control
<1> QED
  BY <1>1, <1>2, <1>3, <1>4, <1>5, <1>6, <1>7, <1>8, <1>9, <1>10, <1>11,
     <1>12, <1>13, <1>14, <1>15, <1>16, <1>17, <1>18, <1>19, <1>20, <1>21,
     <1>22, <1>23, <1>24, <1>25, <1>26, <1>27, <1>28, <1>29, <1>30, <1>31,
     <1>32, <1>33, <1>34, <1>35 DEF Works, Step, Faults, Comes, Starts,
     Commands

(* An error about the root worktree goes on being on its way to            *)
(* merge_status, and then stays there.                                     *)
LEMMA ScopeStep ==
    ASSUME Heeded, Heedful, NEW t \in Threads, Works(t) \/ Comes(t)
    PROVE  ScopeKept'
<1>t. /\ TypeOK /\ Solo /\ Staged /\ OneByOne /\ Deleted = {} /\ ~HasJob("heartbeat")
      /\ HasJob("poll") => "crash" \notin FaultKinds
  BY DEF Heeded, Staged, Solo, Heedful, Deleted
<1>o. outcome' = outcome
  BY <1>t, WorksDoes, ComesDoes
<1> SUFFICES ASSUME outcome = "scope" PROVE ScopeKept'
  BY <1>o DEF ScopeKept
<1>k. /\ tracking # "monitor" /\ \A u \in Threads : pc[u] # "retire"
      /\ mergeStatus = "residue_blocked" \/ Unrecorded
  BY DEF Heeded, ScopeKept
<1>p. process = "exited"
  BY <1>t DEF Solo, Running, TypeOK
<1>r. tracking' # "monitor" /\ \A u \in Threads : pc'[u] # "retire"
  <2>1. \A u \in Threads \ {t} : pc'[u] = pc[u]
    BY <1>t, WorksDoes, ComesDoes DEF LeavesOthers
  <2> QED
    BY <1>t, <1>k, <1>p, <2>1, NoneRetires
<1>1. CASE mergeStatus = "residue_blocked"
  <2>1. mergeStatus \in TERMINAL \ RETRYABLE
    BY <1>1 DEF TERMINAL, RETRYABLE
  <2>2. mergeStatus' = mergeStatus
    BY <1>t, <1>k, <2>1, FinalKept DEF At
  <2> QED
    BY <1>1, <1>r, <2>2 DEF ScopeKept
<1>2. CASE Unrecorded
  <2>u. /\ \A label : Goto(t, label) => pc'[t] = label
        /\ \A to, by : Ask(t, to, by) => want'[t].to = to
                                       /\ (to # "none" => want'[t] # Nothing)
    BY <1>t, Updates
  <2>n. Nothing.to = "none"
    BY DEF Nothing
  <2>o. \A u \in Threads \ {t} : ~Busy(u)'
    BY <1>t, OthersIdle DEF Staged
  <2>s. /\ mergeStatus = "none" /\ ~requested /\ ~landed
        /\ IF HasJob("poll") THEN tracking = "stream" \/ ~Idle
                             ELSE registered = "running"
        /\ Busy(t) => \/ want[t].to = "residue_blocked"
                      \/ /\ want[t] = Nothing /\ JobOf[t] = "recover" /\ ~HasJob("poll")
                         /\ pc[t] \in {"fallback", "guard", "cleanup"}
    BY <1>2 DEF Unrecorded
  <2>m. "none" \notin TERMINAL \cup ACTIVE \cup APPROVAL
    BY DEF TERMINAL, ACTIVE, APPROVAL
  <2> DEFINE Recording == want'[t].to = "residue_blocked" /\ want'[t] # Nothing
             Cleaning == /\ want'[t] = Nothing /\ JobOf[t] = "recover"
                         /\ pc'[t] \in {"fallback", "guard", "cleanup"}
                         /\ ~HasJob("poll")
             Kept0 == UNCHANGED <<mergeStatus, requested, landed, registered>>
  <2>e. ASSUME Kept0, Recording \/ Cleaning PROVE ScopeKept'
    <3>1. HasJob("poll")' = HasJob("poll")
      BY DEF HasJob
    <3>2. HasJob("poll") => ~Idle'
      BY <2>e DEF Idle
    <3>3. registered' = "running" \/ HasJob("poll")
      BY <2>e, <2>s
    <3> QED
      BY <1>r, <2>e, <2>o, <2>s, <3>1, <3>2, <3>3 DEF ScopeKept, Unrecorded
  <2> HIDE DEF Recording, Cleaning, Kept0
  <2>1. CASE Works(t) /\ want[t] # Nothing
    <3>1. want[t].to = "residue_blocked"
      BY <2>s, <2>1 DEF Busy
    <3>2. CASE Commit(t)
      <4>1. mergeStatus' = "residue_blocked"
        BY <1>t, <2>s, <2>m, <3>1, <3>2, CommitDoes DEF Staged
      <4> QED
        BY <1>r, <4>1 DEF ScopeKept
    <3>3. CASE Consult(t)
      <4>1. Kept0 /\ want' = want
        BY <3>3 DEF Consult, Kept0, keys, runner
      <4> QED
        BY <2>1, <2>e, <3>1, <4>1 DEF Recording
    <3> QED
      BY <2>1, <3>2, <3>3 DEF Works, Step, Faults, At, Decide, Inline,
         Preserve, Queueing,
         Acquire, Gate, Gated, PostMerge, Landing, Fixing, Mending, Repairing,
         DoneSucceeds, Conclude, Guard, Cleanup, Retire, Settle, ForceEnd, Fallback,
         Recover, Resolver, DoneFails, Raises, ResolverRaises, FallbackFails
  <2>2. CASE Works(t) /\ want[t] = Nothing
    <3>1. /\ JobOf[t] = "recover" /\ ~HasJob("poll")
          /\ pc[t] \in {"fallback", "guard", "cleanup"}
      BY <1>t, <2>n, <2>s, <2>2, WorksDoes
    <3>2. Fallback(t) \/ Guard(t) \/ Cleanup(t)
      BY <2>s, <2>2, <3>1 DEF Works, Step, Faults, At, Consult, Commit,
         Decide, Inline,
         Preserve, Queueing, Acquire, Gate, Gated, PostMerge, Landing, Fixing, Mending,
         Repairing, DoneSucceeds, Conclude, Retire, Settle, ForceEnd, Recover, Resolver,
         DoneFails, Raises, ResolverRaises, FallbackFails
    <3>3. Kept0
      BY <3>2 DEF Fallback, Guard, Cleanup, Kept0, keys, runner
    <3>4. Recording \/ Cleaning
      BY <2>u, <2>s, <2>m, <2>2, <3>1, <3>2
         DEF Fallback, Guard, Cleanup, Recording, Cleaning, control
    <3> QED
      BY <2>e, <3>3, <3>4
  <2>3. CASE Comes(t)
    <3>1. Idle
      BY <1>t, <2>3, ComesAlone DEF Staged
    <3>2. CASE StreamBegins(t)
      <4>1. Kept0
        BY <3>2 DEF StreamBegins, Kept0, keys
      <4>2. Recording
        BY <2>u, <3>2 DEF StreamBegins, Recording
      <4> QED
        BY <2>e, <4>1, <4>2
    <3>3. CASE Restart(t)
      <4>1. listener = "down" /\ Kept0 /\ JobOf[t] = "recover"
        BY <3>3 DEF Restart, Kept0, keys
      <4>2. tracking = "none" /\ registered = "running" /\ ~HasJob("poll")
        BY <1>t, <2>s, <3>1, <4>1 DEF Solo, Attended
      <4>3. pc'[t] \in {"fallback", "guard"} /\ UNCHANGED want
        BY <1>p, <2>u, <2>s, <2>m, <3>3, <4>2
           DEF Restart, Attach, Reconnect, Unreadable, Mistaken
      <4> QED
        BY <2>e, <3>1, <4>1, <4>2, <4>3 DEF Cleaning, Idle
    <3>4. CASE MonitorBegins(t) \/ DirectBegins(t) \/ HeartbeatBegins(t)
      BY <1>t, <1>k, <3>4
         DEF MonitorBegins, DirectBegins, HeartbeatBegins, Begin, HasJob
    <3>5. CASE RetryBegins(t) \/ ResolveBegins(t)
      <4>1. registered = "stopped" /\ tracking = "none"
        BY <1>t, <3>5 DEF RetryBegins, ResolveBegins, UserMay, OneByOne
      <4> QED
        BY <2>s, <3>1, <4>1
    <3> QED
      BY <2>3, <3>2, <3>3, <3>4, <3>5 DEF Comes, Starts, Commands
  <2> QED
    BY <2>1, <2>2, <2>3
<1> QED
  BY <1>k, <1>1, <1>2

(* What a step of the system does to approvals and unrecorded errors.      *)
LEMMA HeededStep ==
    ASSUME Heeded, Heedful, [Next]_vars
    PROVE  Heeded'
<1>t. /\ TypeOK /\ Solo /\ Staged /\ OneByOne /\ Deleted = {}
      /\ HasJob("poll") => Visible /\ "crash" \notin FaultKinds
      /\ Visible \/ "log" \notin FaultKinds
  BY DEF Heeded, Staged, Solo, Heedful, Deleted
<1>0. Staged'
  BY <1>t, StagedStep
<1>1. ASSUME NEW t \in Threads, Works(t) \/ Comes(t) PROVE Heeded'
  <2>1. ScopeKept' /\ Heeds(t)'
    BY <1>1, ScopeStep, HeedsStep
  <2>2. ASSUME NEW u \in Threads \ {t} PROVE Heeds(u)'
    <3>1. pc'[u] = "idle" /\ want'[u] = Nothing
      BY <1>t, <1>1, OthersIdle DEF Busy
    <3> QED
      BY <3>1 DEF Heeds, Nothing
  <2>3. /\ process' = process /\ LeavesOthers(t)
        /\ Works(t) => Busy(t) /\ tracking' \in {tracking, "none"}
        /\ Comes(t) => UNCHANGED <<mergeStatus, landed>>
    BY <1>t, <1>1, WorksDoes, ComesDoes
  <2>4. Works(t) => ~Idle
    BY <2>3 DEF Idle, Busy
  <2>5. Monitored'
    <3>1. CASE Works(t)
      BY <1>t, <2>3, <2>4, <3>1 DEF Solo, Attended, Monitored, HasJob
    <3>2. CASE Comes(t)
      <4>1. tracking' = "monitor" => tracking = "monitor" \/ process = "running"
        BY <3>2 DEF Comes, Starts, Commands, StreamBegins, MonitorBegins,
           Restart,
           Attach, Reconnect, Unreadable, Mistaken, RetryBegins, DirectBegins,
           ResolveBegins, HeartbeatBegins, runner
      <4>2. process = "running" => ~landed
        BY <1>t DEF Solo, Running
      <4> QED
        BY <2>3, <3>2, <4>1, <4>2 DEF Heeded, Monitored, HasJob
    <3> QED
      BY <1>1, <3>1, <3>2
  <2>6. RunningUnseen'
    <3> SUFFICES ASSUME process = "running", ~Visible PROVE Idle'
      BY <2>3 DEF RunningUnseen
    <3>1. Idle /\ ~Unreadable(t)
      BY <1>t DEF Heeded, RunningUnseen, Unreadable, Fault
    <3>2. UNCHANGED <<pc, want>>
      BY <1>t, <1>1, <2>4, <3>1, ComesAlone
    <3> QED
      BY <3>1, <3>2 DEF Idle
  <2>7. Listed'
    BY <1>t, <1>1, <2>3, <2>4, ComesAlone DEF Listed, Solo, Attended
  <2> QED
    BY <1>0, <2>1, <2>2, <2>5, <2>6, <2>7 DEF Heeded
<1>2. ASSUME NEW t \in Threads, Poll(t) PROVE Heeded'
  <2>1. /\ UNCHANGED <<process, outcome, landed, tracking, pc, want, mergeStatus>>
        /\ (~requested => ~requested') /\ HasJob("poll") /\ process = "exited"
    BY <1>t, <1>2 DEF Poll, control, HasJob
  <2>2. Monitored' /\ RunningUnseen' /\ Listed'
    BY <2>1 DEF Heeded, Monitored, RunningUnseen, Listed, HasJob
  <2>3. ScopeKept'
    BY <2>1 DEF Heeded, ScopeKept, Unrecorded, Busy, Idle, HasJob
  <2> QED
    BY <1>0, <2>1, <2>2, <2>3 DEF Heeded, Heeds
<1>3. CASE ProcessExits
  <2>1. /\ UNCHANGED <<registered, tracking, pc, want>>
        /\ process = "running" /\ process' = "exited"
        /\ outcome' = "scope" => mergeStatus' = "none" /\ ~requested' /\ tracking = "stream"
        /\ landed' = (mergeStatus' = "merged")
    BY <1>3 DEF ProcessExits, control
  <2>2. \A t \in Threads : want[t] = Nothing /\ pc[t] \in {"idle", "cleanup", "retire"}
    BY <1>t, <2>1 DEF Solo, Running
  <2>3. mergeStatus' \in APPROVAL => ~landed'
    BY <2>1 DEF APPROVAL
  <2>4. \A t \in Threads : Heeds(t)'
    BY <2>1, <2>2, <2>3 DEF Heeded, RunningUnseen, Heeds, Idle, Nothing
  <2>5. Monitored' /\ RunningUnseen' /\ Listed'
    BY <2>1, <2>3 DEF Heeded, Monitored, RunningUnseen, Listed, HasJob
  <2>6. ScopeKept'
    <3> SUFFICES ASSUME outcome' = "scope" PROVE ScopeKept'
      BY DEF ScopeKept
    <3>1. Idle /\ tracking' = "stream" /\ (registered' = "running" \/ HasJob("poll"))
      BY <1>t, <2>1 DEF Solo, Attended, Heeded, Listed
    <3>2. mergeStatus' = "none" /\ ~requested' /\ ~landed'
      BY <2>1
    <3> QED
      BY <2>1, <3>1, <3>2 DEF ScopeKept, Unrecorded, Idle, Busy, HasJob
  <2> QED
    BY <1>0, <2>4, <2>5, <2>6 DEF Heeded
<1>4. CASE ListenerDies
  <2>1. /\ UNCHANGED <<mergeStatus, requested, registered, landed>> /\ tracking' = "none"
        /\ \A t \in Threads : pc'[t] = "idle" /\ want'[t] = Nothing
        /\ outcome' = "scope" => outcome = "scope" /\ tracking # "stream"
        /\ "crash" \in FaultKinds
    BY <1>4 DEF ListenerDies, keys, Fault
  <2>2. \A t \in Threads : Heeds(t)'
    BY <2>1 DEF Heeds, Nothing
  <2>3. Monitored' /\ RunningUnseen' /\ Listed'
    BY <2>1 DEF Monitored, RunningUnseen, Listed, Idle
  <2>4. ~HasJob("poll") /\ ~HasJob("poll")'
    BY <1>t, <2>1 DEF HasJob
  <2>5. ScopeKept'
    BY <2>1, <2>4 DEF Heeded, ScopeKept, Unrecorded, Busy
  <2> QED
    BY <1>0, <2>2, <2>3, <2>5 DEF Heeded
<1>5. CASE UNCHANGED vars
  BY <1>0, <1>5 DEF Heeded, Monitored, RunningUnseen, Listed, ScopeKept,
     Unrecorded,
     Heeds, Busy, Idle, vars, keys, runner, control
<1> QED
  BY <1>1, <1>2, <1>3, <1>4, <1>5 DEF Next, Finished, Works, Comes
-----------------------------------------------------------------------------
(* What a job leaves behind.                                               *)

(* A listener that dies leaves to its restart what it knows how to go on   *)
(* with: a restart looks at registered runners only, and takes a PID for   *)
(* that of its runner only if it is.                                       *)
SafeToCrash ==
    "crash" \in FaultKinds =>
        /\ "pid" \notin FaultKinds
        /\ \A job \in {"retry", "approved", "resolve", "poll"} : ~HasJob(job)

(* The labels at which a job has no merge under way.                       *)
Late == {"idle", "decide", "conclude", "fallback", "guard", "cleanup", "retire", "keep",
         "settle"}

(* The labels that a job may be at when its runner is no longer registered.*)
Past == {"idle", "fallback", "force", "guard", "cleanup", "retire", "keep", "settle"}

Unregistered ==
    "crash" \in FaultKinds /\ registered = "stopped" => \A t \in Threads : pc[t] \in Past

(* Late in a job, merge_status is not active, or is about to be replaced   *)
(* by what is not.                                                         *)
Settled(t) ==
    /\ pc[t] \in Late =>
          IF want[t] # Nothing THEN want[t].to \notin ACTIVE
                               ELSE mergeStatus \notin ACTIVE
    /\ pc[t] = "queueing" /\ want[t] = Nothing /\ ~accepted[t] => mergeStatus \notin ACTIVE
    /\ pc[t] = "force" => want[t] = Nothing

(* An idle runner is not active, unless its listener is down; then a       *)
(* restart will go on with what is active, if the runner is registered and *)
(* the status is one that it knows.                                        *)
Rested == Idle /\ listener = "up" => mergeStatus \notin ACTIVE

Dormant == "crash" \in FaultKinds /\ registered = "stopped" => mergeStatus \notin ACTIVE

Unresumed == {"pre_merge", "testing", "fixing"}

Resumable ==
    /\ listener = "down" => "crash" \in FaultKinds
    /\ "crash" \in FaultKinds =>
          /\ mergeStatus \notin Unresumed
          /\ \A t \in Threads : want[t].to \notin Unresumed

Quiet == /\ Staged /\ Listed /\ Unregistered /\ Rested /\ Dormant /\ Resumable
         /\ \A t \in Threads : Busy(t) => Settled(t)

(* When an active status is followed up: the process leaves none behind,   *)
(* a restart knows them all, and a resolver that raises does not count.    *)
FollowedUp ==
    /\ OneByOne /\ SafeToCrash
    /\ ExitStatuses \cap ACTIVE = {}
    /\ "crash" \in FaultKinds => 2 \notin ExitCodes
    /\ "exception" \in FaultKinds => ~HasJob("resolve")

(* When a merge is the listener's to finish: neither the process nor a     *)
(* resolve-conflict command merges by itself, and "error" is not           *)
(* overridden by the general resolver of an approved retry.                *)
OwnMerges ==
    /\ OneByOne /\ SafeToCrash
    /\ "merged" \notin ExitStatuses
    /\ ~HasJob("resolve")
    /\ 1 \in ExitCodes => ~HasJob("approved") /\ Deleted = {}

(* Whoever asks for "merged" will do the plan's done flow, or asks in      *)
(* vain.                                                                   *)
Merging(t) ==
    want[t].to = "merged" =>
        /\ want[t] # Nothing
        /\ \/ pc[t] = "done" /\ landed
           \/ doneTried
           \/ /\ mergeStatus = "error" /\ 1 \in ExitCodes
              /\ want[t].by \in {"inline-merge", "retry-merge"}

(* Between "merged" and the done flow, a thread is about to enter it, or   *)
(* the listener has died and the runner is still registered.               *)
Undone ==
    mergeStatus = "merged" /\ ~doneTried =>
        /\ landed
        /\ "crash" \in FaultKinds => registered = "running"
        /\ Idle => "crash" \in FaultKinds /\ tracking = "none"
        /\ \A t \in Threads :
              Busy(t) => /\ want[t] = Nothing
                         /\ pc[t] = "done" \/ (pc[t] = "fallback" /\ JobOf[t] # "stream")

Finishing == /\ Staged /\ Listed /\ Unregistered /\ Undone
             /\ \A t \in Threads : Merging(t)

(* A runner that is no longer registered has no merge.                     *)
LEMMA UnregisteredStep ==
    ASSUME TypeOK, Attended, Listed, Unregistered, SafeToCrash, "crash" \in FaultKinds,
           NEW t \in Threads, Works(t) \/ Comes(t), registered' = "stopped"
    PROVE  pc'[t] \in Past
<1>t. /\ registered = "stopped" => pc[t] \in Past
      /\ JobOf[t] \notin {"retry", "approved", "resolve", "poll"}
      /\ ~Fault("pid")
  BY DEF Unregistered, SafeToCrash, HasJob, Fault
<1>u. \A label : Goto(t, label) => pc'[t] = label
  BY Updates
<1>r. registered \in {"running", "stopped"}
  BY DEF TypeOK
<1> USE DEF Past, At, runner
<1>1. CASE Consult(t)
  BY <1>t, <1>u, <1>r, <1>1 DEF Consult
<1>2. CASE Commit(t)
  BY <1>t, <1>u, <1>r, <1>2 DEF Commit
<1>3. CASE Decide(t)
  BY <1>t, <1>u, <1>r, <1>3 DEF Decide
<1>4. CASE Inline(t)
  BY <1>t, <1>u, <1>r, <1>4 DEF Inline
<1>5. CASE Preserve(t)
  BY <1>t, <1>u, <1>r, <1>5 DEF Preserve
<1>6. CASE Queueing(t)
  BY <1>t, <1>u, <1>r, <1>6 DEF Queueing
<1>7. CASE Acquire(t)
  BY <1>t, <1>u, <1>r, <1>7 DEF Acquire, End
<1>8. CASE Gate(t)
  BY <1>t, <1>u, <1>r, <1>8 DEF Gate
<1>9. CASE Gated(t)
  BY <1>t, <1>u, <1>r, <1>9 DEF Gated
<1>10. CASE PostMerge(t)
  BY <1>t, <1>u, <1>r, <1>10 DEF PostMerge, Merged, Fails, TestsFail,
     Conflicts, NeedsApproval, End
<1>11. CASE Landing(t)
  BY <1>t, <1>u, <1>r, <1>11 DEF Landing, Land, End
<1>12. CASE Fixing(t)
  BY <1>t, <1>u, <1>r, <1>12 DEF Fixing, Land, End
<1>13. CASE Mending(t)
  BY <1>t, <1>u, <1>r, <1>13 DEF Mending, Land, End
<1>14. CASE Repairing(t)
  BY <1>t, <1>u, <1>r, <1>14 DEF Repairing, End
<1>15. CASE DoneSucceeds(t)
  BY <1>t, <1>u, <1>r, <1>15 DEF DoneSucceeds
<1>16. CASE Conclude(t)
  BY <1>t, <1>u, <1>r, <1>16 DEF Conclude
<1>17. CASE Guard(t)
  BY <1>t, <1>u, <1>r, <1>17 DEF Guard
<1>18. CASE Cleanup(t)
  BY <1>t, <1>u, <1>r, <1>18 DEF Cleanup
<1>19. CASE Retire(t)
  BY <1>t, <1>u, <1>r, <1>19 DEF Retire
<1>20. CASE Settle(t)
  BY <1>t, <1>u, <1>r, <1>20 DEF Settle
<1>21. CASE ForceEnd(t)
  BY <1>t, <1>u, <1>r, <1>21 DEF ForceEnd
<1>22. CASE Fallback(t)
  BY <1>t, <1>u, <1>r, <1>22 DEF Fallback
<1>23. CASE Recover(t)
  BY <1>t, <1>u, <1>r, <1>23 DEF Recover
<1>24. CASE Resolver(t)
  BY <1>t, <1>u, <1>r, <1>24 DEF Resolver
<1>25. CASE DoneFails(t)
  BY <1>t, <1>u, <1>r, <1>25 DEF DoneFails, End
<1>26. CASE Raises(t)
  BY <1>t, <1>u, <1>r, <1>26 DEF Raises, End
<1>27. CASE ResolverRaises(t)
  BY <1>t, <1>u, <1>r, <1>27 DEF ResolverRaises
<1>28. CASE FallbackFails(t)
  BY <1>t, <1>u, <1>r, <1>28 DEF FallbackFails
<1>29. CASE StreamBegins(t)
  <2>1. /\ process = "exited" /\ outcome # "none" /\ JobOf[t] = "stream"
        /\ jobs[t] = 0 /\ MaxJobs # 0 /\ registered' = registered
    BY <1>29 DEF StreamBegins, Begin
  <2>2. tracking = "stream" /\ ~HasJob("poll")
    BY <2>1 DEF Attended, Fresh, SafeToCrash
  <2> QED
    BY <2>1, <2>2 DEF Listed
<1>30. CASE MonitorBegins(t)
  BY <1>t, <1>u, <1>r, <1>30 DEF MonitorBegins, Begin
<1>31. CASE Restart(t)
  BY <1>t, <1>u, <1>r, <1>31 DEF Restart, Attach, Reconnect, Unreadable,
     Mistaken
<1>32. CASE RetryBegins(t)
  BY <1>t, <1>u, <1>r, <1>32 DEF RetryBegins, Begin
<1>33. CASE DirectBegins(t)
  BY <1>t, <1>u, <1>r, <1>33 DEF DirectBegins, Begin
<1>34. CASE ResolveBegins(t)
  BY <1>t, <1>u, <1>r, <1>34 DEF ResolveBegins, Begin
<1>35. CASE HeartbeatBegins(t)
  BY <1>t, <1>u, <1>r, <1>35 DEF HeartbeatBegins, Begin
<1> HIDE DEF Past, At, runner
<1> QED
  BY <1>1, <1>2, <1>3, <1>4, <1>5, <1>6, <1>7, <1>8, <1>9, <1>10, <1>11,
     <1>12, <1>13, <1>14, <1>15, <1>16, <1>17, <1>18, <1>19, <1>20, <1>21,
     <1>22, <1>23, <1>24, <1>25, <1>26, <1>27, <1>28, <1>29, <1>30, <1>31,
     <1>32, <1>33, <1>34, <1>35 DEF Works, Step, Faults, Comes, Starts,
     Commands

(* A restart goes on with every active status that there is.               *)
LEMMA ResumableStep ==
    ASSUME Staged, Resumable, 2 \notin ExitCodes, "crash" \in FaultKinds,
           NEW t \in Threads, Works(t) \/ Comes(t)
    PROVE  want'[t].to \notin Unresumed
<1>t. TypeOK /\ mergeStatus \notin Unresumed /\ want[t].to \notin Unresumed
  BY DEF Staged, Solo, Resumable
<1>u. \A to, by : Ask(t, to, by) => want'[t].to = to
  BY <1>t, Updates
<1>n. Nothing.to = "none"
  BY DEF Nothing
<1> USE DEF Unresumed, control, Blocked
<1>1. CASE Consult(t)
  BY <1>t, <1>1 DEF Consult
<1>2. CASE Commit(t)
  <2>1. want'[t] = Nothing
    BY <1>t, <1>2 DEF Commit, TypeOK
  <2> QED
    BY <1>n, <2>1
<1>3. CASE Decide(t)
  BY <1>t, <1>u, <1>n, <1>3 DEF Decide
<1>4. CASE Inline(t)
  BY <1>t, <1>u, <1>n, <1>4 DEF Inline
<1>5. CASE Preserve(t)
  BY <1>t, <1>u, <1>n, <1>5 DEF Preserve
<1>6. CASE Queueing(t)
  BY <1>t, <1>u, <1>n, <1>6 DEF Queueing
<1>7. CASE Acquire(t)
  BY <1>t, <1>u, <1>n, <1>7 DEF Acquire, End
<1>8. CASE Gate(t)
  BY <1>t, <1>u, <1>n, <1>8 DEF Gate
<1>9. CASE Gated(t)
  BY <1>t, <1>u, <1>n, <1>9 DEF Gated
<1>10. CASE PostMerge(t)
  BY <1>t, <1>u, <1>n, <1>10 DEF PostMerge, Merged, Fails, TestsFail,
     Conflicts, NeedsApproval, End
<1>11. CASE Landing(t)
  BY <1>t, <1>u, <1>n, <1>11 DEF Landing, Land, End
<1>12. CASE Fixing(t)
  BY <1>t, <1>u, <1>n, <1>12 DEF Fixing, Land, End
<1>13. CASE Mending(t)
  BY <1>t, <1>u, <1>n, <1>13 DEF Mending, Land, End
<1>14. CASE Repairing(t)
  BY <1>t, <1>u, <1>n, <1>14 DEF Repairing, End
<1>15. CASE DoneSucceeds(t)
  BY <1>t, <1>u, <1>n, <1>15 DEF DoneSucceeds
<1>16. CASE Conclude(t)
  BY <1>t, <1>u, <1>n, <1>16 DEF Conclude
<1>17. CASE Guard(t)
  BY <1>t, <1>u, <1>n, <1>17 DEF Guard
<1>18. CASE Cleanup(t)
  BY <1>t, <1>u, <1>n, <1>18 DEF Cleanup
<1>19. CASE Retire(t)
  BY <1>t, <1>u, <1>n, <1>19 DEF Retire
<1>20. CASE Settle(t)
  BY <1>t, <1>u, <1>n, <1>20 DEF Settle
<1>21. CASE ForceEnd(t)
  BY <1>t, <1>u, <1>n, <1>21 DEF ForceEnd
<1>22. CASE Fallback(t)
  BY <1>t, <1>u, <1>n, <1>22 DEF Fallback
<1>23. CASE Recover(t)
  BY <1>t, <1>u, <1>n, <1>23 DEF Recover
<1>24. CASE Resolver(t)
  BY <1>t, <1>u, <1>n, <1>24 DEF Resolver
<1>25. CASE DoneFails(t)
  BY <1>t, <1>u, <1>n, <1>25 DEF DoneFails, End
<1>26. CASE Raises(t)
  BY <1>t, <1>u, <1>n, <1>26 DEF Raises, End
<1>27. CASE ResolverRaises(t)
  BY <1>t, <1>u, <1>n, <1>27 DEF ResolverRaises
<1>28. CASE FallbackFails(t)
  BY <1>t, <1>u, <1>n, <1>28 DEF FallbackFails
<1>29. CASE StreamBegins(t)
  BY <1>t, <1>u, <1>n, <1>29 DEF StreamBegins, Begin
<1>30. CASE MonitorBegins(t)
  BY <1>t, <1>u, <1>n, <1>30 DEF MonitorBegins, Begin
<1>31. CASE Restart(t)
  BY <1>t, <1>u, <1>n, <1>31 DEF Restart, Attach, Reconnect, Unreadable,
     Mistaken
<1>32. CASE RetryBegins(t)
  BY <1>t, <1>u, <1>n, <1>32 DEF RetryBegins, Begin
<1>33. CASE DirectBegins(t)
  BY <1>t, <1>u, <1>n, <1>33 DEF DirectBegins, Begin
<1>34. CASE ResolveBegins(t)
  BY <1>t, <1>u, <1>n, <1>34 DEF ResolveBegins, Begin
<1>35. CASE HeartbeatBegins(t)
  BY <1>t, <1>u, <1>n, <1>35 DEF HeartbeatBegins, Begin
<1> HIDE DEF Unresumed, control, Blocked
<1> QED
  BY <1>1, <1>2, <1>3, <1>4, <1>5, <1>6, <1>7, <1>8, <1>9, <1>10, <1>11,
     <1>12, <1>13, <1>14, <1>15, <1>16, <1>17, <1>18, <1>19, <1>20, <1>21,
     <1>22, <1>23, <1>24, <1>25, <1>26, <1>27, <1>28, <1>29, <1>30, <1>31,
     <1>32, <1>33, <1>34, <1>35 DEF Works, Step, Faults, Comes, Starts,
     Commands

(* A step that ends a merge leaves a status that is not active.            *)
LEMMA SettledStep ==
    ASSUME Quiet, FollowedUp, NEW t \in Threads, Works(t) \/ Comes(t)
    PROVE  Settled(t)'
<1>t. TypeOK /\ Solo /\ Called /\ Stage(t) /\ OneByOne
  BY DEF Quiet, FollowedUp, Staged, Solo
<1>b. pc[t] # "idle" \/ want[t] # Nothing => Settled(t)
  BY DEF Quiet, Busy
<1>u. /\ \A label : Goto(t, label) => pc'[t] = label
      /\ \A to, by : Ask(t, to, by) => want'[t].to = to
                                     /\ (to # "none" => want'[t] # Nothing)
  BY <1>t, Updates
<1>a. ACTIVE \cap ({"none", "error"} \cup TERMINAL \cup Deleted) = {}
  BY DEF ACTIVE, TERMINAL, Deleted
<1>e. Blocked \cup {"merged", "conflict", "test_failed", "push_required",
                    "approval_required", "residue_blocked"} \subseteq TERMINAL /\ "none" \notin TERMINAL
  BY DEF Blocked, TERMINAL
<1>i. Comes(t) => /\ Idle /\ pc[t] = "idle" /\ want[t] = Nothing
                  /\ listener = "up" => mergeStatus \notin ACTIVE
  BY <1>t, ComesAlone DEF Idle, Quiet, Rested
<1> USE DEF Settled, Stage, Aims, Late, At, keys, control
<1>1. CASE Consult(t)
  BY <1>t, <1>b, <1>1 DEF Consult
<1>2. CASE Commit(t)
  <2>1. /\ want[t] # Nothing /\ want'[t] = Nothing /\ pc' = pc
        /\ \/ accepted'[t] /\ mergeStatus' = want[t].to
           \/ ~accepted'[t] /\ mergeStatus' = mergeStatus
              /\ mergeStatus \in TERMINAL \cup Deleted
    BY <1>t, <1>2, CommitDoes
  <2> QED
    BY <1>b, <1>a, <2>1
<1>3. CASE Decide(t)
  BY <1>t, <1>b, <1>u, <1>a, <1>e, <1>3 DEF Decide
<1>4. CASE Inline(t)
  BY <1>t, <1>b, <1>u, <1>a, <1>4 DEF Inline, Kept
<1>5. CASE Preserve(t)
  BY <1>t, <1>b, <1>u, <1>a, <1>e, <1>5 DEF Preserve
<1>6. CASE Queueing(t)
  BY <1>t, <1>b, <1>u, <1>a, <1>e, <1>6 DEF Queueing
<1>7. CASE Acquire(t)
  BY <1>t, <1>b, <1>u, <1>a, <1>e, <1>7 DEF Acquire, End
<1>8. CASE Gate(t)
  BY <1>t, <1>b, <1>u, <1>a, <1>e, <1>8 DEF Gate
<1>9. CASE Gated(t)
  BY <1>t, <1>b, <1>u, <1>a, <1>e, <1>9 DEF Gated
<1>10. CASE PostMerge(t)
  BY <1>t, <1>b, <1>u, <1>a, <1>e, <1>10 DEF PostMerge, Merged, Fails,
     TestsFail, Conflicts, NeedsApproval, End
<1>11. CASE Landing(t)
  BY <1>t, <1>b, <1>u, <1>a, <1>e, <1>11 DEF Landing, Land, End
<1>12. CASE Fixing(t)
  BY <1>t, <1>b, <1>u, <1>a, <1>e, <1>12 DEF Fixing, Land, End
<1>13. CASE Mending(t)
  BY <1>t, <1>b, <1>u, <1>a, <1>e, <1>13 DEF Mending, Land, End
<1>14. CASE Repairing(t)
  BY <1>t, <1>b, <1>u, <1>a, <1>e, <1>14 DEF Repairing, End
<1>15. CASE DoneSucceeds(t)
  BY <1>t, <1>b, <1>u, <1>a, <1>e, <1>15 DEF DoneSucceeds
<1>16. CASE Conclude(t)
  BY <1>t, <1>b, <1>u, <1>a, <1>e, <1>16 DEF Conclude
<1>17. CASE Guard(t)
  BY <1>t, <1>b, <1>u, <1>a, <1>e, <1>17 DEF Guard
<1>18. CASE Cleanup(t)
  BY <1>t, <1>b, <1>u, <1>a, <1>e, <1>18 DEF Cleanup
<1>19. CASE Retire(t)
  BY <1>t, <1>b, <1>u, <1>a, <1>e, <1>19 DEF Retire
<1>20. CASE Settle(t)
  BY <1>t, <1>b, <1>u, <1>a, <1>e, <1>20 DEF Settle
<1>21. CASE ForceEnd(t)
  BY <1>t, <1>b, <1>u, <1>a, <1>e, <1>21 DEF ForceEnd
<1>22. CASE Fallback(t)
  BY <1>t, <1>b, <1>u, <1>a, <1>e, <1>22 DEF Fallback
<1>23. CASE Recover(t)
  BY <1>t, <1>b, <1>u, <1>a, <1>e, <1>23 DEF Recover
<1>24. CASE Resolver(t)
  BY <1>t, <1>b, <1>u, <1>a, <1>e, <1>24 DEF Resolver
<1>25. CASE DoneFails(t)
  BY <1>t, <1>b, <1>u, <1>a, <1>e, <1>25 DEF DoneFails, End
<1>26. CASE Raises(t)
  BY <1>t, <1>b, <1>u, <1>a, <1>e, <1>26 DEF Raises, End
<1>27. CASE ResolverRaises(t)
  <2>1. JobOf[t] = "resolve" /\ Fault("exception")
    BY <1>t, <1>27 DEF ResolverRaises
  <2> QED
    BY <2>1 DEF FollowedUp, Fault, HasJob
<1>28. CASE FallbackFails(t)
  BY <1>t, <1>b, <1>u, <1>a, <1>e, <1>28 DEF FallbackFails
<1>29. CASE StreamBegins(t)
  <2>1. Comes(t)
    BY <1>29 DEF Comes, Starts, Commands
  <2> QED
    BY <1>t, <1>b, <1>u, <1>a, <1>e, <1>i, <1>29, <2>1 DEF StreamBegins, Begin
<1>30. CASE MonitorBegins(t)
  <2>1. Comes(t)
    BY <1>30 DEF Comes, Starts, Commands
  <2> QED
    BY <1>t, <1>b, <1>u, <1>a, <1>e, <1>i, <1>30, <2>1 DEF MonitorBegins, Begin
<1>31. CASE Restart(t)
  <2>1. /\ Idle /\ pc[t] = "idle" /\ want[t] = Nothing /\ listener = "down"
        /\ mergeStatus' = mergeStatus
    BY <1>i, <1>31 DEF Restart, Comes, Starts
  <2>2. "crash" \in FaultKinds /\ mergeStatus \notin Unresumed /\ ~Fault("pid")
    BY <2>1 DEF Quiet, Resumable, FollowedUp, SafeToCrash, Fault
  <2>3. process = "running" => mergeStatus \notin ACTIVE
    BY <1>t, <1>a DEF Solo, Running
  <2>4. registered = "stopped" => mergeStatus \notin ACTIVE
    BY <2>2 DEF Quiet, Dormant
  <2>5. CASE Attach(t)
    BY <2>1, <2>3, <2>5 DEF Attach
  <2>6. CASE Unreadable(t)
    BY <1>u, <2>1, <2>3, <2>6 DEF Unreadable
  <2>7. CASE Reconnect(t)
    <3>1. CASE UNCHANGED <<pc, want>>
      <4>1. mergeStatus \notin ACTIVE
        <5>1. CASE registered = "running" /\ Goto(t, "recover")
          BY <1>u, <2>1, <3>1, <5>1
        <5> QED
          BY <1>a, <2>2, <2>4, <2>7, <5>1
             DEF Reconnect, Unresumed, TERMINAL, APPROVAL
      <4> QED
        BY <2>1, <3>1, <4>1
    <3>2. CASE Goto(t, "recover")
      BY <1>u, <3>2
    <3>3. CASE Goto(t,
           "fallback") /\ UNCHANGED want /\ mergeStatus \in {"none"} \cup TERMINAL
      BY <1>u, <1>a, <2>1, <3>3
    <3> QED
      BY <2>7, <3>1, <3>2, <3>3 DEF Reconnect
  <2> QED
    BY <1>31, <2>2, <2>5, <2>6, <2>7 DEF Restart, Mistaken
<1>32. CASE RetryBegins(t)
  <2>1. Comes(t)
    BY <1>32 DEF Comes, Starts, Commands
  <2> QED
    BY <1>t, <1>b, <1>u, <1>a, <1>e, <1>i, <1>32, <2>1 DEF RetryBegins, Begin
<1>33. CASE DirectBegins(t)
  <2>1. Comes(t)
    BY <1>33 DEF Comes, Starts, Commands
  <2> QED
    BY <1>t, <1>b, <1>u, <1>a, <1>e, <1>i, <1>33, <2>1 DEF DirectBegins, Begin
<1>34. CASE ResolveBegins(t)
  <2>1. Comes(t)
    BY <1>34 DEF Comes, Starts, Commands
  <2> QED
    BY <1>t, <1>b, <1>u, <1>a, <1>e, <1>i, <1>34, <2>1 DEF ResolveBegins, Begin
<1>35. CASE HeartbeatBegins(t)
  <2>1. Comes(t)
    BY <1>35 DEF Comes, Starts, Commands
  <2> QED
    BY <1>t, <1>b, <1>u, <1>a, <1>e, <1>i, <1>35, <2>1 DEF HeartbeatBegins,
       Begin
<1> HIDE DEF Settled, Stage, Aims, Late, At, keys, control
<1> QED
  BY <1>1, <1>2, <1>3, <1>4, <1>5, <1>6, <1>7, <1>8, <1>9, <1>10, <1>11,
     <1>12, <1>13, <1>14, <1>15, <1>16, <1>17, <1>18, <1>19, <1>20, <1>21,
     <1>22, <1>23, <1>24, <1>25, <1>26, <1>27, <1>28, <1>29, <1>30, <1>31,
     <1>32, <1>33, <1>34, <1>35 DEF Works, Step, Faults, Comes, Starts,
     Commands

(* A runner is taken out of the registry by the end of a job.              *)
LEMMA RegisteredKept ==
    ASSUME NEW t \in Threads, Works(t) \/ Comes(t), registered' = "stopped"
    PROVE  registered = "stopped" \/ Retire(t)
<1> USE DEF runner
<1>1. CASE Consult(t)
  BY <1>1 DEF Consult
<1>2. CASE Commit(t)
  BY <1>2 DEF Commit
<1>3. CASE Decide(t)
  BY <1>3 DEF Decide
<1>4. CASE Inline(t)
  BY <1>4 DEF Inline
<1>5. CASE Preserve(t)
  BY <1>5 DEF Preserve
<1>6. CASE Queueing(t)
  BY <1>6 DEF Queueing
<1>7. CASE Acquire(t)
  BY <1>7 DEF Acquire, End
<1>8. CASE Gate(t)
  BY <1>8 DEF Gate
<1>9. CASE Gated(t)
  BY <1>9 DEF Gated
<1>10. CASE PostMerge(t)
  BY <1>10 DEF PostMerge, Merged, Fails, TestsFail, Conflicts, NeedsApproval,
     End
<1>11. CASE Landing(t)
  BY <1>11 DEF Landing, Land, End
<1>12. CASE Fixing(t)
  BY <1>12 DEF Fixing, Land, End
<1>13. CASE Mending(t)
  BY <1>13 DEF Mending, Land, End
<1>14. CASE Repairing(t)
  BY <1>14 DEF Repairing, End
<1>15. CASE DoneSucceeds(t)
  BY <1>15 DEF DoneSucceeds
<1>16. CASE Conclude(t)
  BY <1>16 DEF Conclude
<1>17. CASE Guard(t)
  BY <1>17 DEF Guard
<1>18. CASE Cleanup(t)
  BY <1>18 DEF Cleanup
<1>19. CASE Retire(t)
  BY <1>19 DEF Retire
<1>20. CASE Settle(t)
  BY <1>20 DEF Settle
<1>21. CASE ForceEnd(t)
  BY <1>21 DEF ForceEnd
<1>22. CASE Fallback(t)
  BY <1>22 DEF Fallback
<1>23. CASE Recover(t)
  BY <1>23 DEF Recover
<1>24. CASE Resolver(t)
  BY <1>24 DEF Resolver
<1>25. CASE DoneFails(t)
  BY <1>25 DEF DoneFails, End
<1>26. CASE Raises(t)
  BY <1>26 DEF Raises, End
<1>27. CASE ResolverRaises(t)
  BY <1>27 DEF ResolverRaises
<1>28. CASE FallbackFails(t)
  BY <1>28 DEF FallbackFails
<1>29. CASE StreamBegins(t)
  BY <1>29 DEF StreamBegins, Begin
<1>30. CASE MonitorBegins(t)
  BY <1>30 DEF MonitorBegins, Begin
<1>31. CASE Restart(t)
  BY <1>31 DEF Restart, Attach, Reconnect, Unreadable, Mistaken
<1>32. CASE RetryBegins(t)
  BY <1>32 DEF RetryBegins, Begin
<1>33. CASE DirectBegins(t)
  BY <1>33 DEF DirectBegins, Begin
<1>34. CASE ResolveBegins(t)
  BY <1>34 DEF ResolveBegins, Begin
<1>35. CASE HeartbeatBegins(t)
  BY <1>35 DEF HeartbeatBegins, Begin
<1> HIDE DEF runner
<1> QED
  BY <1>1, <1>2, <1>3, <1>4, <1>5, <1>6, <1>7, <1>8, <1>9, <1>10, <1>11,
     <1>12, <1>13, <1>14, <1>15, <1>16, <1>17, <1>18, <1>19, <1>20, <1>21,
     <1>22, <1>23, <1>24, <1>25, <1>26, <1>27, <1>28, <1>29, <1>30, <1>31,
     <1>32, <1>33, <1>34, <1>35 DEF Works, Step, Faults, Comes, Starts,
     Commands

(* Who asks for "merged" will do the done flow, or asks in vain.           *)
LEMMA MergingStep ==
    ASSUME Finishing, OwnMerges, NEW t \in Threads, Works(t) \/ Comes(t)
    PROVE  Merging(t)'
<1>t. TypeOK /\ Stage(t) /\ Merging(t)
  BY DEF Finishing, Staged, Solo
<1>u. /\ \A label : Goto(t, label) => pc'[t] = label
      /\ \A to, by : Ask(t, to, by) => want'[t].to = to /\ want'[t].by = by
                                     /\ (to # "none" => want'[t] # Nothing)
  BY <1>t, Updates
<1>n. Nothing.to = "none"
  BY DEF Nothing
<1>b. "merged" \notin Blocked
  BY DEF Blocked
<1>k. JobOf[t] # "resolve"
  BY DEF OwnMerges, HasJob
<1> USE DEF Merging, At, keys, control
<1>1. CASE Consult(t)
  BY <1>t, <1>1 DEF Consult, runner
<1>2. CASE Commit(t)
  <2>1. want'[t] = Nothing
    BY <1>t, <1>2 DEF Commit, TypeOK
  <2> QED
    BY <1>n, <2>1
<1>3. CASE Decide(t)
  <2>1. CASE UNCHANGED want
    BY <1>n, <1>3, <2>1 DEF Decide
  <2>2. CASE Ask(t, mergeStatus, "inline-merge") /\ mergeStatus \in TERMINAL
    <3>1. mergeStatus = "merged" => doneTried
      BY <1>3 DEF Decide, Finishing, Undone, Busy
    <3>2. "none" \notin TERMINAL
      BY DEF TERMINAL
    <3> QED
      BY <1>u, <1>3, <2>2, <3>1, <3>2 DEF Decide, runner
  <2> QED
    BY <1>3, <2>1, <2>2 DEF Decide, Kept
<1>4. CASE Inline(t)
  BY <1>t, <1>u, <1>n, <1>b, <1>4 DEF Inline
<1>5. CASE Preserve(t)
  BY <1>t, <1>u, <1>n, <1>b, <1>5 DEF Preserve
<1>6. CASE Queueing(t)
  BY <1>t, <1>u, <1>n, <1>b, <1>6 DEF Queueing
<1>7. CASE Acquire(t)
  BY <1>t, <1>u, <1>n, <1>b, <1>7 DEF Acquire, End
<1>8. CASE Gate(t)
  BY <1>t, <1>u, <1>n, <1>b, <1>8 DEF Gate
<1>9. CASE Gated(t)
  BY <1>t, <1>u, <1>n, <1>b, <1>9 DEF Gated
<1>10. CASE PostMerge(t)
  BY <1>t, <1>u, <1>n, <1>b, <1>10 DEF PostMerge, Merged, Fails, TestsFail,
     Conflicts, NeedsApproval, End
<1>11. CASE Landing(t)
  BY <1>t, <1>u, <1>n, <1>b, <1>11 DEF Landing, Land, End
<1>12. CASE Fixing(t)
  BY <1>t, <1>u, <1>n, <1>b, <1>12 DEF Fixing, Land, End
<1>13. CASE Mending(t)
  BY <1>t, <1>u, <1>n, <1>b, <1>13 DEF Mending, Land, End
<1>14. CASE Repairing(t)
  <2>1. CASE landed' = TRUE /\ End(t, "merged")
    <3>1. mergeStatus = "error" /\ 1 \in ExitCodes /\ JobOf[t] # "approved"
      BY <1>t, <1>14 DEF Repairing, Stage, Aims, OwnMerges, HasJob
    <3>2. ActionOf(t) \in {"inline-merge", "retry-merge"}
      BY <3>1 DEF ActionOf
    <3>3. want'[t].to = "merged" /\ want'[t].by = ActionOf(t) /\ want'[t] # Nothing
      BY <1>u, <2>1 DEF End
    <3> QED
      BY <1>14, <3>1, <3>2, <3>3 DEF Repairing
  <2>2. CASE UNCHANGED want
    BY <1>n, <1>14, <2>2 DEF Repairing
  <2> QED
    BY <1>14, <2>1, <2>2 DEF Repairing
<1>15. CASE DoneSucceeds(t)
  BY <1>t, <1>u, <1>n, <1>b, <1>15 DEF DoneSucceeds
<1>16. CASE Conclude(t)
  BY <1>t, <1>u, <1>n, <1>b, <1>16 DEF Conclude
<1>17. CASE Guard(t)
  BY <1>t, <1>u, <1>n, <1>b, <1>17 DEF Guard
<1>18. CASE Cleanup(t)
  BY <1>t, <1>u, <1>n, <1>b, <1>18 DEF Cleanup
<1>19. CASE Retire(t)
  BY <1>t, <1>u, <1>n, <1>b, <1>19 DEF Retire
<1>20. CASE Settle(t)
  BY <1>t, <1>u, <1>n, <1>b, <1>20 DEF Settle
<1>21. CASE ForceEnd(t)
  BY <1>t, <1>u, <1>n, <1>b, <1>21 DEF ForceEnd
<1>22. CASE Fallback(t)
  BY <1>t, <1>u, <1>n, <1>b, <1>22 DEF Fallback
<1>23. CASE Recover(t)
  BY <1>t, <1>u, <1>n, <1>b, <1>23 DEF Recover
<1>24. CASE Resolver(t)
  BY <1>t, <1>k, <1>24 DEF Resolver, Stage
<1>25. CASE DoneFails(t)
  BY <1>t, <1>u, <1>n, <1>b, <1>25 DEF DoneFails, End
<1>26. CASE Raises(t)
  BY <1>t, <1>u, <1>n, <1>b, <1>26 DEF Raises, End
<1>27. CASE ResolverRaises(t)
  BY <1>t, <1>u, <1>n, <1>b, <1>27 DEF ResolverRaises
<1>28. CASE FallbackFails(t)
  BY <1>t, <1>u, <1>n, <1>b, <1>28 DEF FallbackFails
<1>29. CASE StreamBegins(t)
  BY <1>t, <1>u, <1>n, <1>b, <1>29 DEF StreamBegins, Begin
<1>30. CASE MonitorBegins(t)
  BY <1>t, <1>u, <1>n, <1>b, <1>30 DEF MonitorBegins, Begin
<1>31. CASE Restart(t)
  <2>1. UNCHANGED <<mergeStatus, doneTried>> /\ pc[t] = "idle" /\ want[t] = Nothing
    BY <1>t, <1>31, ComesAlone DEF Restart, Comes, Starts, Finishing, Staged,
       OwnMerges, Idle
  <2>2. want'[t].to # "merged"
    BY <1>u, <1>n, <1>31, <2>1 DEF Restart, Attach, Reconnect, Unreadable,
       Mistaken
  <2> QED
    BY <2>2
<1>32. CASE RetryBegins(t)
  BY <1>t, <1>u, <1>n, <1>b, <1>32 DEF RetryBegins, Begin
<1>33. CASE DirectBegins(t)
  BY <1>t, <1>u, <1>n, <1>b, <1>33 DEF DirectBegins, Begin
<1>34. CASE ResolveBegins(t)
  BY <1>t, <1>u, <1>n, <1>b, <1>34 DEF ResolveBegins, Begin
<1>35. CASE HeartbeatBegins(t)
  BY <1>t, <1>u, <1>n, <1>b, <1>35 DEF HeartbeatBegins, Begin
<1> HIDE DEF Merging, At, keys, control
<1> QED
  BY <1>1, <1>2, <1>3, <1>4, <1>5, <1>6, <1>7, <1>8, <1>9, <1>10, <1>11,
     <1>12, <1>13, <1>14, <1>15, <1>16, <1>17, <1>18, <1>19, <1>20, <1>21,
     <1>22, <1>23, <1>24, <1>25, <1>26, <1>27, <1>28, <1>29, <1>30, <1>31,
     <1>32, <1>33, <1>34, <1>35 DEF Works, Step, Faults, Comes, Starts,
     Commands

(* The done flow is not forgotten.                                         *)
LEMMA DoneKept ==
    ASSUME NEW t \in Threads, Works(t) \/ Comes(t), ~doneTried'
    PROVE  ~doneTried
<1> USE DEF runner
<1>1. CASE Consult(t)
  BY <1>1 DEF Consult
<1>2. CASE Commit(t)
  BY <1>2 DEF Commit
<1>3. CASE Decide(t)
  BY <1>3 DEF Decide
<1>4. CASE Inline(t)
  BY <1>4 DEF Inline
<1>5. CASE Preserve(t)
  BY <1>5 DEF Preserve
<1>6. CASE Queueing(t)
  BY <1>6 DEF Queueing
<1>7. CASE Acquire(t)
  BY <1>7 DEF Acquire, End
<1>8. CASE Gate(t)
  BY <1>8 DEF Gate
<1>9. CASE Gated(t)
  BY <1>9 DEF Gated
<1>10. CASE PostMerge(t)
  BY <1>10 DEF PostMerge, Merged, Fails, TestsFail, Conflicts, NeedsApproval,
     End
<1>11. CASE Landing(t)
  BY <1>11 DEF Landing, Land, End
<1>12. CASE Fixing(t)
  BY <1>12 DEF Fixing, Land, End
<1>13. CASE Mending(t)
  BY <1>13 DEF Mending, Land, End
<1>14. CASE Repairing(t)
  BY <1>14 DEF Repairing, End
<1>15. CASE DoneSucceeds(t)
  BY <1>15 DEF DoneSucceeds
<1>16. CASE Conclude(t)
  BY <1>16 DEF Conclude
<1>17. CASE Guard(t)
  BY <1>17 DEF Guard
<1>18. CASE Cleanup(t)
  BY <1>18 DEF Cleanup
<1>19. CASE Retire(t)
  BY <1>19 DEF Retire
<1>20. CASE Settle(t)
  BY <1>20 DEF Settle
<1>21. CASE ForceEnd(t)
  BY <1>21 DEF ForceEnd
<1>22. CASE Fallback(t)
  BY <1>22 DEF Fallback
<1>23. CASE Recover(t)
  BY <1>23 DEF Recover
<1>24. CASE Resolver(t)
  BY <1>24 DEF Resolver
<1>25. CASE DoneFails(t)
  BY <1>25 DEF DoneFails, End
<1>26. CASE Raises(t)
  BY <1>26 DEF Raises, End
<1>27. CASE ResolverRaises(t)
  BY <1>27 DEF ResolverRaises
<1>28. CASE FallbackFails(t)
  BY <1>28 DEF FallbackFails
<1>29. CASE StreamBegins(t)
  BY <1>29 DEF StreamBegins, Begin
<1>30. CASE MonitorBegins(t)
  BY <1>30 DEF MonitorBegins, Begin
<1>31. CASE Restart(t)
  BY <1>31 DEF Restart, Attach, Reconnect, Unreadable, Mistaken
<1>32. CASE RetryBegins(t)
  BY <1>32 DEF RetryBegins, Begin
<1>33. CASE DirectBegins(t)
  BY <1>33 DEF DirectBegins, Begin
<1>34. CASE ResolveBegins(t)
  BY <1>34 DEF ResolveBegins, Begin
<1>35. CASE HeartbeatBegins(t)
  BY <1>35 DEF HeartbeatBegins, Begin
<1> HIDE DEF runner
<1> QED
  BY <1>1, <1>2, <1>3, <1>4, <1>5, <1>6, <1>7, <1>8, <1>9, <1>10, <1>11,
     <1>12, <1>13, <1>14, <1>15, <1>16, <1>17, <1>18, <1>19, <1>20, <1>21,
     <1>22, <1>23, <1>24, <1>25, <1>26, <1>27, <1>28, <1>29, <1>30, <1>31,
     <1>32, <1>33, <1>34, <1>35 DEF Works, Step, Faults, Comes, Starts,
     Commands

(* A merge whose done flow is still to come stays so: the thread at it     *)
(* does the done flow, and a restart goes on with it.                      *)
LEMMA UndoneStep ==
    ASSUME Finishing, OwnMerges, NEW t \in Threads, Works(t) \/ Comes(t),
           mergeStatus = "merged", ~doneTried, mergeStatus' = "merged", ~doneTried'
    PROVE  Undone'
<1>t. /\ TypeOK /\ Solo /\ Staged /\ OneByOne /\ SafeToCrash /\ Stage(t) /\ landed
      /\ "crash" \in FaultKinds => registered = "running"
      /\ Idle => "crash" \in FaultKinds /\ tracking = "none"
      /\ Busy(t) => /\ want[t] = Nothing
                    /\ pc[t] = "done" \/ (pc[t] = "fallback" /\ JobOf[t] # "stream")
  BY DEF Finishing, Undone, Staged, Solo, OwnMerges
<1>o. \A u \in Threads \ {t} : ~Busy(u)'
  BY <1>t, OthersIdle
<1>1. CASE Works(t)
  <2>1. Busy(t)
    BY <1>t, <1>1, WorksDoes
  <2>2. CASE pc[t] = "done"
    <3>1. DoneSucceeds(t) \/ DoneFails(t)
      BY <1>t, <1>1, <2>1, <2>2 DEF Works, Step, Faults, At, Consult, Commit,
         Decide,
         Inline, Preserve, Queueing, Acquire, Gate, Gated, PostMerge, Landing, Fixing,
         Mending, Repairing, Conclude, Guard, Cleanup, Retire, Settle, ForceEnd,
         Fallback, Recover, Resolver, Raises, ResolverRaises, FallbackFails
    <3> QED
      BY <3>1 DEF DoneSucceeds, DoneFails
  <2>3. CASE pc[t] = "fallback" /\ JobOf[t] # "stream"
    <3>1. Fallback(t) \/ FallbackFails(t)
      BY <1>t, <1>1, <2>1, <2>3 DEF Works, Step, Faults, At, Consult, Commit,
         Decide,
         Inline, Preserve, Queueing, Acquire, Gate, Gated, PostMerge, Landing, Fixing,
         Mending, Repairing, Conclude, Guard, Cleanup, Retire, Settle, ForceEnd,
         DoneSucceeds, DoneFails, Recover, Resolver, Raises, ResolverRaises
    <3> QED
      BY <1>t, <2>3, <3>1 DEF Fallback, FallbackFails, Kept
  <2> QED
    BY <1>t, <2>1, <2>2, <2>3
<1>2. CASE Comes(t)
  <2>1. Idle
    BY <1>t, <1>2, ComesAlone
  <2>2. "crash" \in FaultKinds /\ tracking = "none" /\ registered = "running"
    BY <1>t, <2>1
  <2>3. JobOf[t] \notin {"retry", "approved", "resolve"} /\ ~Fault("pid")
    BY <1>t, <2>2 DEF SafeToCrash, HasJob, Fault
  <2>4. process = "exited"
    BY <1>t DEF Solo, Running, TypeOK
  <2>5. ~StreamBegins(t)
    <3> SUFFICES ASSUME StreamBegins(t) PROVE FALSE
      OBVIOUS
    <3>1. outcome # "none" /\ JobOf[t] = "stream" /\ jobs[t] = 0 /\ MaxJobs # 0
      BY DEF StreamBegins, Begin
    <3> QED
      BY <1>t, <2>2, <3>1 DEF Solo, Attended, Fresh
  <2>6. Restart(t)
    BY <1>2, <2>2, <2>3, <2>5 DEF Comes, Starts, Commands, MonitorBegins,
       RetryBegins,
       DirectBegins, ResolveBegins, HeartbeatBegins, Begin, keys
  <2>7. Reconnect(t)
    BY <2>3, <2>4, <2>6 DEF Restart, Attach, Unreadable, Mistaken
  <2>8. /\ UNCHANGED <<tracking, landed, registered>> /\ JobOf[t] = "recover"
        /\ UNCHANGED <<pc, want>> \/ (Goto(t, "fallback") /\ UNCHANGED want)
    BY <2>6, <2>7 DEF Restart, Reconnect
  <2>9. Busy(t)' => want'[t] = Nothing /\ pc'[t] = "fallback"
    BY <1>t, <2>1, <2>8, Updates DEF Idle, Busy
  <2> QED
    BY <1>t, <1>o, <2>2, <2>8, <2>9 DEF Undone
<1> QED
  BY <1>1, <1>2

(* What a step of the system leaves behind.                                *)
LEMMA QuietStep ==
    ASSUME Quiet, FollowedUp, [Next]_vars
    PROVE  Quiet'
<1>t. /\ TypeOK /\ Solo /\ Staged /\ OneByOne /\ SafeToCrash /\ Listed
      /\ Unregistered /\ Rested /\ Dormant /\ Resumable /\ Attended
      /\ "crash" \in FaultKinds => 2 \notin ExitCodes
  BY DEF Quiet, Staged, Solo, FollowedUp
<1>0. Staged'
  BY <1>t, StagedStep
<1>n. Nothing.to = "none" /\ "none" \notin Unresumed /\ Unresumed \subseteq ACTIVE
  BY DEF Nothing, Unresumed, ACTIVE
<1>a. "none" \notin ACTIVE /\ "approval_required" \notin ACTIVE
  BY DEF ACTIVE
<1>1. ASSUME NEW t \in Threads, Works(t) \/ Comes(t) PROVE Quiet'
  <2>1. Settled(t)'
    BY <1>1, SettledStep
  <2>2. \A u \in Threads \ {t} : ~Busy(u)' /\ pc'[u] = "idle" /\ want'[u] = Nothing
    BY <1>t, <1>1, OthersIdle DEF Busy
  <2>3. Unregistered'
    BY <1>t, <1>1, <2>2, UnregisteredStep DEF Unregistered, Past
  <2>4. Listed'
    <3>1. tracking' # "stream"
      BY <1>t, <1>1, WorksDoes, ComesAlone DEF Attended, Busy, Idle
    <3> QED
      BY <3>1 DEF Listed
  <2>5. Rested'
    BY <2>1 DEF Rested, Settled, Late, Idle
  <2>7. Dormant'
    <3> SUFFICES ASSUME "crash" \in FaultKinds, registered' = "stopped"
                 PROVE  mergeStatus' \notin ACTIVE
      BY DEF Dormant
    <3>1. Busy(t) => Settled(t)
      BY DEF Quiet
    <3>2. CASE Commit(t)
      <4>1. /\ registered = "stopped" /\ want[t] # Nothing
            /\ mergeStatus' \in {want[t].to, mergeStatus}
        BY <3>2 DEF Commit, runner
      <4>2. pc[t] \in Past
        BY <1>t, <4>1 DEF Unregistered
      <4> QED
        BY <1>t, <3>1, <4>1, <4>2 DEF Dormant, Settled, Busy, Past, Late
    <3>3. CASE Retire(t)
      <4>1. pc[t] \in {"keep", "retire"} /\ want[t] = Nothing
            /\ mergeStatus' \in {mergeStatus, "none"}
        BY <3>3 DEF Retire, At
      <4> QED
        BY <1>a, <3>1, <4>1 DEF Settled, Busy, Late
    <3>4. CASE ~Commit(t) /\ ~Retire(t)
      <4>1. mergeStatus' \in {mergeStatus, "approval_required"}
        BY <1>t, <1>1, <3>4, StatusKept DEF NeedsApproval
      <4>2. registered = "stopped"
        BY <1>1, <3>4, RegisteredKept
      <4> QED
        BY <1>t, <1>a, <4>1, <4>2 DEF Dormant
    <3> QED
      BY <3>2, <3>3, <3>4
  <2>6. Resumable'
    <3>1. listener' = "down" => listener = "down"
      BY <1>t, <1>1, WorksDoes, ComesDoes
    <3>2. CASE "crash" \notin FaultKinds
      BY <1>t, <3>1, <3>2 DEF Resumable
    <3>3. CASE "crash" \in FaultKinds
      <4>1. want'[t].to \notin Unresumed
        BY <1>t, <1>1, <3>3, ResumableStep
      <4>2. mergeStatus' \notin Unresumed
        <5>1. Commit(t) => mergeStatus' \in {want[t].to, mergeStatus}
          BY DEF Commit
        <5>2. At(t, "postmerge") /\ NeedsApproval(t) => mergeStatus' = "approval_required"
          BY DEF NeedsApproval
        <5> QED
          BY <1>t, <1>n, <1>a, <1>1, <3>3, <5>1, <5>2, StatusKept DEF Resumable
      <4> QED
        BY <1>n, <2>2, <3>3, <4>1, <4>2 DEF Resumable
    <3> QED
      BY <3>2, <3>3
  <2> QED
    BY <1>0, <2>1, <2>2, <2>3, <2>4, <2>5, <2>6, <2>7 DEF Quiet
<1>2. ASSUME NEW t \in Threads, Poll(t) PROVE Quiet'
  <2>1. /\ UNCHANGED <<tracking, listener, pc, want, accepted>>
        /\ mergeStatus' \in {mergeStatus, "none"}
        /\ HasJob("poll") /\ "crash" \notin FaultKinds
    BY <1>t, <1>2 DEF Poll, control, HasJob, SafeToCrash
  <2>2. Unregistered' /\ Dormant' /\ Resumable'
    BY <1>t, <2>1 DEF Unregistered, Dormant, Resumable
  <2>3. Listed'
    BY <2>1 DEF Listed, HasJob
  <2>4. Rested'
    BY <1>t, <1>a, <2>1 DEF Rested, Idle
  <2>5. \A u \in Threads : Busy(u)' => Settled(u)'
    BY <1>a, <2>1 DEF Quiet, Settled, Busy
  <2> QED
    BY <1>0, <2>2, <2>3, <2>4, <2>5 DEF Quiet
<1>3. CASE ProcessExits
  <2>1. /\ UNCHANGED <<registered, tracking, listener, pc, want, accepted>>
        /\ process = "running" /\ mergeStatus' \notin ACTIVE
    BY <1>3 DEF ProcessExits, control, FollowedUp
  <2>2. \A u \in Threads : want[u] = Nothing /\ pc[u] \in {"idle", "cleanup", "retire"}
    BY <1>t, <2>1 DEF Solo, Running
  <2>3. Unregistered' /\ Listed' /\ Rested' /\ Dormant' /\ Resumable'
    BY <1>t, <1>n, <2>1 DEF Unregistered, Listed, Rested, Dormant, Resumable,
       HasJob
  <2>4. \A u \in Threads : Settled(u)'
    BY <2>1, <2>2 DEF Settled
  <2> QED
    BY <1>0, <2>3, <2>4 DEF Quiet
<1>4. CASE ListenerDies
  <2>1. /\ UNCHANGED <<mergeStatus, registered>> /\ tracking' = "none"
        /\ \A u \in Threads : pc'[u] = "idle" /\ want'[u] = Nothing
        /\ "crash" \in FaultKinds /\ listener = "up" /\ listener' = "down"
    BY <1>4 DEF ListenerDies, keys, Fault
  <2>2. Unregistered' /\ Listed' /\ Rested' /\ Dormant' /\ Resumable'
    BY <1>t, <1>n, <2>1 DEF Unregistered, Past, Listed, Rested, Dormant,
       Resumable
  <2> QED
    BY <1>0, <2>1, <2>2 DEF Quiet, Busy
<1>5. CASE UNCHANGED vars
  BY <1>0, <1>5 DEF Quiet, Unregistered, Listed, Rested, Dormant, Resumable,
     Settled, Busy, Idle,
     vars, keys, runner, control
<1> QED
  BY <1>1, <1>2, <1>3, <1>4, <1>5 DEF Next, Finished, Works, Comes

(* What a step of the system does to a merge that is to be finished.       *)
LEMMA FinishingStep ==
    ASSUME Finishing, OwnMerges, [Next]_vars
    PROVE  Finishing'
<1>t. /\ TypeOK /\ Solo /\ Staged /\ OneByOne /\ SafeToCrash /\ Listed
      /\ Unregistered /\ Undone /\ Attended /\ Running
      /\ "merged" \notin ExitStatuses /\ "merged" # "none"
      /\ 1 \in ExitCodes => Deleted = {}
  BY DEF Finishing, Staged, Solo, OwnMerges
<1>0. Staged'
  BY <1>t, StagedStep
<1>n. Nothing.to = "none"
  BY DEF Nothing
<1>1. ASSUME NEW t \in Threads, Works(t) \/ Comes(t) PROVE Finishing'
  <2>1. Merging(t)'
    BY <1>1, MergingStep
  <2>2. \A u \in Threads \ {t} : ~Busy(u)' /\ pc'[u] = "idle" /\ want'[u] = Nothing
    BY <1>t, <1>1, OthersIdle DEF Busy
  <2>3. Unregistered'
    BY <1>t, <1>1, <2>2, UnregisteredStep DEF Unregistered, Past
  <2>4. Listed'
    <3>1. tracking' # "stream"
      BY <1>t, <1>1, WorksDoes, ComesAlone DEF Attended, Busy, Idle
    <3> QED
      BY <3>1 DEF Listed
  <2>5. Undone'
    <3> SUFFICES ASSUME mergeStatus' = "merged", ~doneTried' PROVE Undone'
      BY DEF Undone
    <3>0. ~doneTried
      BY <1>1, DoneKept
    <3>1. CASE mergeStatus = "merged"
      BY <1>1, <1>t, <3>0, <3>1, UndoneStep DEF Finishing, Undone
    <3>2. CASE mergeStatus # "merged"
      <4>1. Commit(t)
        BY <1>t, <1>1, <3>2, StatusKept DEF NeedsApproval
      <4>2. /\ want[t] # Nothing /\ want'[t] = Nothing /\ pc' = pc
            /\ want[t].to = "merged"
            /\ \/ mergeStatus \in Deleted \cup {"none", want[t].to}
               \/ mergeStatus \notin TERMINAL
               \/ mergeStatus \in Overridable(want[t].by)
        BY <3>2, <4>1, CommitDoes DEF Finishing, Staged
      <4>3. ~(/\ mergeStatus = "error" /\ 1 \in ExitCodes
              /\ want[t].by \in {"inline-merge", "retry-merge"})
        BY <1>t, <3>2, <4>2 DEF Overridable, TERMINAL
      <4>4. pc[t] = "done" /\ landed
        BY <3>0, <4>2, <4>3 DEF Finishing, Merging
      <4>5. UNCHANGED <<landed, registered>>
        BY <4>1 DEF Commit, runner
      <4>6. "crash" \in FaultKinds => registered # "stopped"
        BY <1>t, <4>4 DEF Unregistered, Past
      <4>7. ~Idle'
        BY <4>2, <4>4 DEF Idle
      <4> QED
        BY <1>t, <2>2, <4>2, <4>4, <4>5, <4>6, <4>7 DEF Undone, TypeOK
    <3> QED
      BY <3>1, <3>2
  <2> QED
    BY <1>0, <1>n, <2>1, <2>2, <2>3, <2>4, <2>5 DEF Finishing, Merging
<1>2. ASSUME NEW t \in Threads, Poll(t) PROVE Finishing'
  <2>1. /\ UNCHANGED <<tracking, pc, want, landed, doneTried>>
        /\ mergeStatus' = mergeStatus \/ (mergeStatus' = "none" /\ ~Visible)
        /\ HasJob("poll") /\ "crash" \notin FaultKinds
    BY <1>t, <1>2 DEF Poll, control, HasJob, SafeToCrash
  <2>5. 1 \in ExitCodes => mergeStatus' = mergeStatus
    BY <1>t, <2>1 DEF Deleted
  <2>2. Unregistered' /\ Listed'
    BY <1>t, <2>1 DEF Unregistered, Listed, HasJob
  <2>3. Undone'
    BY <1>t, <2>1 DEF Undone, Idle, Busy
  <2>4. \A u \in Threads : Merging(u)'
    BY <2>1, <2>5 DEF Finishing, Merging
  <2> QED
    BY <1>0, <2>2, <2>3, <2>4 DEF Finishing
<1>3. CASE ProcessExits
  <2>1. /\ UNCHANGED <<registered, tracking, pc, want>>
        /\ process = "running" /\ mergeStatus' # "merged"
    BY <1>3, <1>t DEF ProcessExits, control
  <2>2. \A u \in Threads : want'[u] = Nothing
    BY <1>t, <2>1 DEF Running
  <2>3. Unregistered' /\ Listed' /\ Undone'
    BY <1>t, <2>1 DEF Unregistered, Listed, Undone, HasJob
  <2> QED
    BY <1>0, <1>n, <2>2, <2>3 DEF Finishing, Merging
<1>4. CASE ListenerDies
  <2>1. /\ UNCHANGED <<mergeStatus, registered, landed, doneTried>> /\ tracking' = "none"
        /\ \A u \in Threads : pc'[u] = "idle" /\ want'[u] = Nothing
        /\ "crash" \in FaultKinds
    BY <1>4 DEF ListenerDies, keys, Fault
  <2>2. Unregistered' /\ Listed'
    BY <2>1 DEF Unregistered, Past, Listed
  <2>3. Undone'
    BY <1>t, <2>1 DEF Undone, Busy
  <2> QED
    BY <1>0, <1>n, <2>1, <2>2, <2>3 DEF Finishing, Merging
<1>5. CASE UNCHANGED vars
  BY <1>0, <1>5 DEF Finishing, Unregistered, Listed, Undone, Merging, Busy,
     Idle,
     vars, keys, runner, control
<1> QED
  BY <1>1, <1>2, <1>3, <1>4, <1>5 DEF Next, Finished, Works, Comes
-----------------------------------------------------------------------------
(* The theorems.                                                           *)

(* Every variable keeps its type: labels, statuses and actions that the    *)
(* code knows, whoever runs beside whom.                                   *)
THEOREM TypeCorrect == Spec => []TypeOK
<1> QED
  BY TypesInit, TypesStep, PTL DEF Spec

(* When users wait for the runner to stop, its jobs are one at a time, and *)
(* merge_status is what the thread at work has last written.               *)
THEOREM StagedInvariant ==
    ASSUME OneByOne
    PROVE  Spec => []Staged
<1>1. Init => Staged
  BY StagedInit
<1>2. Staged /\ [Next]_vars => Staged'
  BY StagedStep
<1> QED
  BY <1>1, <1>2, PTL DEF Spec

(* "merged" and "residue_blocked" are replaced by nobody, through crashes, *)
(* restarts, retries and failures: they stay, or are deleted with the keys *)
(* of a runner that nobody sees.                                           *)
THEOREM OutcomesStay ==
    ASSUME OneByOne
    PROVE  Spec => OutcomeStays
<1>1. ASSUME Staged, [Next]_vars, mergeStatus \in TERMINAL \ RETRYABLE
      PROVE  mergeStatus' = mergeStatus \/ (mergeStatus' = "none" /\ ~Visible)
  <2>1. ASSUME NEW t \in Threads, Works(t) \/ Comes(t)
        PROVE  mergeStatus' = mergeStatus \/ (mergeStatus' = "none" /\ ~Visible)
    BY <1>1, <2>1, FinalKept
  <2>2. ASSUME NEW t \in Threads, Poll(t)
        PROVE  mergeStatus' = mergeStatus \/ (mergeStatus' = "none" /\ ~Visible)
    BY <2>2 DEF Poll
  <2>3. CASE ProcessExits
    BY <1>1, <2>3 DEF ProcessExits, Staged, Solo, Running, TERMINAL
  <2>4. CASE ListenerDies \/ UNCHANGED vars
    BY <2>4 DEF ListenerDies, vars, keys
  <2> QED
    BY <1>1, <2>1, <2>2, <2>3, <2>4 DEF Next, Finished, Works, Comes
<1>2. Spec => []Staged
  BY StagedInvariant
<1> QED
  BY <1>1, <1>2, PTL DEF Spec, OutcomeStays

(* What a merge reports, to its history and to its user, is the status of  *)
(* the runner, in every case the code can keep to it.                      *)
THEOREM ReportsAreTrue ==
    ASSUME OneByOne, Plain
    PROVE  Spec => []ResultMatchesStatus
<1>1. Init => Reported
  <2> SUFFICES ASSUME Init PROVE Reported
    OBVIOUS
  <2>1. \A t \in Threads : pc[t] = "idle"
    BY DEF Init
  <2> QED
    BY <2>1, StagedInit DEF Reported, Reports
<1>2. Reported /\ [Next]_vars => Reported'
  BY ReportedStep
<1>3. Reported => ResultMatchesStatus
  BY DEF Reported, Reports, ResultMatchesStatus, At
<1> QED
  BY <1>1, <1>2, <1>3, PTL DEF Spec

(* A merge that waits for an approval goes on waiting until a user has     *)
(* approved it: no crash, restart, failure, other command or late cleanup  *)
(* takes the approval away.                                                *)
THEOREM ApprovalsHold ==
    ASSUME Heedful
    PROVE  Spec => ApprovalHeld
<1>1. Init => Heeded
  <2> SUFFICES ASSUME Init PROVE Heeded
    OBVIOUS
  <2>1. Staged
    BY StagedInit DEF Heedful
  <2> QED
    BY <2>1 DEF Init, Heeded, Monitored, RunningUnseen, Listed, ScopeKept,
       Heeds, Idle,
       APPROVAL
<1>2. Heeded /\ [Next]_vars => Heeded'
  BY HeededStep
<1>3. ASSUME Heeded, [Next]_vars, mergeStatus \in APPROVAL, mergeStatus' # mergeStatus
      PROVE  \E t \in Threads : JobOf[t] = "approved" /\ want[t] # want'[t]
  <2>0. /\ Staged /\ Solo /\ TypeOK /\ Deleted = {} /\ (HasJob("poll") => Visible)
        /\ mergeStatus \in TERMINAL /\ mergeStatus \notin ACTIVE \cup {"none", "merging"}
    BY <1>3 DEF Heeded, Staged, Solo, Heedful, Deleted, APPROVAL, TERMINAL,
       ACTIVE
  <2>1. ASSUME NEW t \in Threads, Works(t) \/ Comes(t)
        PROVE  JobOf[t] = "approved" /\ want[t] # want'[t]
    <3>1. Heeds(t) /\ Stage(t)
      BY <1>3 DEF Heeded, Staged
    <3>2. CASE Commit(t)
      <4>1. /\ want[t] # Nothing /\ want'[t] = Nothing
            /\ mergeStatus \in Overridable(want[t].by)
        BY <1>3, <2>0, <3>2, CommitDoes DEF Staged
      <4>2. want[t].by = "approved-retry"
        BY <1>3, <3>1, <4>1 DEF Overridable, Stage, Actions
      <4> QED
        BY <1>3, <3>1, <4>1, <4>2 DEF Heeds
    <3>3. ~At(t, "postmerge")
      BY <2>0, <3>1 DEF Stage, Aims, At
    <3>4. ~(At(t, "retire") /\ ~Visible)
      BY <1>3, <3>1 DEF Heeds, At
    <3> QED
      BY <1>3, <2>0, <2>1, <3>2, <3>3, <3>4, StatusKept
  <2>2. \A t \in Threads : ~Poll(t)
    BY <1>3, <2>0 DEF Poll, HasJob
  <2>3. ~ProcessExits
    BY <2>0 DEF ProcessExits, Solo, Running
  <2>4. ~ListenerDies /\ ~UNCHANGED vars
    BY <1>3 DEF ListenerDies, vars, keys
  <2> QED
    BY <1>3, <2>1, <2>2, <2>3, <2>4 DEF Next, Finished, Works, Comes
<1> QED
  BY <1>1, <1>2, <1>3, PTL DEF Spec, ApprovalHeld

(* As long as merge_status says that a merge is going on, somebody is at   *)
(* it: through refusals, exceptions, commands, and crashes of the listener *)
(* that a restart knows how to go on after.                                *)
THEOREM ActiveAttended ==
    ASSUME FollowedUp
    PROVE  Spec => []ActiveIsAttended
<1>1. Init => Quiet
  <2> SUFFICES ASSUME Init PROVE Quiet
    OBVIOUS
  <2>1. Staged
    BY StagedInit DEF FollowedUp
  <2>2. "none" \notin ACTIVE \cup Unresumed
    BY DEF ACTIVE, Unresumed
  <2> QED
    BY <2>1, <2>2 DEF Init, Quiet, Listed, Unregistered, Past, Rested,
       Dormant, Resumable,
       Busy, Nothing
<1>2. Quiet /\ [Next]_vars => Quiet'
  BY QuietStep
<1>3. Quiet => ActiveIsAttended
  BY DEF Quiet, Rested, ActiveIsAttended
<1> QED
  BY <1>1, <1>2, <1>3, PTL DEF Spec

(* A runner that has stopped as merged has had its plan's done flow, also  *)
(* when the listener died between the two and a restart had to notice.     *)
THEOREM MergedPlansAreDone ==
    ASSUME OwnMerges
    PROVE  Spec => []MergedPlanIsDone
<1>1. Init => Finishing
  <2> SUFFICES ASSUME Init PROVE Finishing
    OBVIOUS
  <2>1. Staged
    BY StagedInit DEF OwnMerges
  <2> QED
    BY <2>1 DEF Init, Finishing, Listed, Unregistered, Past, Undone, Merging,
       Nothing
<1>2. Finishing /\ [Next]_vars => Finishing'
  BY FinishingStep
<1>3. Finishing => MergedPlanIsDone
  BY DEF Finishing, Undone, MergedPlanIsDone
<1> QED
  BY <1>1, <1>2, <1>3, PTL DEF Spec

=============================================================================

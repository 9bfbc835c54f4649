------------------------- MODULE MergeQueue_proofs -------------------------
(***************************************************************************)
(* Theorems about MergeQueue, for every set of threads and runners, every  *)
(* assignment of jobs and every bound.                                     *)
(***************************************************************************)
EXTENDS MergeQueue, SequenceTheorems, TLAPS

-----------------------------------------------------------------------------
(* RemoveFirst on a sequence without repetitions.                          *)

(* The entry is taken out at the one place where it is.                    *)
LEMMA RemoveFirstIsRemoveAt ==
    ASSUME NEW S, NEW s \in Seq(S), Once(s), NEW i \in 1..Len(s)
    PROVE  RemoveFirst(s, s[i]) = RemoveAt(s, i)
<1> DEFINE I == {j \in 1..Len(s) : s[j] = s[i]}
<1>1. I = {i}
  BY DEF Once
<1>2. Min({i}) = i
  BY DEF Min
<1>3. SelectInSeq(s, LAMBDA v : v = s[i]) = i
  BY <1>1, <1>2 DEF SelectInSeq
<1> QED
  BY <1>3 DEF RemoveFirst

(* What removing one element does to the other positions.                  *)
LEMMA RemoveAtFacts ==
    ASSUME NEW S, NEW s \in Seq(S), NEW i \in 1..Len(s)
    PROVE  /\ RemoveAt(s, i) \in Seq(S)
           /\ Len(RemoveAt(s, i)) = Len(s) - 1
           /\ \A j \in 1..Len(s) - 1 :
                 RemoveAt(s, i)[j] = IF j < i THEN s[j] ELSE s[j + 1]
<1> DEFINE u == SubSeq(s, 1, i - 1)
           v == SubSeq(s, i + 1, Len(s))
<1>1. /\ u \in Seq(S)
      /\ Len(u) = i - 1
      /\ \A j \in 1..i - 1 : u[j] = s[j]
  BY SubSeqProperties
<1>2. /\ v \in Seq(S)
      /\ Len(v) = Len(s) - i
      /\ \A j \in 1..Len(s) - i : v[j] = s[i + j]
  BY SubSeqProperties
<1>3. RemoveAt(s, i) = u \o v
  BY DEF RemoveAt
<1> HIDE DEF u, v
<1>4. /\ u \o v \in Seq(S)
      /\ Len(u \o v) = Len(s) - 1
      /\ \A j \in 1..Len(s) - 1 :
            (u \o v)[j] = IF j <= i - 1 THEN u[j] ELSE v[j - (i - 1)]
  <2>1. Len(u) + Len(v) = Len(s) - 1
    BY <1>1, <1>2
  <2>2. /\ u \o v \in Seq(S)
        /\ Len(u \o v) = Len(u) + Len(v)
        /\ \A j \in 1..Len(u) + Len(v) :
              (u \o v)[j] = IF j <= Len(u) THEN u[j] ELSE v[j - Len(u)]
    BY <1>1, <1>2, ConcatProperties
  <2> QED
    BY <2>1, <2>2, <1>1
<1>5. ASSUME NEW j \in 1..Len(s) - 1
      PROVE  (u \o v)[j] = IF j < i THEN s[j] ELSE s[j + 1]
  <2>1. CASE j < i
    BY <2>1, <1>1, <1>4
  <2>2. CASE ~ (j < i)
    <3>1. j - (i - 1) \in 1..Len(s) - i
      BY <2>2
    <3>2. i + (j - (i - 1)) = j + 1
      OBVIOUS
    <3> QED
      BY <2>2, <3>1, <3>2, <1>2, <1>4
  <2> QED
    BY <2>1, <2>2
<1> QED
  BY <1>3, <1>4, <1>5

(* Removal keeps the sequence free of repetitions, removes the entry and   *)
(* leaves every other entry and its order alone.                           *)
LEMMA RemoveFirstFacts ==
    ASSUME NEW S, NEW s \in Seq(S), Once(s), NEW r
    PROVE  /\ RemoveFirst(s, r) \in Seq(S)
           /\ Once(RemoveFirst(s, r))
           /\ ~ Contains(RemoveFirst(s, r), r)
           /\ \A x : Contains(RemoveFirst(s, r), x) => Contains(s, x)
           /\ s # <<>> /\ Head(s) # r =>
                 /\ RemoveFirst(s, r) # <<>>
                 /\ Head(RemoveFirst(s, r)) = Head(s)
<1>1. CASE ~ Contains(s, r)
  BY <1>1 DEF Contains, RemoveFirst
<1>2. CASE Contains(s, r)
  <2>1. PICK i \in 1..Len(s) : s[i] = r
    BY <1>2 DEF Contains
  <2> DEFINE u == RemoveAt(s, i)
  <2>2. RemoveFirst(s, r) = u
    BY <2>1, RemoveFirstIsRemoveAt
  <2>3. /\ u \in Seq(S)
        /\ Len(u) = Len(s) - 1
        /\ \A j \in 1..Len(s) - 1 : u[j] = IF j < i THEN s[j] ELSE s[j + 1]
    BY RemoveAtFacts
  <2> HIDE DEF u
  <2>4. Once(u)
    BY <2>3 DEF Once
  <2>5. ~ Contains(u, r)
    BY <2>1, <2>3 DEF Once, Contains
  <2>6. ASSUME NEW x, Contains(u, x)
        PROVE  Contains(s, x)
    <3>1. PICK j \in 1..Len(s) - 1 : u[j] = x
      BY <2>3, <2>6 DEF Contains
    <3>2. s[j] = x \/ s[j + 1] = x
      BY <3>1, <2>3
    <3> QED
      BY <3>1, <3>2 DEF Contains
  <2>7. s # <<>> /\ Head(s) # r => u # <<>> /\ Head(u) = Head(s)
    BY <2>1, <2>3
  <2> QED
    BY <2>2, <2>3, <2>4, <2>5, <2>6, <2>7
<1> QED
  BY <1>1, <1>2
-----------------------------------------------------------------------------
(* Type correctness and "at most once in the queue" are inductive together: *)
(* only on a queue without repetitions is removal a known operation.       *)
Shape == TypeOK /\ QueuedOnce

(* Where a failed acquire and the end of a release lead. *)
LEMMA AfterTurnIsLabel ==
    ASSUME TypeOK, NEW t \in Threads
    PROVE  AfterTurn(t) \in {"idle", "sweep", "cleanup"}
  BY DEF AfterTurn

(* A step that only moves one thread. *)
LEMMA GotoKeepsType ==
    ASSUME TypeOK, NEW t \in Threads, NEW label \in Labels, Goto(t, label)
    PROVE  pc' \in [Threads -> Labels]
  BY DEF TypeOK, Goto

(* The queue is empty at first. *)
LEMMA ShapeInit == Init => Shape
<1> SUFFICES ASSUME Init PROVE Shape
  OBVIOUS
<1>1. TypeOK
  BY QueueAssumption DEF Init, TypeOK, Me, Labels
<1>2. QueuedOnce
  BY DEF Init, QueuedOnce, Once
<1> QED
  BY <1>1, <1>2 DEF Shape

(* The steps that leave the queue as it is. *)
LEMMA ShapeLocal ==
    ASSUME Shape, NEW t \in Threads,
           \/ Begin(t) \/ CheckFront(t) \/ TakeSignal(t) \/ WaitTimesOut(t)
           \/ ProbeFront(t) \/ JudgeFront(t) \/ EvictPeek(t) \/ EvictPush(t)
           \/ DeadlinePasses(t) \/ FinishMerge(t) \/ ReleasePeek(t)
           \/ ReleasePush(t) \/ Cleanup(t) \/ Retire(t)
           \/ HeartbeatForces(t) \/ CliDies(t)
    PROVE  Shape' /\ UNCHANGED queue
<1> USE QueueAssumption, AfterTurnIsLabel DEF Shape, TypeOK, QueuedOnce, Goto,
        Read, Signal, redis, locals, Labels, Me
<1>0. UNCHANGED queue
  BY DEF Begin, CheckFront, TakeSignal, WaitTimesOut, ProbeFront, JudgeFront,
         EvictPeek, EvictPush, DeadlinePasses, FinishMerge, ReleasePeek,
         ReleasePush, Cleanup, Retire, HeartbeatForces, CliDies
<1>a. AfterTurn(t) \in Labels
  BY AfterTurnIsLabel
<1>b. queue # <<>> => Head(queue) \in Runners
  BY HeadTailProperties
<1>1. CASE Begin(t)
  BY <1>1 DEF Begin
<1>2. CASE CheckFront(t)
  BY <1>2 DEF CheckFront
<1>3. CASE TakeSignal(t)
  BY <1>3 DEF TakeSignal
<1>4. CASE WaitTimesOut(t)
  BY <1>4 DEF WaitTimesOut
<1>5. CASE ProbeFront(t)
  <2>1. pc' \in [Threads -> Labels]
    <3>1. PICK label \in {AfterTurn(t), "wait", "judge"} : Goto(t, label)
      BY <1>5 DEF ProbeFront
    <3>2. label \in Labels
      BY <1>a
    <3> QED
      BY <3>1, <3>2
  <2>2. CASE UNCHANGED seen
    BY <2>1, <2>2, <1>5, <1>0 DEF ProbeFront
  <2>3. CASE queue # <<>> /\ Read(t, Head(queue))
    <3>1. seen' \in [Threads -> Runners]
      BY <2>3, <1>b
    <3> QED
      BY <2>1, <3>1, <1>5, <1>0 DEF ProbeFront
  <2> QED
    BY <2>2, <2>3, <1>5 DEF ProbeFront
<1>6. CASE JudgeFront(t)
  BY <1>6 DEF JudgeFront
<1>7. CASE EvictPeek(t)
  <2>1. pc' \in [Threads -> Labels]
    <3>1. PICK label \in {"promote", "evictPush"} : Goto(t, label)
      BY <1>7 DEF EvictPeek
    <3>2. label \in Labels
      BY <1>a
    <3> QED
      BY <3>1, <3>2
  <2>2. CASE UNCHANGED seen
    BY <2>1, <2>2, <1>7, <1>0 DEF EvictPeek
  <2>3. CASE queue # <<>> /\ Read(t, Head(queue))
    <3>1. seen' \in [Threads -> Runners]
      BY <2>3, <1>b
    <3> QED
      BY <2>1, <3>1, <1>7, <1>0 DEF EvictPeek
  <2> QED
    BY <2>2, <2>3, <1>7 DEF EvictPeek
<1>8. CASE EvictPush(t)
  BY <1>8 DEF EvictPush
<1>9. CASE DeadlinePasses(t)
  BY <1>9 DEF DeadlinePasses
<1>10. CASE FinishMerge(t)
  BY <1>10 DEF FinishMerge
<1>11. CASE ReleasePeek(t)
  <2>1. pc' \in [Threads -> Labels]
    <3>1. PICK label \in {AfterTurn(t), "releasePush"} : Goto(t, label)
      BY <1>11 DEF ReleasePeek
    <3>2. label \in Labels
      BY <1>a
    <3> QED
      BY <3>1, <3>2
  <2>2. CASE UNCHANGED seen
    BY <2>1, <2>2, <1>11, <1>0 DEF ReleasePeek
  <2>3. CASE queue # <<>> /\ Read(t, Head(queue))
    <3>1. seen' \in [Threads -> Runners]
      BY <2>3, <1>b
    <3> QED
      BY <2>1, <3>1, <1>11, <1>0 DEF ReleasePeek
  <2> QED
    BY <2>2, <2>3, <1>11 DEF ReleasePeek
<1>12. CASE ReleasePush(t)
  BY <1>12 DEF ReleasePush
<1>13. CASE Cleanup(t)
  BY <1>13 DEF Cleanup
<1>14. CASE Retire(t)
  BY <1>14 DEF Retire
<1>15. CASE HeartbeatForces(t)
  BY <1>15 DEF HeartbeatForces
<1>16. CASE CliDies(t)
  BY <1>16 DEF CliDies, Fault
<1> QED
  BY <1>0, <1>1, <1>2, <1>3, <1>4, <1>5, <1>6, <1>7, <1>8, <1>9, <1>10, <1>11,
     <1>12, <1>13, <1>14, <1>15, <1>16

(* An entry is appended only when the runner has none. *)
LEMMA AppendKeepsOnce ==
    ASSUME NEW S, NEW s \in Seq(S), NEW x \in S, Once(s), ~ Contains(s, x)
    PROVE  Append(s, x) \in Seq(S) /\ Once(Append(s, x))
  BY DEF Once, Contains

(* The steps that change the queue. *)
LEMMA ShapeQueue ==
    ASSUME Shape, NEW t \in Threads,
           \/ Enqueue(t) \/ EvictFront(t) \/ Withdraw(t) \/ Release(t)
           \/ Sweep(t) \/ AcquireRaises(t)
    PROVE  Shape'
<1>a. AfterTurn(t) \in Labels
  BY AfterTurnIsLabel DEF Shape, Labels
<1>b. Me(t) \in Runners
  BY QueueAssumption DEF Me
<1>c. \A r : RemoveFirst(queue, r) \in Seq(Runners) /\ Once(RemoveFirst(queue, r))
  BY RemoveFirstFacts DEF Shape, TypeOK, QueuedOnce
<1>1. queue' \in Seq(Runners) /\ Once(queue')
  <2>1. CASE Enqueue(t)
    <3>1. CASE Contains(queue, Me(t))
      BY <2>1, <3>1 DEF Enqueue, Shape, TypeOK, QueuedOnce
    <3>2. CASE ~ Contains(queue, Me(t))
      <4>1. queue' = Append(queue, Me(t))
        BY <2>1, <3>2 DEF Enqueue
      <4> QED
        BY <4>1, <3>2, <1>b, AppendKeepsOnce DEF Shape, TypeOK, QueuedOnce
    <3> QED
      BY <3>1, <3>2
  <2>2. CASE ~ Enqueue(t)
    <3>1. queue' = queue \/ \E r : queue' = RemoveFirst(queue, r)
      BY <2>2 DEF EvictFront, Withdraw, Release, Sweep, AcquireRaises
    <3> QED
      BY <3>1, <1>c DEF Shape, TypeOK, QueuedOnce
  <2> QED
    BY <2>1, <2>2
<1>2. pc' \in [Threads -> Labels]
  <2>1. PICK label \in {"look", "evictPeek", "releasePeek", "retire",
                        AfterTurn(t)} : Goto(t, label)
    BY DEF Enqueue, EvictFront, Withdraw, Release, Sweep, AcquireRaises
  <2>2. label \in Labels
    BY <1>a DEF Labels
  <2> QED
    BY <2>1, <2>2, GotoKeepsType DEF Shape
<1>3. /\ UNCHANGED <<turn, pid, status, seen, cleaning, attempts>>
      /\ faults' \in Nat
  BY DEF Enqueue, EvictFront, Withdraw, Release, Sweep, AcquireRaises, Fault,
         locals, Shape, TypeOK
<1> QED
  BY <1>1, <1>2, <1>3 DEF Shape, TypeOK, QueuedOnce

(* Every step. *)
LEMMA ShapeInductive == Shape /\ [Next]_vars => Shape'
<1> SUFFICES ASSUME Shape, [Next]_vars PROVE Shape'
  OBVIOUS
<1>1. CASE \E t \in Threads : \/ Begin(t) \/ HeartbeatForces(t) \/ Step(t)
                              \/ DeadlinePasses(t) \/ AcquireRaises(t)
                              \/ CliDies(t)
  BY <1>1, ShapeLocal, ShapeQueue DEF Step
<1>2. CASE \E r \in Runners : ProcessExits(r)
  BY <1>2 DEF ProcessExits, Shape, TypeOK, QueuedOnce, locals
<1>3. CASE QueueVanishes
  BY <1>3 DEF QueueVanishes, Fault, Shape, TypeOK, QueuedOnce, Once, locals
<1>4. CASE ListenerDies
  BY <1>4 DEF ListenerDies, Fault, Shape, TypeOK, QueuedOnce, locals, redis,
              Labels
<1>5. CASE UNCHANGED vars
  BY <1>5 DEF vars, Shape, TypeOK, QueuedOnce
<1> QED
  BY <1>1, <1>2, <1>3, <1>4, <1>5 DEF Next, Finished

(* Every variable keeps the shape the code gives it. *)
THEOREM TypeCorrect == Spec => []TypeOK
<1>1. Shape => TypeOK
  BY DEF Shape
<1> QED
  BY <1>1, ShapeInit, ShapeInductive, PTL DEF Spec

(* The queue never holds a runner twice, whatever faults happen: the       *)
(* removals of the code, which take one entry, remove the runner.          *)
THEOREM QueueHasNoDuplicates == Spec => []QueuedOnce
<1>1. Shape => QueuedOnce
  BY DEF Shape
<1> QED
  BY <1>1, ShapeInit, ShapeInductive, PTL DEF Spec
-----------------------------------------------------------------------------
(* A merge whose runner is still queued is at the front.  The invariant is *)
(* inductive once it is known that a heartbeat thread never enqueues.      *)
HeartbeatAside ==
    \A t \in Threads :
        JobOf[t] = "heartbeat" => pc[t] \notin Acquiring \cup {"merging"}

InOrder == Shape /\ HeartbeatAside /\ FrontHolds

(* If a runner is in the sequence at all, it is its head. *)
FirstIfIn(s, r) == Contains(s, r) => s # <<>> /\ Head(s) = r

(* Taking any entry out keeps a runner first, if it is still there. *)
LEMMA RemovalKeepsFirst ==
    ASSUME NEW S, NEW s \in Seq(S), Once(s), NEW r, NEW x, FirstIfIn(s, r)
    PROVE  FirstIfIn(RemoveFirst(s, x), r)
<1> SUFFICES ASSUME Contains(RemoveFirst(s, x), r)
             PROVE  RemoveFirst(s, x) # <<>> /\ Head(RemoveFirst(s, x)) = r
  BY DEF FirstIfIn
<1>1. s # <<>> /\ Head(s) = r
  BY RemoveFirstFacts DEF FirstIfIn
<1>2. x # r
  BY RemoveFirstFacts
<1> QED
  BY <1>1, <1>2, RemoveFirstFacts

(* So does another runner's entry at the end. *)
LEMMA AppendKeepsFirst ==
    ASSUME NEW S, NEW s \in Seq(S), NEW x \in S, NEW r, x # r, FirstIfIn(s, r)
    PROVE  FirstIfIn(Append(s, x), r)
<1> SUFFICES ASSUME Contains(Append(s, x), r)
             PROVE  Append(s, x) # <<>> /\ Head(Append(s, x)) = r
  BY DEF FirstIfIn
<1>1. Contains(s, r)
  BY DEF Contains
<1>2. s # <<>> /\ Head(s) = r
  BY <1>1 DEF FirstIfIn
<1> QED
  BY <1>2

(* A heartbeat thread only ever releases and cleans up. *)
LEMMA HeartbeatStaysAside ==
    ASSUME InOrder, [Next]_vars
    PROVE  HeartbeatAside'
<1> SUFFICES ASSUME NEW t \in Threads, JobOf[t] = "heartbeat"
             PROVE  pc'[t] \notin Acquiring \cup {"merging"}
  BY DEF HeartbeatAside
<1> USE DEF InOrder, Shape
<1>1. pc[t] \notin Acquiring \cup {"merging"} /\ pc \in [Threads -> Labels]
  BY DEF HeartbeatAside, TypeOK
<1>2. ASSUME NEW u \in Threads, u # t, NEW label, Goto(u, label)
      PROVE  pc'[t] \notin Acquiring \cup {"merging"}
  BY <1>1, <1>2 DEF Goto
<1>3. ASSUME NEW u \in Threads, u # t,
             \/ Begin(u) \/ HeartbeatForces(u) \/ Step(u) \/ DeadlinePasses(u)
             \/ AcquireRaises(u) \/ CliDies(u)
      PROVE  pc'[t] \notin Acquiring \cup {"merging"}
  <2>1. \E label : Goto(u, label)
    BY <1>3 DEF Begin, HeartbeatForces, Step, DeadlinePasses, AcquireRaises,
            CliDies, Enqueue, CheckFront, TakeSignal, WaitTimesOut, ProbeFront,
            JudgeFront, EvictFront, EvictPeek, EvictPush, Withdraw,
            FinishMerge, Release, ReleasePeek, ReleasePush, Cleanup, Sweep,
            Retire
  <2> QED
    BY <2>1, <1>2, <1>3
<1>4. ASSUME \/ Begin(t) \/ HeartbeatForces(t) \/ Step(t) \/ DeadlinePasses(t)
             \/ AcquireRaises(t) \/ CliDies(t)
      PROVE  pc'[t] \notin Acquiring \cup {"merging"}
  <2>1. \E label \in {"release", "releasePeek", "releasePush", "retire",
                      "idle", "dead", AfterTurn(t)} : Goto(t, label)
    BY <1>1, <1>4 DEF Begin, HeartbeatForces, Step, DeadlinePasses,
            AcquireRaises, CliDies, Enqueue, CheckFront, TakeSignal,
            WaitTimesOut, ProbeFront, JudgeFront, EvictFront, EvictPeek,
            EvictPush, Withdraw, FinishMerge, Release, ReleasePeek,
            ReleasePush, Cleanup, Sweep, Retire, Acquiring
  <2>2. AfterTurn(t) \in {"idle", "sweep", "cleanup"}
    BY AfterTurnIsLabel
  <2> QED
    BY <1>1, <2>1, <2>2 DEF Goto, Acquiring
<1>5. CASE UNCHANGED pc
  BY <1>1, <1>5
<1>6. CASE ListenerDies
  BY <1>1, <1>6 DEF ListenerDies, Acquiring
<1> QED
  BY <1>3, <1>4, <1>5, <1>6
     DEF Next, ProcessExits, QueueVanishes, Finished, vars

(* A thread enters the merge only from the front of the queue. *)
LEMMA MergeIsEnteredAtFront ==
    ASSUME InOrder, [Next]_vars, NEW t \in Threads, pc'[t] = "merging"
    PROVE  pc[t] = "merging" \/ (IsFront(Me(t)) /\ UNCHANGED queue)
<1> SUFFICES ASSUME pc[t] # "merging"
             PROVE  IsFront(Me(t)) /\ UNCHANGED queue
  OBVIOUS
<1>1. pc \in [Threads -> Labels]
  BY DEF InOrder, Shape, TypeOK
<1>2. ~ \E u \in Threads, label \in Labels \ {"merging"} : Goto(u, label)
  BY <1>1 DEF Goto
<1>3. PICK u \in Threads :
          \/ Begin(u) \/ HeartbeatForces(u) \/ Step(u) \/ DeadlinePasses(u)
          \/ AcquireRaises(u) \/ CliDies(u)
  BY DEF Next, ProcessExits, QueueVanishes, ListenerDies, Finished, vars
<1>4. AfterTurn(u) \in Labels \ {"merging"}
  BY AfterTurnIsLabel DEF InOrder, Shape, Labels
<1>5. CheckFront(u)
  <2> SUFFICES ASSUME ~ CheckFront(u) PROVE FALSE
    OBVIOUS
  <2>1. \E label \in {"enqueue", "look", "recheck", "probe", "wait", "judge",
                      "evict", "promote", "evictPeek", "evictPush", "withdraw",
                      "release", "releasePeek", "releasePush", "sweep",
                      "retire", "idle", "dead", AfterTurn(u)} : Goto(u, label)
    BY <1>3 DEF Begin, HeartbeatForces, Step, DeadlinePasses, AcquireRaises,
            CliDies, Enqueue, TakeSignal, WaitTimesOut, ProbeFront, JudgeFront,
            EvictFront, EvictPeek, EvictPush, Withdraw, FinishMerge, Release,
            ReleasePeek, ReleasePush, Cleanup, Sweep, Retire
  <2> QED
    BY <2>1, <1>2, <1>4 DEF Labels
<1>6. u = t /\ IsFront(Me(t))
  BY <1>1, <1>5 DEF CheckFront, Goto
<1> QED
  BY <1>5, <1>6 DEF CheckFront, redis

(* Another runner's step leaves a merging runner first, if it is queued.   *)
LEMMA QueueKeepsFirst ==
    ASSUME InOrder, [Next]_vars, NEW t \in Threads, Sole(t),
           pc[t] = "merging", FirstIfIn(queue, Me(t))
    PROVE  FirstIfIn(queue', Me(t))
<1> USE DEF InOrder, Shape, TypeOK, QueuedOnce
<1>1. CASE \E x : queue' = RemoveFirst(queue, x)
  BY <1>1, RemovalKeepsFirst
<1>2. CASE UNCHANGED queue
  BY <1>2
<1>3. CASE queue' = <<>>
  BY <1>3 DEF FirstIfIn, Contains
<1>4. CASE \E u \in Threads : Enqueue(u)
  <2>1. PICK u \in Threads : Enqueue(u)
    BY <1>4
  <2>2. pc[u] = "enqueue" /\ u # t
    BY <2>1 DEF Enqueue
  <2>3. JobOf[u] # "heartbeat"
    BY <2>2 DEF HeartbeatAside, Acquiring
  <2>4. Me(u) # Me(t) /\ Me(u) \in Runners
    BY <2>2, <2>3, QueueAssumption DEF Sole, Me
  <2>5. CASE queue' = Append(queue, Me(u))
    BY <2>4, <2>5, AppendKeepsFirst
  <2> QED
    BY <2>1, <2>5, <1>2 DEF Enqueue
<1>5. CASE \E u \in Threads : \/ Begin(u) \/ HeartbeatForces(u)
                              \/ Step(u) /\ ~ Enqueue(u)
                              \/ DeadlinePasses(u) \/ AcquireRaises(u)
                              \/ CliDies(u)
  <2>1. queue' = queue \/ \E x : queue' = RemoveFirst(queue, x)
    BY <1>5 DEF Begin, HeartbeatForces, Step, DeadlinePasses, AcquireRaises,
            CliDies, CheckFront, TakeSignal, WaitTimesOut, ProbeFront,
            JudgeFront, EvictFront, EvictPeek, EvictPush, Withdraw,
            FinishMerge, Release, ReleasePeek, ReleasePush, Cleanup, Sweep,
            Retire, redis
  <2> QED
    BY <2>1, <1>1, <1>2
<1> QED
  BY <1>2, <1>3, <1>4, <1>5
     DEF Next, ProcessExits, QueueVanishes, ListenerDies, Finished, vars, redis

(* Nobody merges at first. *)
LEMMA InOrderInit == Init => InOrder
  BY ShapeInit DEF Init, InOrder, HeartbeatAside, FrontHolds, Acquiring

(* Every step keeps the order. *)
LEMMA InOrderInductive == InOrder /\ [Next]_vars => InOrder'
<1> SUFFICES ASSUME InOrder, [Next]_vars PROVE InOrder'
  OBVIOUS
<1>1. Shape'
  BY ShapeInductive DEF InOrder
<1>2. HeartbeatAside'
  BY HeartbeatStaysAside
<1>3. FrontHolds'
  <2> SUFFICES ASSUME NEW t \in Threads, pc'[t] = "merging", Sole(t),
                      Contains(queue', Me(t))
               PROVE  queue' # <<>> /\ Head(queue') = Me(t)
    BY DEF FrontHolds, IsFront, Sole, Me
  <2>1. CASE pc[t] = "merging"
    <3>1. FirstIfIn(queue, Me(t))
      BY <2>1 DEF InOrder, FrontHolds, FirstIfIn, IsFront
    <3> QED
      BY <2>1, <3>1, QueueKeepsFirst DEF FirstIfIn
  <2>2. CASE pc[t] # "merging"
    BY <2>2, MergeIsEnteredAtFront DEF IsFront
  <2> QED
    BY <2>1, <2>2
<1> QED
  BY <1>1, <1>2, <1>3 DEF InOrder

(* A runner that merges while it is still queued is the first of the queue *)
(* whatever is evicted, swept, flushed or left behind by a crash: nobody   *)
(* overtakes it in the list.                                               *)
THEOREM QueueIsServedInOrder == Spec => []FrontHolds
<1>1. InOrder => FrontHolds
  BY DEF InOrder
<1> QED
  BY <1>1, InOrderInit, InOrderInductive, PTL DEF Spec
-----------------------------------------------------------------------------
(* Runners that do not share their entries: what the code means by one     *)
(* merge job per runner.                                                   *)
Separate == \A t, u \in Threads : Me(t) = Me(u) => t = u

(* The steps of one thread; all others are steps of the environment.       *)
ThreadStep(t) ==
    \/ Begin(t) \/ HeartbeatForces(t) \/ Step(t)
    \/ DeadlinePasses(t) \/ AcquireRaises(t) \/ CliDies(t)

(* Other threads stay where they are. *)
LEMMA OthersStay ==
    ASSUME TypeOK, NEW t \in Threads, ThreadStep(t), NEW u \in Threads, u # t
    PROVE  pc'[u] = pc[u] /\ seen'[u] = seen[u] /\ cleaning'[u] = cleaning[u]
                          /\ attempts'[u] = attempts[u]
<1>1. pc'[u] = pc[u]
  <2>1. \E label : Goto(t, label)
    BY DEF ThreadStep, Begin, HeartbeatForces, Step, DeadlinePasses,
           AcquireRaises, CliDies, Enqueue, CheckFront, TakeSignal,
           WaitTimesOut, ProbeFront, JudgeFront, EvictFront, EvictPeek,
           EvictPush, Withdraw, FinishMerge, Release, ReleasePeek,
           ReleasePush, Cleanup, Sweep, Retire
  <2> QED
    BY <2>1 DEF Goto, TypeOK
<1>2. seen' = seen \/ \E r : seen' = [seen EXCEPT ![t] = r]
  BY DEF ThreadStep, Begin, HeartbeatForces, Step, DeadlinePasses,
         AcquireRaises, CliDies, Enqueue, CheckFront, TakeSignal,
         WaitTimesOut, ProbeFront, JudgeFront, EvictFront, EvictPeek,
         EvictPush, Withdraw, FinishMerge, Release, ReleasePeek,
         ReleasePush, Cleanup, Sweep, Retire, Read, locals
<1>3. cleaning' = cleaning \/ \E b : cleaning' = [cleaning EXCEPT ![t] = b]
  BY DEF ThreadStep, Begin, HeartbeatForces, Step, DeadlinePasses,
         AcquireRaises, CliDies, Enqueue, CheckFront, TakeSignal,
         WaitTimesOut, ProbeFront, JudgeFront, EvictFront, EvictPeek,
         EvictPush, Withdraw, FinishMerge, Release, ReleasePeek,
         ReleasePush, Cleanup, Sweep, Retire, locals
<1>4. attempts' = attempts \/ \E n : attempts' = [attempts EXCEPT ![t] = n]
  BY DEF ThreadStep, Begin, HeartbeatForces, Step, DeadlinePasses,
         AcquireRaises, CliDies, Enqueue, CheckFront, TakeSignal,
         WaitTimesOut, ProbeFront, JudgeFront, EvictFront, EvictPeek,
         EvictPush, Withdraw, FinishMerge, Release, ReleasePeek,
         ReleasePush, Cleanup, Sweep, Retire
<1> QED
  BY <1>1, <1>2, <1>3, <1>4 DEF TypeOK

(* What a thread's step does to the queue: nothing, one entry out, or its  *)
(* own runner in at the end.                                               *)
LEMMA QueueChanges ==
    ASSUME NEW t \in Threads, ThreadStep(t)
    PROVE  \/ UNCHANGED queue
           \/ /\ pc[t] = "evict"
              /\ queue' = RemoveFirst(queue, seen[t])
           \/ /\ pc[t] \in {"withdraw", "release", "sweep"} \cup Acquiring
              /\ queue' = RemoveFirst(queue, Me(t))
           \/ /\ pc[t] = "enqueue"
              /\ ~ Contains(queue, Me(t))
              /\ queue' = Append(queue, Me(t))
  BY DEF ThreadStep, Begin, HeartbeatForces, Step, DeadlinePasses,
         AcquireRaises, CliDies, Enqueue, CheckFront, TakeSignal,
         WaitTimesOut, ProbeFront, JudgeFront, EvictFront, EvictPeek,
         EvictPush, Withdraw, FinishMerge, Release, ReleasePeek,
         ReleasePush, Cleanup, Sweep, Retire, redis

(* A runner that is not in the queue gets in only through its own thread.  *)
LEMMA OnlyOwnEnqueue ==
    ASSUME Shape, Separate, NEW t \in Threads, ThreadStep(t),
           NEW u \in Threads, u # t, Contains(queue', Me(u))
    PROVE  Contains(queue, Me(u))
<1>0. queue \in Seq(Runners) /\ Once(queue) /\ Me(t) \in Runners
  BY QueueAssumption DEF Shape, TypeOK, QueuedOnce, Me
<1>1. CASE \E r : queue' = RemoveFirst(queue, r)
  BY <1>0, <1>1, RemoveFirstFacts
<1>2. CASE queue' = Append(queue, Me(t))
  <2>1. Me(u) # Me(t)
    BY DEF Separate
  <2> QED
    BY <1>0, <1>2, <2>1 DEF Contains
<1> QED
  BY <1>1, <1>2, QueueChanges

(* Removing something else, or appending, leaves the front in place.       *)
LEMMA FrontRemains ==
    ASSUME NEW s \in Seq(Runners), Once(s), NEW r, s # <<>>, Head(s) = r
    PROVE  /\ \A x : x # r => /\ RemoveFirst(s, x) # <<>>
                              /\ Head(RemoveFirst(s, x)) = r
           /\ \A x \in Runners : /\ Append(s, x) # <<>>
                                 /\ Head(Append(s, x)) = r
<1>1. ASSUME NEW x, x # r
      PROVE  RemoveFirst(s, x) # <<>> /\ Head(RemoveFirst(s, x)) = r
  BY <1>1, RemoveFirstFacts
<1>2. ASSUME NEW x \in Runners
      PROVE  Append(s, x) # <<>> /\ Head(Append(s, x)) = r
  OBVIOUS
<1> QED
  BY <1>1, <1>2
-----------------------------------------------------------------------------
(* Merges are serialised when each of them belongs to a new runner that no *)
(* waiter can take for dead: direct merges.                                *)
OnlyDirect ==
    /\ Separate
    /\ \A t \in Threads : JobOf[t] = "direct"
    /\ MaxAttempts <= 1
    /\ "flush" \notin FaultKinds

(* A runner that is working has status "running" and no pid key, so that   *)
(* no verdict says it is stale; one that was found stale is over, and has  *)
(* no second job.  Nobody else removes the entry of a runner that merges.  *)
Working ==
    \A t \in Threads : pc[t] # "idle" => status[Me(t)] = "running"
NoPid == \A r \in Runners : pid[r] = "none"
Started ==
    \A t \in Threads :
        /\ pc[t] # "idle" => attempts[t] # 0
        /\ Contains(queue, Me(t)) => attempts[t] # 0
SeenStarted ==
    \A t, u \in Threads :
        pc[t] \in {"judge", "evict"} /\ Me(u) = seen[t] => attempts[u] # 0
EvictedIsOver ==
    \A t, u \in Threads : pc[t] = "evict" /\ Me(u) = seen[t] => pc[u] = "idle"
MergingIsFront ==
    \A t \in Threads : pc[t] = "merging" => IsFront(Me(t))

Serial == /\ Shape /\ Working /\ NoPid /\ Started /\ SeenStarted
          /\ EvictedIsOver /\ MergingIsFront

(* Nothing is queued, judged or merging at first. *)
LEMMA SerialInit == OnlyDirect /\ Init => Serial
<1> SUFFICES ASSUME OnlyDirect, Init PROVE Serial
  OBVIOUS
<1>1. Shape
  BY ShapeInit
<1>2. Working /\ SeenStarted /\ EvictedIsOver /\ MergingIsFront
  BY DEF Init, Working, SeenStarted, EvictedIsOver, MergingIsFront
<1>3. NoPid
  BY DEF Init, NoPid, OnlyDirect, HasJob
<1>4. Started
  BY DEF Init, Started, Contains
<1> QED
  BY <1>1, <1>2, <1>3, <1>4 DEF Serial

(* A direct merge starts once, and never in the place of an old one. *)
LEMMA BeginsOnce ==
    ASSUME OnlyDirect, Shape, NEW t \in Threads, Begin(t)
    PROVE  /\ pc[t] = "idle" /\ attempts[t] = 0 /\ attempts'[t] # 0
           /\ pc'[t] = "enqueue"
           /\ status' = [status EXCEPT ![Me(t)] = "running"]
           /\ UNCHANGED <<queue, pid, seen>>
  BY QueueAssumption DEF OnlyDirect, Begin, Goto, Shape, TypeOK

(* With direct merges only, these are the steps of a thread. *)
LEMMA DirectSteps ==
    ASSUME OnlyDirect, NEW t \in Threads, ThreadStep(t)
    PROVE  Begin(t) \/ Step(t) \/ DeadlinePasses(t) \/ AcquireRaises(t)
  BY DEF OnlyDirect, ThreadStep, HeartbeatForces, CliDies

(* What the other steps do to a thread and to the keys of runners. *)
LEMMA WorkingSteps ==
    ASSUME OnlyDirect, Shape, NEW t \in Threads,
           Step(t) \/ DeadlinePasses(t) \/ AcquireRaises(t)
    PROVE  /\ pc[t] # "idle"
           /\ UNCHANGED attempts
           /\ UNCHANGED status \/ (Retire(t) /\ pc'[t] = "idle")
  BY DEF Shape, TypeOK, Goto, Step, DeadlinePasses,
         AcquireRaises, Enqueue, CheckFront, TakeSignal, Acquiring,
         WaitTimesOut, ProbeFront, JudgeFront, EvictFront, EvictPeek,
         EvictPush, Withdraw, FinishMerge, Release, ReleasePeek,
         ReleasePush, Cleanup, Sweep, Retire, redis

(* A thread that works has its runner registered as running. *)
LEMMA WorkingKept ==
    ASSUME OnlyDirect, Serial, NEW t \in Threads, ThreadStep(t)
    PROVE  Working' /\ NoPid'
<1> USE DEF Serial
<1>0. /\ pc \in [Threads -> Labels]
      /\ status \in [Runners -> {"none", "running", "stopped"}]
      /\ pid \in [Runners -> {"none", "alive", "dead"}]
  BY DEF Shape, TypeOK
<1>a. \A u \in Threads : Me(u) \in Runners /\ (u # t => Me(u) # Me(t))
  BY QueueAssumption DEF Me, OnlyDirect, Separate
<1>b. \A u \in Threads : u # t => pc'[u] = pc[u]
  BY OthersStay DEF Shape
<1>1. CASE Begin(t)
  <2>1. Working'
    <3> SUFFICES ASSUME NEW u \in Threads, pc'[u] # "idle"
                 PROVE  status'[Me(u)] = "running"
      BY DEF Working, Me
    <3> QED
      BY <1>0, <1>a, <1>b, <1>1, BeginsOnce DEF Working
  <2>2. NoPid'
    BY <1>1, BeginsOnce DEF NoPid
  <2> QED
    BY <2>1, <2>2
<1>2. CASE Step(t) \/ DeadlinePasses(t) \/ AcquireRaises(t)
  <2>1. Working'
    <3> SUFFICES ASSUME NEW u \in Threads, pc'[u] # "idle"
                 PROVE  status'[Me(u)] = "running"
      BY DEF Working, Me
    <3>1. pc[u] # "idle"
      BY <1>b, <1>2, WorkingSteps
    <3>2. CASE UNCHANGED status
      BY <3>1, <3>2 DEF Working
    <3>3. CASE Retire(t) /\ pc'[t] = "idle"
      <4>1. u # t
        BY <3>3
      <4>2. status'[Me(u)] = status[Me(u)]
        BY <1>0, <1>a, <3>3, <4>1 DEF Retire
      <4> QED
        BY <3>1, <4>2 DEF Working
    <3> QED
      BY <3>2, <3>3, <1>2, WorkingSteps
  <2>2. UNCHANGED pid \/ Retire(t)
    BY <1>2 DEF Step, DeadlinePasses, AcquireRaises, Enqueue, CheckFront,
           TakeSignal, WaitTimesOut, ProbeFront, JudgeFront, EvictFront,
           EvictPeek, EvictPush, Withdraw, FinishMerge, Release, ReleasePeek,
           ReleasePush, Cleanup, Sweep, redis
  <2>3. NoPid'
    BY <1>0, <1>a, <2>2 DEF NoPid, Retire
  <2> QED
    BY <2>1, <2>3
<1> QED
  BY <1>1, <1>2, DirectSteps

(* Whoever is queued, or was read from the queue, has started its job. *)
LEMMA StartedKept ==
    ASSUME OnlyDirect, Serial, NEW t \in Threads, ThreadStep(t)
    PROVE  Started' /\ SeenStarted'
<1> USE DEF Serial
<1>0. /\ pc \in [Threads -> Labels] /\ attempts \in [Threads -> Nat]
      /\ seen \in [Threads -> Runners]
      /\ \A u \in Threads : u # t => /\ pc'[u] = pc[u] /\ seen'[u] = seen[u]
                                     /\ attempts'[u] = attempts[u]
  BY OthersStay DEF Shape, TypeOK
<1>1. \A u \in Threads : attempts[u] # 0 => attempts'[u] # 0
  <2>1. CASE Begin(t)
    BY <1>0, <2>1, BeginsOnce
  <2>2. CASE ~ Begin(t)
    BY <1>0, <2>2, DirectSteps, WorkingSteps
  <2> QED
    BY <2>1, <2>2
<1>2. pc'[t] # "idle" \/ Contains(queue', Me(t)) => attempts'[t] # 0
  <2>1. CASE Begin(t)
    BY <2>1, BeginsOnce
  <2>2. CASE ~ Begin(t)
    <3>1. pc[t] # "idle"
      BY <2>2, DirectSteps, WorkingSteps
    <3> QED
      BY <3>1, <1>1 DEF Started
  <2> QED
    BY <2>1, <2>2
<1>3. Started'
  <2> SUFFICES ASSUME NEW u \in Threads, u # t
               PROVE  /\ pc'[u] # "idle" => attempts'[u] # 0
                      /\ Contains(queue', Me(u)) => attempts'[u] # 0
    BY <1>2 DEF Started, Me
  <2>1. Contains(queue', Me(u)) => Contains(queue, Me(u))
    BY OnlyOwnEnqueue DEF OnlyDirect
  <2> QED
    BY <1>0, <1>1, <2>1 DEF Started
<1>4. SeenStarted'
  <2> SUFFICES ASSUME NEW x \in Threads, NEW u \in Threads,
                      pc'[x] \in {"judge", "evict"}, Me(u) = seen'[x]
               PROVE  attempts'[u] # 0
    BY DEF SeenStarted, Me
  <2>1. CASE pc[x] \in {"judge", "evict"} /\ seen'[x] = seen[x]
    BY <1>1, <2>1 DEF SeenStarted
  <2>2. CASE x = t /\ ProbeFront(t)
    <3>1. queue # <<>> /\ seen'[x] = Head(queue)
      BY <1>0, <2>2, AfterTurnIsLabel DEF ProbeFront, Goto, Read, Shape
    <3>2. Contains(queue, Me(u))
      BY <3>1, HeadTailProperties DEF Contains, Shape, TypeOK
    <3> QED
      BY <1>1, <3>2 DEF Started
  <2>3. CASE x = t /\ ~ ProbeFront(t)
    <3>1. AfterTurn(t) \notin {"judge", "evict"}
      BY AfterTurnIsLabel DEF Shape
    <3>2. JudgeFront(t)
      BY <1>0, <2>3, <3>1, DirectSteps DEF Goto, Step, Begin, DeadlinePasses,
         AcquireRaises, Enqueue, CheckFront, TakeSignal, WaitTimesOut,
         EvictFront, EvictPeek, EvictPush, Withdraw, FinishMerge, Release,
         ReleasePeek, ReleasePush, Cleanup, Sweep, Retire
    <3> QED
      BY <2>1, <2>3, <3>2 DEF JudgeFront, locals
  <2> QED
    BY <1>0, <2>1, <2>2, <2>3
<1> QED
  BY <1>3, <1>4

(* The runner whose entry is about to be evicted is over for good. *)
LEMMA EvictedKept ==
    ASSUME OnlyDirect, Serial, NEW t \in Threads, ThreadStep(t)
    PROVE  EvictedIsOver'
<1> USE DEF Serial
<1>0. /\ pc \in [Threads -> Labels] /\ seen \in [Threads -> Runners]
      /\ \A u \in Threads : u # t => pc'[u] = pc[u] /\ seen'[u] = seen[u]
  BY OthersStay DEF Shape, TypeOK
<1> SUFFICES ASSUME NEW x \in Threads, NEW u \in Threads,
                    pc'[x] = "evict", Me(u) = seen'[x]
             PROVE  pc'[u] = "idle"
  BY DEF EvictedIsOver, Me
<1>1. ASSUME pc[u] = "idle", attempts[u] # 0
      PROVE  pc'[u] = "idle"
  <2>1. CASE u = t
    BY <1>1, <2>1, DirectSteps, BeginsOnce, WorkingSteps
  <2>2. CASE u # t
    BY <1>0, <1>1, <2>2
  <2> QED
    BY <2>1, <2>2
<1>2. CASE pc[x] = "evict" /\ seen'[x] = seen[x]
  BY <1>1, <1>2 DEF EvictedIsOver, SeenStarted
<1>3. CASE x = t
  <2>1. AfterTurn(t) # "evict"
    BY AfterTurnIsLabel DEF Shape
  <2>2. JudgeFront(t)
    BY <1>0, <1>3, <2>1, DirectSteps DEF Goto, Step, Begin, DeadlinePasses,
       AcquireRaises, Enqueue, CheckFront, TakeSignal, WaitTimesOut,
       ProbeFront, EvictFront, EvictPeek, EvictPush, Withdraw, FinishMerge,
       Release, ReleasePeek, ReleasePush, Cleanup, Sweep, Retire
  <2>3. /\ pc[t] = "judge" /\ IsStale(seen[t]) /\ UNCHANGED seen
        /\ pc' = [pc EXCEPT ![t] = "evict"]
    BY <1>0, <1>3, <2>2 DEF JudgeFront, Goto, locals
  <2>4. Me(u) \in Runners /\ IsStale(Me(u))
    BY <1>3, <2>3, QueueAssumption DEF Me
  <2>5. status[Me(u)] # "running"
    BY <2>4 DEF IsStale, NoPid
  <2>6. pc[u] = "idle" /\ attempts[u] # 0
    BY <1>3, <2>3, <2>5 DEF Working, SeenStarted
  <2> QED
    BY <1>1, <2>6
<1> QED
  BY <1>0, <1>2, <1>3

(* A merging runner is and stays the front of the queue. *)
LEMMA MergingKept ==
    ASSUME OnlyDirect, Serial, NEW t \in Threads, ThreadStep(t)
    PROVE  MergingIsFront'
<1> USE DEF Serial
<1>0. /\ pc \in [Threads -> Labels]
      /\ queue \in Seq(Runners) /\ Once(queue)
      /\ \A u \in Threads : /\ u # t => pc'[u] = pc[u] /\ Me(u) # Me(t)
                            /\ Me(u) \in Runners
  BY OthersStay, QueueAssumption
     DEF Shape, TypeOK, QueuedOnce, OnlyDirect, Separate, Me
<1> SUFFICES ASSUME NEW u \in Threads, pc'[u] = "merging"
             PROVE  queue' # <<>> /\ Head(queue') = Me(u)
  BY DEF MergingIsFront, IsFront, Me
<1>1. CASE pc[u] = "merging" /\ u # t
  <2>1. queue # <<>> /\ Head(queue) = Me(u)
    BY <1>1 DEF MergingIsFront, IsFront
  <2>2. CASE UNCHANGED queue
    BY <2>1, <2>2
  <2>3. CASE pc[t] = "evict" /\ queue' = RemoveFirst(queue, seen[t])
    <3>1. seen[t] # Me(u)
      BY <1>1, <2>3 DEF EvictedIsOver
    <3> QED
      BY <1>0, <2>1, <2>3, <3>1, FrontRemains
  <2>4. CASE queue' = RemoveFirst(queue, Me(t)) \/ queue' = Append(queue, Me(t))
    BY <1>0, <1>1, <2>1, <2>4, FrontRemains
  <2> QED
    BY <2>2, <2>3, <2>4, QueueChanges
<1>2. CASE u = t
  <2>1. AfterTurn(t) # "merging"
    BY AfterTurnIsLabel DEF Shape
  <2>2. CheckFront(t)
    BY <1>0, <1>2, <2>1, DirectSteps DEF Goto, Step, Begin, DeadlinePasses,
       AcquireRaises, Enqueue, JudgeFront, TakeSignal, WaitTimesOut,
       ProbeFront, EvictFront, EvictPeek, EvictPush, Withdraw, FinishMerge,
       Release, ReleasePeek, ReleasePush, Cleanup, Sweep, Retire
  <2>3. IsFront(Me(t)) /\ UNCHANGED queue
    BY <1>0, <1>2, <2>2 DEF CheckFront, Goto, redis
  <2> QED
    BY <1>2, <2>3 DEF IsFront
<1> QED
  BY <1>0, <1>1, <1>2

(* The environment's steps: with direct merges no process of a runner      *)
(* exits, the queue does not vanish, and a listener that dies stops every  *)
(* thread.                                                                 *)
LEMMA SerialEnvironment ==
    ASSUME OnlyDirect, Serial, Shape',
           \/ \E r \in Runners : ProcessExits(r)
           \/ QueueVanishes \/ ListenerDies \/ UNCHANGED vars
    PROVE  Serial'
<1> USE DEF Serial
<1>1. CASE \E r \in Runners : ProcessExits(r)
  BY <1>1 DEF ProcessExits, NoPid
<1>2. CASE QueueVanishes
  BY <1>2 DEF QueueVanishes, Fault, OnlyDirect
<1>3. CASE ListenerDies
  <2>1. /\ \A t \in Threads : pc'[t] \in {"idle", "dead"}
                              /\ (pc'[t] = "idle" <=> pc[t] = "idle")
        /\ UNCHANGED <<queue, status, pid, seen, attempts>>
    BY <1>3 DEF ListenerDies, OnlyDirect, redis, locals
  <2> QED
    BY <2>1 DEF Working, NoPid, Started, SeenStarted, EvictedIsOver,
       MergingIsFront, Me
<1>4. CASE UNCHANGED vars
  BY <1>4 DEF vars, Working, NoPid, Started, SeenStarted, EvictedIsOver,
     MergingIsFront, IsFront, Me
<1> QED
  BY <1>1, <1>2, <1>3, <1>4

(* Every step. *)
LEMMA SerialInductive == OnlyDirect /\ Serial /\ [Next]_vars => Serial'
<1> SUFFICES ASSUME OnlyDirect, Serial, [Next]_vars PROVE Serial'
  OBVIOUS
<1>1. Shape'
  BY ShapeInductive DEF Serial
<1>2. CASE \E t \in Threads : ThreadStep(t)
  BY <1>1, <1>2, WorkingKept, StartedKept, EvictedKept, MergingKept DEF Serial
<1>3. CASE ~ \E t \in Threads : ThreadStep(t)
  BY <1>1, <1>3, SerialEnvironment DEF Next, ThreadStep, Finished
<1> QED
  BY <1>2, <1>3

(* What the queue is for: of any number of direct merges at most one runs  *)
(* at a time, although every waiter evicts what it takes for stale, Redis  *)
(* calls raise, deadlines pass and the listener dies.                      *)
THEOREM DirectMergesAreSerialized == OnlyDirect /\ Spec => []MergesSerialized
<1>1. Serial /\ OnlyDirect => MergesSerialized
  BY DEF Serial, MergingIsFront, IsFront, MergesSerialized, OnlyDirect,
     Separate
<1>2. CASE OnlyDirect
  <2>1. Init => Serial
    BY <1>2, SerialInit
  <2>2. Serial /\ [Next]_vars => Serial'
    BY <1>2, SerialInductive
  <2>3. Serial => MergesSerialized
    BY <1>1, <1>2
  <2> QED
    BY <2>1, <2>2, <2>3, PTL DEF Spec
<1> QED
  BY <1>2
-----------------------------------------------------------------------------
(* No wake-up is lost when runners have a thread each, no Redis call of an *)
(* acquire raises, no deadline passes and no CLI process dies on its way   *)
(* from the removal of an entry to the signal.                             *)
Attended ==
    /\ Separate
    /\ FaultKinds \cap {"exception", "deadline"} = {}
    /\ "crash" \in FaultKinds => \A t \in Threads : JobOf[t] # "manual"

(* A signal for r is there or under way. *)
Peeking == {"releasePeek", "evictPeek"}
Pushing == {"releasePush", "evictPush"}
Coming(r) ==
    \/ turn[r] > 0
    \/ \E u \in Threads : pc[u] \in Peeking
                          \/ (pc[u] \in Pushing /\ seen[u] = r)

(* The last, silent removal of a cleanup finds nothing to remove, ... *)
Swept ==
    \A t \in Threads :
        /\ cleaning[t] => pc[t] \notin Acquiring \cup {"merging", "cleanup"}
        /\ pc[t] \in {"releasePeek", "releasePush", "sweep"}
              => ~ Contains(queue, Me(t))
        /\ pc[t] # "withdraw"

(* ... and a thread in its loop, in BRPOP or at the 5-second check, whose  *)
(* runner is the front has a signal coming.                                *)
Wakeable ==
    \A t \in Threads :
        pc[t] \in {"wait", "probe"} /\ IsFront(Me(t)) => Coming(Me(t))

Awake == Shape /\ Swept /\ Wakeable

(* Nobody waits at first. *)
LEMMA AwakeInit == Init => Awake
  BY ShapeInit DEF Init, Awake, Swept, Wakeable

(* These are the steps of a thread then. *)
LEMMA AttendedSteps ==
    ASSUME Attended, Awake, NEW t \in Threads, ThreadStep(t)
    PROVE  Begin(t) \/ (Step(t) /\ ~ Withdraw(t))
<1>1. ~ DeadlinePasses(t) /\ ~ AcquireRaises(t)
  BY DEF Attended, DeadlinePasses, AcquireRaises, Fault
<1>2. ~ CliDies(t)
  BY DEF Attended, CliDies, Fault
<1>3. ~ HeartbeatForces(t)
  BY DEF Attended, Separate, HeartbeatForces
<1>4. ~ Withdraw(t)
  BY DEF Awake, Swept, Withdraw
<1> QED
  BY <1>1, <1>2, <1>3, <1>4 DEF ThreadStep

(* A thread at the end of a release has no entry any more. *)
LEMMA SweptKept ==
    ASSUME Attended, Awake, NEW t \in Threads, ThreadStep(t)
    PROVE  Swept'
<1> USE DEF Awake
<1>0. /\ pc \in [Threads -> Labels] /\ cleaning \in [Threads -> BOOLEAN]
      /\ queue \in Seq(Runners) /\ Once(queue)
  BY DEF Shape, TypeOK, QueuedOnce
<1>1. ASSUME NEW u \in Threads, u # t
      PROVE  /\ cleaning'[u] => pc'[u] \notin Acquiring \cup {"merging", "cleanup"}
             /\ pc'[u] \in {"releasePeek", "releasePush", "sweep"}
                   => ~ Contains(queue', Me(u))
             /\ pc'[u] # "withdraw"
  <2>1. pc'[u] = pc[u] /\ cleaning'[u] = cleaning[u]
    BY <1>1, OthersStay DEF Shape
  <2>2. Contains(queue', Me(u)) => Contains(queue, Me(u))
    BY <1>1, OnlyOwnEnqueue DEF Attended
  <2> QED
    BY <2>1, <2>2 DEF Swept
<1>2. /\ cleaning'[t] => pc'[t] \notin Acquiring \cup {"merging", "cleanup"}
      /\ pc'[t] \in {"releasePeek", "releasePush", "sweep"}
            => ~ Contains(queue', Me(t))
      /\ pc'[t] # "withdraw"
  <2>0. /\ cleaning[t] => pc[t] \notin Acquiring \cup {"merging", "cleanup"}
        /\ pc[t] \in {"releasePeek", "releasePush", "sweep"}
              => ~ Contains(queue, Me(t))
    BY DEF Swept
  <2>1. CASE Begin(t)
    BY <1>0, <2>1 DEF Begin, Goto
  <2>2. CASE Release(t)
    <3>1. ~ Contains(queue', Me(t))
      BY <1>0, <2>2, RemoveFirstFacts DEF Release
    <3>2. /\ pc'[t] \in {"releasePeek", "idle", "sweep", "cleanup"}
          /\ cleaning'[t] = cleaning[t]
          /\ cleaning[t] => pc'[t] # "cleanup"
      BY <1>0, <2>2 DEF Release, Goto, locals, AfterTurn
    <3> QED
      BY <3>1, <3>2 DEF Acquiring
  <2>3. CASE ReleasePeek(t) \/ ReleasePush(t)
    <3>1. /\ UNCHANGED queue
          /\ pc[t] \in {"releasePeek", "releasePush"}
          /\ pc'[t] \in {"releasePush", "idle", "sweep", "cleanup"}
          /\ cleaning'[t] = cleaning[t]
          /\ cleaning[t] => pc'[t] # "cleanup"
      BY <1>0, <2>3
         DEF ReleasePeek, ReleasePush, Goto, redis, locals, AfterTurn
    <3> QED
      BY <2>0, <3>1 DEF Acquiring
  <2>4. CASE Cleanup(t)
    BY <1>0, <2>4 DEF Cleanup, Goto, Acquiring
  <2>5. CASE FinishMerge(t) \/ Sweep(t) \/ Retire(t)
    BY <1>0, <2>5 DEF FinishMerge, Sweep, Retire, Goto, Acquiring
  <2>6. CASE Enqueue(t) \/ CheckFront(t) \/ TakeSignal(t) \/ WaitTimesOut(t)
             \/ JudgeFront(t) \/ EvictFront(t) \/ EvictPush(t)
    <3>1. pc[t] \in Acquiring /\ cleaning'[t] = cleaning[t]
      BY <2>6 DEF Enqueue, CheckFront, TakeSignal, WaitTimesOut, JudgeFront,
         EvictFront, EvictPush, Acquiring, locals
    <3>2. pc'[t] \in (Acquiring \ {"withdraw"}) \cup {"merging"}
      BY <1>0, <2>6 DEF Enqueue, CheckFront, TakeSignal, WaitTimesOut,
         JudgeFront, EvictFront, EvictPush, Goto, Acquiring
    <3> QED
      BY <2>0, <3>1, <3>2 DEF Acquiring
  <2>7. CASE ProbeFront(t) \/ EvictPeek(t)
    <3>1. pc[t] \in Acquiring /\ cleaning'[t] = cleaning[t] /\ ~ cleaning[t]
      BY <2>0, <2>7 DEF ProbeFront, EvictPeek, Acquiring
    <3>2. pc'[t] \in {"wait", "judge", "promote", "evictPush", "idle", "cleanup"}
      BY <1>0, <2>7, <3>1 DEF ProbeFront, EvictPeek, Goto, AfterTurn
    <3> QED
      BY <3>1, <3>2
  <2> QED
    BY <2>1, <2>2, <2>3, <2>4, <2>5, <2>6, <2>7, AttendedSteps DEF Step
<1> QED
  BY <1>1, <1>2 DEF Swept, Me

(* A signal that is there or under way stays so as long as nobody takes    *)
(* it, unless it is in the hands of the thread that takes the step.        *)
LEMMA ComingStays ==
    ASSUME Shape, Shape', NEW t \in Threads, ThreadStep(t), NEW r \in Runners,
           Coming(r), turn'[r] >= turn[r],
           pc[t] \notin Peeking,
           pc[t] \in Pushing /\ seen[t] = r => Coming(r)'
    PROVE  Coming(r)'
<1>0. turn[r] \in Nat /\ turn'[r] \in Nat
  BY DEF Shape, TypeOK
<1>1. CASE turn[r] > 0
  <2>1. turn'[r] > 0
    BY <1>0, <1>1
  <2> QED
    BY <2>1 DEF Coming
<1>2. ASSUME NEW u \in Threads,
             pc[u] \in Peeking \/ (pc[u] \in Pushing /\ seen[u] = r)
      PROVE  Coming(r)'
  <2>1. CASE u = t
    BY <1>2, <2>1
  <2>2. CASE u # t
    BY <1>2, <2>2, OthersStay DEF Coming, Shape
  <2> QED
    BY <2>1, <2>2
<1> QED
  BY <1>1, <1>2 DEF Coming

(* The signals that a step leaves: only the own runner's may go down. *)
LEMMA SignalsStay ==
    ASSUME Shape, NEW t \in Threads, Begin(t) \/ Step(t),
           NEW r \in Runners
    PROVE  \/ turn'[r] >= turn[r]
           \/ r = Me(t) /\ (Begin(t) \/ TakeSignal(t))
<1>0. turn \in [Runners -> Nat] /\ seen[t] \in Runners
  BY DEF Shape, TypeOK
<1>1. CASE UNCHANGED turn
  BY <1>0, <1>1
<1>2. CASE Signal(seen[t])
  BY <1>0, <1>2 DEF Signal
<1>3. CASE Begin(t)
  BY <1>0, <1>3 DEF Begin
<1>4. CASE TakeSignal(t)
  BY <1>0, <1>4 DEF TakeSignal
<1> QED
  BY <1>1, <1>2, <1>3, <1>4
     DEF Step, Enqueue, CheckFront, WaitTimesOut, ProbeFront, JudgeFront,
         EvictFront, EvictPeek, EvictPush, Withdraw, FinishMerge, Release,
         ReleasePeek, ReleasePush, Cleanup, Sweep, Retire, redis

(* A runner becomes the front only when somebody's entry is taken out, and *)
(* whoever takes it out goes on to signal the front.                       *)
LEMMA NewFrontIsSignalled ==
    ASSUME Attended, Awake, NEW t \in Threads, ThreadStep(t),
           NEW x \in Threads, pc'[x] \in {"wait", "probe"}, IsFront(Me(x))'
    PROVE  IsFront(Me(x)) \/ pc'[t] \in Peeking
<1> USE DEF Awake
<1>0. /\ pc \in [Threads -> Labels] /\ queue \in Seq(Runners) /\ Once(queue)
      /\ Me(t) \in Runners
  BY QueueAssumption DEF Shape, TypeOK, QueuedOnce, Me
<1>1. CASE UNCHANGED queue
  BY <1>1 DEF IsFront, Me
<1>2. CASE EvictFront(t)
  BY <1>0, <1>2 DEF EvictFront, Goto, Peeking
<1>3. CASE Release(t)
  <2>1. CASE Contains(queue, Me(t))
    BY <1>0, <1>3, <2>1 DEF Release, Goto, Peeking
  <2>2. CASE ~ Contains(queue, Me(t))
    <3>1. UNCHANGED queue
      BY <1>0, <1>3, <2>2 DEF Release, RemoveFirst, Contains
    <3> QED
      BY <1>1, <3>1
  <2> QED
    BY <2>1, <2>2
<1>4. CASE Sweep(t)
  <2>1. ~ Contains(queue, Me(t))
    BY <1>4 DEF Sweep, Swept
  <2>2. UNCHANGED queue
    BY <1>0, <1>4, <2>1 DEF Sweep, RemoveFirst, Contains
  <2> QED
    BY <1>1, <2>2
<1>5. CASE Enqueue(t) /\ queue' = Append(queue, Me(t))
  <2>1. pc'[t] = "look"
    BY <1>0, <1>5 DEF Enqueue, Goto
  <2>2. Me(x) # Me(t)
    BY <2>1 DEF Attended, Separate
  <2>3. Head(queue') = Me(x)
    BY DEF IsFront, Me
  <2>4. CASE queue = <<>>
    BY <1>0, <1>5, <2>2, <2>3, <2>4
  <2>5. CASE queue # <<>>
    BY <1>0, <1>5, <2>3, <2>5, FrontRemains DEF IsFront
  <2> QED
    BY <2>4, <2>5
<1> QED
  BY <1>1, <1>2, <1>3, <1>4, <1>5, AttendedSteps
     DEF Step, Begin, Enqueue, CheckFront, TakeSignal, WaitTimesOut,
         ProbeFront, JudgeFront, EvictPeek, EvictPush, FinishMerge,
         ReleasePeek, ReleasePush, Cleanup, Retire, redis

(* A thread that comes to wait at the front was already waiting there.     *)
LEMMA WaitersWaited ==
    ASSUME Attended, Awake, NEW t \in Threads, ThreadStep(t),
           pc'[t] \in {"wait", "probe"}, IsFront(Me(t))'
    PROVE  /\ WaitTimesOut(t) \/ ProbeFront(t)
           /\ pc[t] \in {"wait", "probe"}
           /\ UNCHANGED <<queue, turn>>
<1> USE DEF Awake
<1>0. pc \in [Threads -> Labels]
  BY DEF Shape, TypeOK
<1>1. AfterTurn(t) \notin {"wait", "probe"}
  BY AfterTurnIsLabel DEF Shape
<1>2. ~ CheckFront(t)
  BY <1>0 DEF CheckFront, Goto, IsFront, Me, redis
<1>3. WaitTimesOut(t) \/ ProbeFront(t)
  BY <1>0, <1>1, <1>2, AttendedSteps
     DEF Goto, Step, Begin, Enqueue, TakeSignal, JudgeFront, EvictFront,
         EvictPeek, EvictPush, FinishMerge, Release, ReleasePeek,
         ReleasePush, Cleanup, Sweep, Retire
<1> QED
  BY <1>3 DEF WaitTimesOut, ProbeFront, redis

(* Who waits at the front after a step has a signal coming. *)
LEMMA WakeableKept ==
    ASSUME Attended, Awake, NEW t \in Threads, ThreadStep(t)
    PROVE  Wakeable'
<1> USE DEF Awake
<1>0. /\ pc \in [Threads -> Labels] /\ queue \in Seq(Runners)
      /\ turn \in [Runners -> Nat] /\ seen \in [Threads -> Runners]
      /\ \A u \in Threads : Me(u) \in Runners
  BY QueueAssumption DEF Shape, TypeOK, Me
<1> SUFFICES ASSUME NEW x \in Threads, pc'[x] \in {"wait", "probe"},
                    IsFront(Me(x))'
             PROVE  Coming(Me(x))'
  BY DEF Wakeable, Coming, Me
<1>1. CASE pc'[t] \in Peeking
  BY <1>1 DEF Coming
<1>2. CASE pc[t] \in Peeking
  <2>1. EvictPeek(t) \/ ReleasePeek(t)
    BY <1>2, AttendedSteps DEF Peeking, Step, Begin, Enqueue, CheckFront,
       TakeSignal, WaitTimesOut, ProbeFront, JudgeFront, EvictFront,
       EvictPush, FinishMerge, Release, ReleasePush, Cleanup, Sweep, Retire
  <2>2. UNCHANGED queue
    BY <2>1 DEF EvictPeek, ReleasePeek, redis
  <2>3. queue # <<>> /\ Head(queue) = Me(x)
    BY <2>2 DEF IsFront, Me
  <2>4. pc'[t] \in Pushing /\ seen'[t] = Me(x)
    BY <1>0, <2>1, <2>3 DEF EvictPeek, ReleasePeek, Read, Goto, Pushing
  <2> QED
    BY <2>4 DEF Coming
<1>3. CASE pc[t] \notin Peeking /\ pc'[t] \notin Peeking
  <2>0. Shape'
    BY ShapeInductive DEF Next, ThreadStep
  <2>1. pc[x] \in {"wait", "probe"}
    <3>1. CASE x = t
      BY <3>1, WaitersWaited
    <3>2. CASE x # t
      BY <3>2, OthersStay DEF Shape
    <3> QED
      BY <3>1, <3>2
  <2>2. Coming(Me(x))
    BY <1>3, <2>1, NewFrontIsSignalled DEF Wakeable
  <2>3. turn'[Me(x)] >= turn[Me(x)]
    <3>1. CASE x = t
      BY <1>0, <3>1, WaitersWaited
    <3>2. CASE x # t
      <4>1. Me(x) # Me(t)
        BY <3>2 DEF Attended, Separate
      <4> QED
        BY <1>0, <4>1, AttendedSteps, SignalsStay
    <3> QED
      BY <3>1, <3>2
  <2>4. ASSUME pc[t] \in Pushing, seen[t] = Me(x)
        PROVE  Coming(Me(x))'
    <3>1. EvictPush(t) \/ ReleasePush(t)
      BY <2>4, AttendedSteps DEF Pushing, Step, Begin, Enqueue, CheckFront,
         TakeSignal, WaitTimesOut, ProbeFront, JudgeFront, EvictFront,
         EvictPeek, FinishMerge, Release, ReleasePeek, Cleanup, Sweep, Retire
    <3>2. turn'[Me(x)] > 0
      BY <1>0, <2>4, <3>1 DEF EvictPush, ReleasePush, Signal
    <3> QED
      BY <3>2 DEF Coming
  <2> QED
    BY <1>0, <1>3, <2>0, <2>2, <2>3, <2>4, ComingStays
<1> QED
  BY <1>1, <1>2, <1>3

(* The environment's steps. *)
LEMMA AwakeEnvironment ==
    ASSUME Attended, Awake,
           \/ \E r \in Runners : ProcessExits(r)
           \/ QueueVanishes \/ ListenerDies \/ UNCHANGED vars
    PROVE  Swept' /\ Wakeable'
<1> USE DEF Awake
<1>1. CASE (\E r \in Runners : ProcessExits(r)) \/ UNCHANGED vars
  <2>1. UNCHANGED <<queue, turn, pc, seen, cleaning>>
    BY <1>1 DEF ProcessExits, vars, locals
  <2> QED
    BY <2>1 DEF Swept, Wakeable, Coming, IsFront, Me
<1>2. CASE QueueVanishes
  <2>1. queue' = <<>> /\ UNCHANGED <<turn, pc, seen, cleaning>>
    BY <1>2 DEF QueueVanishes, locals
  <2>2. \A r : ~ Contains(<<>>, r)
    BY DEF Contains
  <2> QED
    BY <2>1, <2>2 DEF Swept, Wakeable, IsFront, Me
<1>3. CASE ListenerDies
  <2>1. \A t \in Threads : pc'[t] \in {"idle", "dead"}
    BY <1>3 DEF ListenerDies, Fault, Attended
  <2> QED
    BY <2>1 DEF Swept, Wakeable, Acquiring
<1> QED
  BY <1>1, <1>2, <1>3

(* Every step. *)
LEMMA AwakeInductive == Attended /\ Awake /\ [Next]_vars => Awake'
<1> SUFFICES ASSUME Attended, Awake, [Next]_vars PROVE Awake'
  OBVIOUS
<1>1. Shape'
  BY ShapeInductive DEF Awake
<1>2. CASE \E t \in Threads : ThreadStep(t)
  BY <1>1, <1>2, SweptKept, WakeableKept DEF Awake
<1>3. CASE ~ \E t \in Threads : ThreadStep(t)
  BY <1>1, <1>3, AwakeEnvironment DEF Next, ThreadStep, Finished, Awake
<1> QED
  BY <1>2, <1>3

(* No lost wake-up: for any number of runners, each with one merge job, a  *)
(* thread that waits at the front of the queue has a signal, or somebody   *)
(* is about to send it one, although signals are read and pushed in        *)
(* separate steps and addressed by what was the front earlier.             *)
THEOREM FrontIsNotStranded == Attended /\ Spec => []NoStrandedFront
<1>1. Awake => NoStrandedFront
  BY DEF Awake, Wakeable, NoStrandedFront, Coming, Peeking, Pushing
<1>2. CASE Attended
  <2>1. Awake /\ [Next]_vars => Awake'
    BY <1>2, AwakeInductive
  <2> QED
    BY <2>1, <1>1, AwakeInit, PTL DEF Spec
<1> QED
  BY <1>2
-----------------------------------------------------------------------------
(* The Redis protocol implements the abstract line.                        *)

(* The sequence operators of MergeTurn are those of this module. *)
LEMMA TurnContains ==
    ASSUME NEW s, NEW r
    PROVE  Turn!Contains(s, r) <=> Contains(s, r)
  BY DEF Contains, Turn!Contains

(* The removal is the same one, too. *)
LEMMA TurnRemoveFirst ==
    ASSUME NEW s, NEW r
    PROVE  Turn!RemoveFirst(s, r) = RemoveFirst(s, r)
  BY DEF RemoveFirst, Turn!RemoveFirst, SelectInSeq, Turn!SelectInSeq,
         RemoveAt, Turn!RemoveAt, Min, Turn!Min

(* What a step of one thread does to its abstract state. *)
LEMMA TurnStateOf ==
    ASSUME TypeOK, NEW t \in Threads, NEW label, Goto(t, label)
    PROVE  /\ label \in Acquiring =>
                 turnState' = [turnState EXCEPT ![t] = "asking"]
           /\ label = "merging" =>
                 turnState' = [turnState EXCEPT ![t] = "granted"]
           /\ label \notin Acquiring \cup {"merging"} =>
                 turnState' = [u \in Threads |-> IF u \in {t} THEN "out"
                                                 ELSE turnState[u]]
  BY DEF TypeOK, Goto, turnState, Acquiring

(* The initial states correspond. *)
LEMMA TurnInit == Init => Turn!Init
  BY DEF Init, Turn!Init, turnState, Acquiring

(* A step that moves one thread and leaves the queue alone. *)
LEMMA MoveMapsToTurn ==
    ASSUME Shape, NEW t \in Threads, NEW label, Goto(t, label), UNCHANGED queue,
           label \in Acquiring => pc[t] \in Acquiring \cup {"idle"},
           label = "merging" => pc[t] \in Acquiring /\ IsFront(Me(t))
    PROVE  [Turn!Next]_(Turn!turnVars)
<1> USE DEF Shape
<1>0. turnState \in [Threads -> Turn!States] /\ pc \in [Threads -> Labels]
  BY DEF TypeOK, turnState, Turn!States
<1>1. CASE label \in Acquiring
  <2>1. turnState' = [turnState EXCEPT ![t] = "asking"]
    BY <1>1, TurnStateOf
  <2>2. CASE pc[t] \in Acquiring
    <3>1. turnState[t] = "asking"
      BY <2>2 DEF turnState
    <3> QED
      BY <1>0, <2>1, <3>1 DEF Turn!turnVars
  <2>3. CASE pc[t] = "idle"
    <3>1. turnState[t] = "out"
      BY <2>3 DEF turnState, Acquiring
    <3>2. Turn!Ask(t)
      BY <2>1, <3>1 DEF Turn!Ask
    <3> QED
      BY <3>2 DEF Turn!Next
  <2> QED
    BY <1>1, <2>2, <2>3
<1>2. CASE label = "merging"
  <2>1. turnState' = [turnState EXCEPT ![t] = "granted"]
    BY <1>2, TurnStateOf
  <2>2. turnState[t] = "asking"
    BY <1>2 DEF turnState
  <2>3. Turn!Grant(t)
    BY <1>2, <2>1, <2>2 DEF Turn!Grant, IsFront, Me
  <2> QED
    BY <2>3 DEF Turn!Next
<1>3. CASE label \notin Acquiring \cup {"merging"}
  <2>1. Turn!Leave({t})
    BY <1>3, TurnStateOf DEF Turn!Leave
  <2> QED
    BY <2>1 DEF Turn!Next
<1> QED
  BY <1>1, <1>2, <1>3

(* Every step of the protocol is a step of the line, or a stutter. *)
LEMMA TurnStep == Shape /\ [Next]_vars => [Turn!Next]_(Turn!turnVars)
<1> SUFFICES ASSUME Shape, [Next]_vars PROVE [Turn!Next]_(Turn!turnVars)
  OBVIOUS
<1> USE DEF Shape
<1>0. \A t \in Threads : /\ Me(t) = RunnerOf[t]
                         /\ Me(t) \in Runners
                         /\ AfterTurn(t) \notin Acquiring \cup {"merging"}
  BY QueueAssumption, AfterTurnIsLabel DEF Me, Acquiring
<1>1. ASSUME NEW t \in Threads,
             \/ Begin(t) \/ HeartbeatForces(t) \/ TakeSignal(t)
             \/ WaitTimesOut(t) \/ ProbeFront(t) \/ JudgeFront(t)
             \/ EvictPeek(t) \/ EvictPush(t) \/ DeadlinePasses(t)
             \/ FinishMerge(t) \/ ReleasePeek(t) \/ ReleasePush(t)
             \/ Cleanup(t) \/ Retire(t) \/ CliDies(t) \/ CheckFront(t)
      PROVE  [Turn!Next]_(Turn!turnVars)
  <2>1. /\ UNCHANGED queue
        /\ \E label : /\ Goto(t, label)
                      /\ label \in Acquiring => pc[t] \in Acquiring \cup {"idle"}
                      /\ label = "merging" => pc[t] \in Acquiring /\ IsFront(Me(t))
    BY <1>0, <1>1 DEF Begin, HeartbeatForces, TakeSignal, WaitTimesOut,
            ProbeFront, JudgeFront, EvictPeek, EvictPush, DeadlinePasses,
            FinishMerge, ReleasePeek, ReleasePush, Cleanup, Retire, CliDies,
            CheckFront, Acquiring, redis
  <2> QED
    BY <2>1, MoveMapsToTurn DEF Acquiring
<1>2. ASSUME NEW t \in Threads, Enqueue(t)
      PROVE  [Turn!Next]_(Turn!turnVars)
  <2>1. turnState[t] = "asking" /\ UNCHANGED turnState
    <3>1. turnState' = [turnState EXCEPT ![t] = "asking"]
      BY <1>2, TurnStateOf DEF Enqueue, Acquiring
    <3>2. turnState[t] = "asking"
      BY <1>2 DEF Enqueue, turnState, Acquiring
    <3> QED
      BY <3>1, <3>2 DEF turnState
  <2>2. CASE Contains(queue, Me(t))
    BY <1>2, <2>1, <2>2 DEF Enqueue, Turn!turnVars
  <2>3. CASE ~ Contains(queue, Me(t))
    <3>1. Turn!Join(t)
      BY <1>0, <1>2, <2>1, <2>3, TurnContains DEF Enqueue, Turn!Join
    <3> QED
      BY <3>1 DEF Turn!Next
  <2> QED
    BY <2>2, <2>3
<1>3. ASSUME NEW t \in Threads, EvictFront(t) \/ Release(t) \/ Sweep(t)
      PROVE  [Turn!Next]_(Turn!turnVars)
  <2>1. \E r \in Runners : queue' = RemoveFirst(queue, r)
    BY <1>0, <1>3 DEF EvictFront, Release, Sweep, TypeOK
  <2>2. UNCHANGED turnState
    <3>1. CASE EvictFront(t)
      BY <3>1 DEF EvictFront, Goto, TypeOK, turnState, Acquiring
    <3>2. CASE Release(t) \/ Sweep(t)
      BY <1>0, <3>2 DEF Release, Sweep, Goto, TypeOK, turnState, Acquiring
    <3> QED
      BY <1>3, <3>1, <3>2
  <2>3. \E r \in Runners : Turn!Drop(r)
    BY <2>1, <2>2, TurnRemoveFirst DEF Turn!Drop
  <2> QED
    BY <2>3 DEF Turn!Next
<1>4. ASSUME NEW t \in Threads, Withdraw(t) \/ AcquireRaises(t)
      PROVE  [Turn!Next]_(Turn!turnVars)
  <2>1. CASE UNCHANGED queue /\ Goto(t, AfterTurn(t))
    BY <1>0, <2>1, MoveMapsToTurn DEF Acquiring
  <2>2. CASE queue' = RemoveFirst(queue, Me(t)) /\ Goto(t, AfterTurn(t))
    <3>1. turnState[t] = "asking"
      BY <1>4 DEF Withdraw, AcquireRaises, turnState, Acquiring
    <3>2. turnState' = [turnState EXCEPT ![t] = "out"]
      <4>1. turnState' = [u \in Threads |-> IF u \in {t} THEN "out"
                                            ELSE turnState[u]]
        BY <1>0, <2>2, TurnStateOf
      <4>2. turnState = [u \in Threads |-> turnState[u]]
        BY DEF turnState
      <4> QED
        BY <4>1, <4>2
    <3>3. Turn!Withdraw(t)
      BY <1>0, <2>2, <3>1, <3>2, TurnRemoveFirst DEF Turn!Withdraw
    <3> QED
      BY <3>3 DEF Turn!Next
  <2> QED
    BY <1>4, <2>1, <2>2 DEF Withdraw, AcquireRaises
<1>5. CASE \E r \in Runners : ProcessExits(r)
  BY <1>5 DEF ProcessExits, turnState, Turn!turnVars
<1>6. CASE QueueVanishes
  BY <1>6 DEF QueueVanishes, turnState, Turn!Vanish, Turn!Next
<1>7. CASE ListenerDies
  <2> DEFINE S == {t \in Threads : JobOf[t] # "manual" /\ pc[t] # "idle"}
  <2>1. turnState' = [t \in Threads |-> IF t \in S THEN "out" ELSE turnState[t]]
    BY <1>7 DEF ListenerDies, turnState, Acquiring
  <2>2. Turn!Leave(S)
    BY <1>7, <2>1 DEF ListenerDies, Turn!Leave, redis
  <2> QED
    BY <2>2 DEF Turn!Next
<1>8. CASE UNCHANGED vars
  BY <1>8 DEF vars, turnState, Turn!turnVars
<1> QED
  BY <1>1, <1>2, <1>3, <1>4, <1>5, <1>6, <1>7, <1>8 DEF Next, Step, Finished

(* For any threads, jobs and faults, the Redis commands implement the      *)
(* abstract line: entries join at the end and once, and only a thread      *)
(* whose runner is first is granted the turn.                              *)
THEOREM QueueImplementsTurn == Spec => ImplementsMergeTurn
<1>1. Init => Turn!Init
  BY TurnInit
<1> QED
  BY <1>1, ShapeInit, ShapeInductive, TurnStep, PTL
     DEF Spec, ImplementsMergeTurn, Turn!TurnSpec
=============================================================================

-------------------------- MODULE CrawlRequests_proofs --------------------------
(***************************************************************************)
(* Theorems about CrawlRequests, for any requests, slots and limits, any   *)
(* number of cancels and retries, and any set of faults.                   *)
(***************************************************************************)
EXTENDS CrawlRequests, SequenceTheorems, FiniteSetTheorems,
        WellFoundedInduction, TLAPS

-----------------------------------------------------------------------------
(* What is in a list of requests.                                          *)

(* An append adds its element and nothing else.                            *)
LEMMA AppendHas ==
    ASSUME NEW q \in Seq(Requests), NEW x \in Requests
    PROVE  /\ Append(q, x) \in Seq(Requests)
           /\ \A y : Contains(Append(q, x), y) <=> Contains(q, y) \/ y = x
  BY AppendProperties DEF Contains

(* The head and the tail have what the list has.                           *)
LEMMA HeadTailHas ==
    ASSUME NEW q \in Seq(Requests), q # <<>>
    PROVE  /\ Head(q) \in Requests /\ Tail(q) \in Seq(Requests)
           /\ \A y : Contains(q, y) <=> Contains(Tail(q), y) \/ y = Head(q)
<1>1. /\ Len(q) \in Nat \ {0} /\ Head(q) = q[1] /\ Head(q) \in Requests
      /\ Tail(q) \in Seq(Requests) /\ Len(Tail(q)) = Len(q) - 1
      /\ \A i \in 1 .. Len(Tail(q)) : Tail(q)[i] = q[i + 1]
  BY HeadTailProperties, EmptySeq
<1>2. ASSUME NEW i \in 1 .. Len(q) PROVE Contains(Tail(q), q[i]) \/ q[i] = Head(q)
  <2>1. CASE i = 1
    BY <1>1, <2>1
  <2>2. CASE i # 1
    <3>1. i - 1 \in 1 .. Len(Tail(q)) /\ Tail(q)[i - 1] = q[i]
      BY <1>1, <2>2
    <3> QED
      BY <3>1 DEF Contains
  <2> QED
    BY <2>1, <2>2
<1>3. ASSUME NEW i \in 1 .. Len(Tail(q)) PROVE Contains(q, Tail(q)[i])
  <2>1. i + 1 \in 1 .. Len(q) /\ q[i + 1] = Tail(q)[i]
    BY <1>1
  <2> QED
    BY <2>1 DEF Contains
<1>4. Contains(q, Head(q))
  BY <1>1 DEF Contains
<1> QED
  BY <1>1, <1>2, <1>3, <1>4 DEF Contains

(* The empty list has nothing.                                             *)
LEMMA EmptyHas == \A y : ~Contains(<<>>, y)
  BY DEF Contains

(* The last entry of a request that the list has is one of its entries.    *)
LEMMA LastIndexIs ==
    ASSUME queue \in Seq(Requests), NEW r \in Requests, Contains(queue, r)
    PROVE  LastIndexOf(r) \in 1 .. Len(queue) /\ queue[LastIndexOf(r)] = r
<1> DEFINE T == {Len(queue) - i : i \in {j \in 1 .. Len(queue) : queue[j] = r}}
<1>1. Len(queue) \in Nat /\ DOMAIN queue = 1 .. Len(queue)
  OBVIOUS
<1>2. T \subseteq Nat /\ T # {}
  BY <1>1 DEF Contains
<1>3. IsWellFoundedOn(OpToRel(<, Nat), Nat)
  BY NatLessThanWellFounded
<1> HIDE DEF T
<1>4. PICK m \in T : \A k \in T : ~(<<k, m>> \in OpToRel(<, Nat))
  BY <1>2, <1>3, WFMin
<1> USE DEF T
<1>5. \A k \in T : ~(k < m)
  BY <1>2, <1>4, Zenon DEF OpToRel
<1>6. PICK i \in 1 .. Len(queue) : queue[i] = r /\ m = Len(queue) - i
  BY <1>4
<1>7. ASSUME NEW j \in 1 .. Len(queue), queue[j] = r PROVE j <= i
  <2>1. Len(queue) - j \in T
    BY <1>7
  <2>2. ~(Len(queue) - j < m)
    BY <1>5, <2>1
  <2> QED
    BY <1>1, <1>6, <2>2
<1>8. \E k \in DOMAIN queue :
         /\ queue[k] = r
         /\ \A j \in DOMAIN queue : queue[j] = r => j <= k
  BY <1>1, <1>6, <1>7
<1> QED
  BY <1>1, <1>8 DEF LastIndexOf

(* Removing one entry of a request leaves those of the others.             *)
LEMMA RemoveHas ==
    ASSUME NEW q \in Seq(Requests), NEW i \in 1 .. Len(q)
    PROVE  /\ RemoveAt(q, i) \in Seq(Requests)
           /\ \A y : Contains(RemoveAt(q, i), y) => Contains(q, y)
           /\ \A y : Contains(q, y) /\ y # q[i] => Contains(RemoveAt(q, i), y)
<1> DEFINE a == SubSeq(q, 1, i - 1)
           b == SubSeq(q, i + 1, Len(q))
           s == a \o b
<1>1. Len(q) \in Nat /\ i \in Nat /\ \A j \in 1 .. Len(q) : q[j] \in Requests
  OBVIOUS
<1>2. a \in Seq(Requests) /\ Len(a) = i - 1 /\ \A j \in 1 .. i - 1 : a[j] = q[j]
  BY <1>1
<1>3. b \in Seq(Requests) /\ Len(b) = Len(q) - i
      /\ \A j \in 1 .. Len(q) - i : b[j] = q[j + i]
  BY <1>1
<1> HIDE DEF a, b
<1>4. /\ s \in Seq(Requests) /\ Len(s) = Len(q) - 1
      /\ \A j \in 1 .. Len(q) - 1 : s[j] = IF j < i THEN q[j] ELSE q[j + 1]
  <2>1. /\ s \in Seq(Requests) /\ Len(s) = Len(q) - 1
        /\ \A j \in 1 .. Len(s) : s[j] = IF j <= i - 1 THEN a[j] ELSE b[j - (i - 1)]
    <3>1. /\ s \in Seq(Requests) /\ Len(s) = Len(a) + Len(b)
          /\ \A j \in 1 .. Len(a) + Len(b) :
                s[j] = IF j <= Len(a) THEN a[j] ELSE b[j - Len(a)]
      BY <1>2, <1>3, ConcatProperties
    <3>2. Len(a) + Len(b) = Len(q) - 1 /\ Len(a) = i - 1
      BY <1>1, <1>2, <1>3
    <3> HIDE DEF s
    <3> QED
      BY <3>1, <3>2
  <2>2. ASSUME NEW j \in 1 .. Len(q) - 1
        PROVE  s[j] = IF j < i THEN q[j] ELSE q[j + 1]
    <3>1. CASE j < i
      BY <1>1, <1>2, <2>1, <3>1
    <3>2. CASE ~(j < i)
      <4>1. j - (i - 1) \in 1 .. Len(q) - i /\ j - (i - 1) + i = j + 1
        BY <1>1, <3>2
      <4> QED
        BY <1>1, <1>3, <2>1, <3>2, <4>1
    <3> QED
      BY <3>1, <3>2
  <2> QED
    BY <2>1, <2>2
<1>5. s = RemoveAt(q, i)
  BY DEF RemoveAt, a, b
<1> HIDE DEF s
<1>6. ASSUME NEW j \in 1 .. Len(s) PROVE Contains(q, s[j])
  BY <1>1, <1>4, <1>6 DEF Contains
<1>7. ASSUME NEW j \in 1 .. Len(q), j # i PROVE Contains(s, q[j])
  <2>1. CASE j < i
    BY <1>1, <1>4, <2>1 DEF Contains
  <2>2. CASE j > i
    <3>1. j - 1 \in 1 .. Len(s) /\ s[j - 1] = q[j]
      BY <1>1, <1>4, <2>2
    <3> QED
      BY <3>1 DEF Contains
  <2> QED
    BY <1>1, <1>7, <2>1, <2>2
<1>8. \A y : Contains(s, y) => Contains(q, y)
  BY <1>6 DEF Contains
<1>9. \A y : Contains(q, y) /\ y # q[i] => Contains(s, y)
  BY <1>7 DEF Contains
<1> QED
  BY <1>4, <1>5, <1>8, <1>9

(* The rows a query returns in order are among those it selects.           *)
LEMMA InOrderHas ==
    ASSUME NEW R \in SUBSET Requests, NEW s \in InOrder(R)
    PROVE  s \in Seq(Requests) /\ \A y : Contains(s, y) => y \in R
<1>1. Cardinality(R) \in Nat
  BY CrawlRequestsAssumption, FS_Subset, FS_CardinalityType
<1>2. s \in [1 .. Cardinality(R) -> R]
  BY DEF InOrder
<1>3. s \in Seq(R) /\ Len(s) = Cardinality(R)
  BY <1>1, <1>2
<1> QED
  BY <1>2, <1>3 DEF Contains

-----------------------------------------------------------------------------
(* The worker, and who refers to which rows.                               *)

(* A request is in somebody's hands.                                       *)
HeldBy(r) ==
    \/ Contains(queue, r) \/ creating[r] # "none" \/ cancel[r] # "none"
    \/ worker.req = r \/ Contains(worker.found, r) \/ r \in worker.pushed
    \/ task[r] # "none"

(* Nobody has a request without a row, and the row was asked for once and  *)
(* then by retries.                                                        *)
Known ==
    \A r \in Requests : /\ status[r] = "new" <=> asked[r] = 0
                        /\ HeldBy(r) => asked[r] # 0
                        /\ asked[r] <= userOps + 1

(* The worker has a request between its read and its commit, has rows to   *)
(* push only in a recovery, and recovers before it runs anything.          *)
WorkerOrder ==
    /\ worker.pc \in {"reading", "taking"} => worker.req \in Requests
    /\ worker.pc \notin {"reading", "taking"} => worker.req = NoRequest
    /\ worker.pc # "recovering" => worker.found = <<>> /\ worker.pushed = {}
    /\ worker.pc \in {"down", "starting", "recovering"} =>
          \A r \in Requests : task[r] = "none"
    /\ worker.pc \notin {"down", "starting", "recovering"} => worker.mode # "unknown"
    /\ worker.pc = "taking" => task[worker.req] = "none"

(* A row that a task has is not queued.                                    *)
TaskIsTaken == \A r \in Requests : task[r] # "none" => status[r] # "queued"

RowTypes ==
    /\ status \in [Requests -> Statuses]
    /\ asked \in [Requests -> 0 .. MaxUserOps + 1]
    /\ queue \in Seq(Requests)
    /\ creating \in [Requests -> {"none", "pushing", "falling back", "done"}]
    /\ cancel \in [Requests -> {"none", "removing", "committing", "done"}]
    /\ userOps \in 0 .. MaxUserOps
    /\ task \in [Requests -> {"none", "picked", "running"}]
    /\ runs \in [Requests -> Nat]
    /\ faults \subseteq FaultKinds

WorkerType ==
    worker \in [pc : {"down", "starting", "recovering", "free", "reading",
                      "taking"},
                mode : {"unknown", "redis", "poll"},
                req : Requests \cup {NoRequest},
                found : Seq(Requests), pushed : SUBSET Requests]

Base == RowTypes /\ WorkerType /\ Known /\ WorkerOrder /\ TaskIsTaken

(* The worker is as before but for its label and its mode.                 *)
Moves(pc) ==
    /\ worker'.pc = pc /\ worker'.req = worker.req
    /\ worker'.found = worker.found /\ worker'.pushed = worker.pushed

(* _on_start fails stale rows and goes on.                                 *)
LEMMA StartDoes ==
    ASSUME Base, Start
    PROVE  /\ WorkerType' /\ worker.pc = "down" /\ worker'.mode = worker.mode
           /\ Moves(IF worker.mode = "unknown" THEN "starting" ELSE "free")
           /\ \A r \in Requests :
                 \/ status'[r] = status[r]
                 \/ status[r] \in {"picked", "processing"} /\ status'[r] = "failed"
           /\ status' \in [Requests -> Statuses]
           /\ UNCHANGED <<queue, api, task, runs, faults>>
<1> USE DEF Base, RowTypes, WorkerType
<1>1. WorkerType' /\ Moves(IF worker.mode = "unknown" THEN "starting" ELSE "free")
      /\ worker'.mode = worker.mode
  BY DEF Start, Goto, WorkerType, Moves
<1>2. PICK stale \in SUBSET {r \in Requests : status[r] \in {"picked", "processing"}} :
         status' = [r \in Requests |-> IF r \in stale THEN "failed" ELSE status[r]]
  BY DEF Start, SetStatus
<1>3. status' \in [Requests -> Statuses]
  BY <1>2 DEF Statuses
<1>4. ASSUME NEW r \in Requests
      PROVE  \/ status'[r] = status[r]
             \/ status[r] \in {"picked", "processing"} /\ status'[r] = "failed"
  BY <1>2
<1> QED
  BY <1>1, <1>3, <1>4 DEF Start, At

(* _setup_redis finds pending rows to push, or goes on without Redis.      *)
LEMMA SetupDoes ==
    ASSUME Base, Setup
    PROVE  /\ WorkerType' /\ worker.pc = "starting"
           /\ worker'.pc = "free" => worker'.mode # "unknown"
           /\ worker'.req = worker.req /\ worker'.pushed = worker.pushed
           /\ \/ /\ worker'.pc = "recovering" /\ faults' = faults
                 /\ \A r : Contains(worker'.found, r) => r \in Pending
              \/ /\ worker'.pc = "free" /\ worker'.found = worker.found
                 /\ Fault("poll")
           /\ UNCHANGED <<status, queue, api, task, runs>>
<1> USE DEF Base, RowTypes, WorkerType
<1>1. ASSUME NEW found \in InOrder(Oldest(RecoverLimit, Pending)),
             worker' = [worker EXCEPT !.pc = "recovering", !.found = found]
      PROVE  /\ WorkerType' /\ worker'.pc = "recovering"
             /\ worker'.req = worker.req /\ worker'.pushed = worker.pushed
             /\ \A r : Contains(worker'.found, r) => r \in Pending
  <2>1. Oldest(RecoverLimit, Pending) \in SUBSET Requests
        /\ Oldest(RecoverLimit, Pending) \subseteq Pending
    BY DEF Oldest, Pending
  <2>2. found \in Seq(Requests) /\ \A r : Contains(found, r) => r \in Pending
    BY <2>1, InOrderHas
  <2>3. worker'.found = found
    BY <1>1
  <2> QED
    BY <1>1, <2>2, <2>3 DEF WorkerType
<1>2. ASSUME worker' = [worker EXCEPT !.pc = "free", !.mode = "poll"]
      PROVE  /\ WorkerType' /\ Moves("free") /\ worker'.mode = "poll"
  BY <1>2 DEF WorkerType, Moves
<1> QED
  BY <1>1, <1>2 DEF Setup, At, Moves

(* One row of the recovery is in the list now, or its push has failed.     *)
LEMMA RecoverPushDoes ==
    ASSUME Base, RecoverPush
    PROVE  /\ WorkerType' /\ worker.pc = "recovering" /\ worker'.pc = worker.pc
           /\ worker'.mode = worker.mode /\ worker'.req = worker.req
           /\ queue' \in Seq(Requests)
           /\ \E h \in Requests :
                 /\ \A r : Contains(worker.found, r) <=>
                              Contains(worker'.found, r) \/ r = h
                 /\ \/ /\ worker'.pushed = worker.pushed \cup {h}
                       /\ faults' = faults
                       /\ \A r : Contains(queue', r) <=> Contains(queue, r) \/ r = h
                    \/ /\ worker'.pushed = worker.pushed /\ queue' = queue
                       /\ Fault("recover")
           /\ UNCHANGED <<status, api, task, runs>>
<1> USE DEF Base, RowTypes, WorkerType
<1> DEFINE h == Head(worker.found)
<1>1. /\ h \in Requests /\ Tail(worker.found) \in Seq(Requests)
      /\ \A r : Contains(worker.found, r) <=>
                   Contains(Tail(worker.found), r) \/ r = h
  BY HeadTailHas DEF RecoverPush
<1>2. /\ Append(queue, h) \in Seq(Requests)
      /\ \A r : Contains(Append(queue, h), r) <=> Contains(queue, r) \/ r = h
  BY <1>1, AppendHas
<1>3. /\ WorkerType' /\ worker'.pc = worker.pc /\ worker'.mode = worker.mode
      /\ worker'.req = worker.req /\ worker'.found = Tail(worker.found)
  <2>1. CASE worker' = [worker EXCEPT !.found = Tail(@), !.pushed = @ \cup {h}]
    BY <1>1, <2>1 DEF WorkerType
  <2>2. CASE worker' = [worker EXCEPT !.found = Tail(@)]
    BY <1>1, <2>2 DEF WorkerType
  <2> QED
    BY <2>1, <2>2 DEF RecoverPush
<1>4. \/ /\ worker'.pushed = worker.pushed \cup {h}
         /\ faults' = faults /\ queue' = Append(queue, h)
      \/ /\ worker'.pushed = worker.pushed /\ queue' = queue
         /\ Fault("recover")
  BY DEF RecoverPush
<1>5. worker.pc = "recovering" /\ UNCHANGED <<status, api, task, runs>>
  BY DEF RecoverPush, At
<1> HIDE DEF h
<1>6. queue' \in Seq(Requests)
  BY <1>2, <1>4
<1>7. /\ \A r : Contains(worker.found, r) <=> Contains(worker'.found, r) \/ r = h
      /\ \/ /\ worker'.pushed = worker.pushed \cup {h}
            /\ faults' = faults
            /\ \A r : Contains(queue', r) <=> Contains(queue, r) \/ r = h
         \/ /\ worker'.pushed = worker.pushed /\ queue' = queue
            /\ Fault("recover")
  BY <1>1, <1>2, <1>3, <1>4
<1> HIDE DEF Base, RowTypes, WorkerType
<1> QED
  BY <1>1, <1>3, <1>5, <1>6, <1>7

(* The rows that were pushed are queued.                                   *)
LEMMA RecoverCommitsDoes ==
    ASSUME Base, RecoverCommits
    PROVE  /\ WorkerType' /\ worker.pc = "recovering" /\ worker'.pc = "free"
           /\ worker'.mode = "redis" /\ worker'.req = worker.req
           /\ worker.found = <<>> /\ worker'.found = <<>> /\ worker'.pushed = {}
           /\ status' \in [Requests -> Statuses]
           /\ \A r \in Requests :
                 status'[r] = IF r \in worker.pushed THEN "queued" ELSE status[r]
           /\ UNCHANGED <<queue, api, task, runs, faults>>
<1> USE DEF Base, RowTypes, WorkerType
<1>1. /\ WorkerType' /\ worker'.pc = "free" /\ worker'.mode = "redis"
      /\ worker'.req = worker.req /\ worker'.found = worker.found
      /\ worker'.pushed = {}
  BY DEF RecoverCommits, WorkerType
<1> QED
  BY <1>1 DEF RecoverCommits, At, SetStatus, Statuses

(* A recovery that gives up leaves the rows and the list as they are.      *)
LEMMA RecoverFailsDoes ==
    ASSUME Base, RecoverFails
    PROVE  /\ WorkerType' /\ worker.pc = "recovering" /\ worker'.pc = "free"
           /\ worker'.mode = "redis" /\ worker'.req = worker.req
           /\ worker'.found = <<>> /\ worker'.pushed = {}
           /\ Fault("recover") /\ UNCHANGED <<status, queue, api, task, runs>>
<1> USE DEF Base, RowTypes, WorkerType
<1>1. <<>> \in Seq(Requests)
  BY EmptySeq
<1>2. /\ WorkerType' /\ worker'.pc = "free" /\ worker'.mode = "redis"
      /\ worker'.req = worker.req /\ worker'.found = <<>> /\ worker'.pushed = {}
  BY <1>1 DEF RecoverFails, WorkerType
<1> QED
  BY <1>2 DEF RecoverFails, At

(* The oldest entry of the list is the worker's now.                       *)
LEMMA PopDoes ==
    ASSUME Base, Pop
    PROVE  /\ WorkerType' /\ worker.pc = "free" /\ worker'.pc = "reading"
           /\ worker'.mode = worker.mode /\ worker'.found = worker.found
           /\ worker'.pushed = worker.pushed /\ worker'.req \in Requests
           /\ queue' \in Seq(Requests)
           /\ \A r : Contains(queue, r) <=> Contains(queue', r) \/ r = worker'.req
           /\ UNCHANGED <<status, api, task, runs, faults>>
<1> USE DEF Base, RowTypes, WorkerType
<1>1. /\ Head(queue) \in Requests /\ Tail(queue) \in Seq(Requests)
      /\ \A r : Contains(queue, r) <=> Contains(Tail(queue), r) \/ r = Head(queue)
  BY HeadTailHas DEF Pop
<1>2. /\ WorkerType' /\ worker'.pc = "reading" /\ worker'.mode = worker.mode
      /\ worker'.found = worker.found /\ worker'.pushed = worker.pushed
      /\ worker'.req = Head(queue)
  BY <1>1 DEF Pop, WorkerType
<1> QED
  BY <1>1, <1>2 DEF Pop, At

(* The worker goes on with a row that waits and that no task has.          *)
LEMMA ReadDoes ==
    ASSUME Base, Read
    PROVE  /\ WorkerType' /\ worker.pc = "reading" /\ worker'.mode = worker.mode
           /\ worker'.found = worker.found /\ worker'.pushed = worker.pushed
           /\ \/ /\ worker'.pc = "taking" /\ worker'.req = worker.req
                 /\ task[worker.req] = "none"
                 /\ status[worker.req] \in {"queued", "pending"}
              \/ /\ worker'.pc = "free" /\ worker'.req = NoRequest
                 /\ \/ task[worker.req] # "none"
                    \/ status[worker.req] \notin {"queued", "pending"}
           /\ UNCHANGED <<status, queue, api, task, runs, faults>>
<1> USE DEF Base, RowTypes, WorkerType
<1>1. worker.req \in Requests /\ worker.pc = "reading"
  BY DEF Read, At, WorkerOrder
<1>2. CASE worker.req \notin Running /\ status[worker.req] \in {"queued",
       "pending"}
  <2>1. worker' = [worker EXCEPT !.pc = "taking"]
    BY <1>2 DEF Read
  <2> QED
    BY <1>1, <1>2, <2>1 DEF Read, Running, WorkerType
<1>3. CASE ~(worker.req \notin Running /\ status[worker.req] \in {"queued",
       "pending"})
  <2>1. worker' = [worker EXCEPT !.pc = "free", !.req = NoRequest]
    BY <1>3 DEF Read
  <2> QED
    BY <1>1, <1>3, <2>1 DEF Read, Running, WorkerType
<1> QED
  BY <1>2, <1>3

(* A worker without a list takes a pending row that no task has.           *)
LEMMA PollDoes ==
    ASSUME Base, Poll
    PROVE  /\ WorkerType' /\ worker.pc = "free" /\ worker'.pc = "taking"
           /\ worker'.mode = worker.mode /\ worker'.found = worker.found
           /\ worker'.pushed = worker.pushed /\ worker'.req \in Requests
           /\ task[worker'.req] = "none" /\ status[worker'.req] = "pending"
           /\ UNCHANGED <<status, queue, api, task, runs, faults>>
<1> USE DEF Base, RowTypes, WorkerType
<1>1. PICK r \in Oldest(Slots, Pending) \ Running :
         worker' = [worker EXCEPT !.pc = "taking", !.req = r]
  BY DEF Poll
<1>2. r \in Requests /\ task[r] = "none" /\ status[r] = "pending"
  BY DEF Oldest, Pending, Running
<1>3. /\ WorkerType' /\ worker'.pc = "taking" /\ worker'.req = r
      /\ worker'.mode = worker.mode /\ worker'.found = worker.found
      /\ worker'.pushed = worker.pushed
  BY <1>1, <1>2 DEF WorkerType
<1> QED
  BY <1>2, <1>3 DEF Poll, At

(* The worker's row gets a task.                                           *)
LEMMA TakeDoes ==
    ASSUME Base, Take
    PROVE  /\ WorkerType' /\ worker.pc = "taking" /\ worker'.pc = "free"
           /\ worker'.mode = worker.mode /\ worker'.found = worker.found
           /\ worker'.pushed = worker.pushed /\ worker'.req = NoRequest
           /\ worker.req \in Requests
           /\ status' \in [Requests -> Statuses]
           /\ task' \in [Requests -> {"none", "picked", "running"}]
           /\ \A r \in Requests :
                 /\ r = worker.req => status'[r] = "picked" /\ task'[r] = "picked"
                 /\ r # worker.req => status'[r] = status[r] /\ task'[r] = task[r]
           /\ UNCHANGED <<queue, api, runs, faults>>
<1> USE DEF Base, RowTypes, WorkerType
<1>1. worker.req \in Requests /\ worker.pc = "taking"
  BY DEF Take, At, WorkerOrder
<1>2. /\ WorkerType' /\ worker'.pc = "free" /\ worker'.mode = worker.mode
      /\ worker'.found = worker.found /\ worker'.pushed = worker.pushed
      /\ worker'.req = NoRequest
  BY DEF Take, WorkerType
<1>3. /\ status' \in [Requests -> Statuses]
      /\ \A r \in Requests :
            status'[r] = IF r = worker.req THEN "picked" ELSE status[r]
  BY <1>1 DEF Take, SetStatus, Statuses
<1>4. /\ task' \in [Requests -> {"none", "picked", "running"}]
      /\ \A r \in Requests :
            task'[r] = IF r = worker.req THEN "picked" ELSE task[r]
  BY <1>1 DEF Take
<1> HIDE DEF Base, RowTypes, WorkerType
<1> QED
  BY <1>1, <1>2, <1>3, <1>4 DEF Take

(* A worker that dies leaves nothing but the rows and the list.            *)
LEMMA WorkerDiesDoes ==
    ASSUME Base, WorkerDies
    PROVE  /\ WorkerType' /\ worker'.pc = "down" /\ worker'.req = NoRequest
           /\ worker'.found = <<>> /\ worker'.pushed = {}
           /\ task' = [r \in Requests |-> "none"]
           /\ Fault("process") \/ Fault("worker")
           /\ UNCHANGED <<status, queue, api, runs>>
<1> USE DEF Base, RowTypes, WorkerType
<1>1. <<>> \in Seq(Requests)
  BY EmptySeq
<1>2. PICK m \in {"unknown", "redis", "poll"} :
         worker' = [pc |-> "down", mode |-> m, req |-> NoRequest,
                    found |-> <<>>, pushed |-> {}]
  BY DEF WorkerDies, NewWorker
<1>3. /\ WorkerType' /\ worker'.pc = "down" /\ worker'.req = NoRequest
      /\ worker'.found = <<>> /\ worker'.pushed = {}
  BY <1>1, <1>2 DEF WorkerType
<1> QED
  BY <1>3 DEF WorkerDies

(* One row gets a status.                                                  *)
LEMMA SetOne ==
    ASSUME Base, NEW r \in Requests, NEW s \in Statuses, SetStatus({r}, s)
    PROVE  /\ status' \in [Requests -> Statuses] /\ status'[r] = s
           /\ \A q \in Requests \ {r} : status'[q] = status[q]
  BY DEF Base, RowTypes, SetStatus

-----------------------------------------------------------------------------
(* What the API does.                                                      *)

(* What it leaves to the worker.                                           *)
LEMMA WorkerKept ==
    ASSUME WorkerKeeps
    PROVE  worker' = worker /\ task' = task /\ runs' = runs
  BY DEF WorkerKeeps

(* The push adds one entry, or fails, or is done without its reply.        *)
LEMMA PushDoes ==
    ASSUME Base, NEW r \in Requests, Push(r)
    PROVE  /\ creating[r] = "pushing" /\ queue' \in Seq(Requests)
           /\ creating' \in [Requests -> {"none", "pushing", "falling back", "done"}]
           /\ \A q \in Requests \ {r} : creating'[q] = creating[q]
           /\ faults' \subseteq FaultKinds /\ faults \subseteq faults'
           /\ \/ /\ \A q : Contains(queue', q) <=> Contains(queue, q) \/ q = r
                 /\ creating'[r] = "done"
                 /\ faults' = faults
              \/ /\ creating'[r] = "falling back"
                 /\ \/ Fault("push") /\ queue' = queue
                    \/ /\ Fault("reply")
                       /\ \A q : Contains(queue', q) <=> Contains(queue, q) \/ q = r
           /\ UNCHANGED <<status, asked, cancel, userOps, worker, task, runs>>
<1> USE DEF Base, RowTypes, WorkerType
<1>1. /\ Append(queue, r) \in Seq(Requests)
      /\ \A q : Contains(Append(queue, r), q) <=> Contains(queue, q) \/ q = r
  BY AppendHas
<1>2. creating' \in [Requests -> {"none", "pushing", "falling back", "done"}]
      /\ \A q \in Requests \ {r} : creating'[q] = creating[q]
  BY DEF Push
<1>3. faults' \subseteq FaultKinds /\ faults \subseteq faults'
  BY DEF Push, Fault
<1>4. \/ /\ queue' = Append(queue, r) /\ faults' = faults
         /\ creating'[r] = "done"
      \/ /\ \/ Fault("push") /\ queue' = queue
            \/ Fault("reply") /\ queue' = Append(queue, r)
         /\ creating'[r] = "falling back"
  BY DEF Push
<1>5. creating[r] = "pushing" /\ queue \in Seq(Requests)
  BY DEF Push
<1> HIDE DEF Base, RowTypes, WorkerType
<1> QED
  BY <1>1, <1>2, <1>3, <1>4, <1>5, WorkerKept DEF Push

(* A cancel removes at most one entry, of its own request.                 *)
LEMMA CancelRemovesDoes ==
    ASSUME Base, NEW r \in Requests, CancelRemoves(r)
    PROVE  /\ cancel[r] = "removing" /\ queue' \in Seq(Requests)
           /\ cancel' \in [Requests -> {"none", "removing", "committing", "done"}]
           /\ cancel'[r] = "committing"
           /\ \A q \in Requests \ {r} : cancel'[q] = cancel[q]
           /\ \A q : Contains(queue', q) => Contains(queue, q)
           /\ \A q : q # r /\ Contains(queue, q) => Contains(queue', q)
           /\ faults' = faults \/ Fault("push")
           /\ UNCHANGED <<status, asked, creating, userOps, worker, task, runs>>
<1> USE DEF Base, RowTypes, WorkerType
<1>c. /\ cancel' \in [Requests -> {"none", "removing", "committing", "done"}]
      /\ cancel'[r] = "committing"
      /\ \A q \in Requests \ {r} : cancel'[q] = cancel[q]
  BY DEF CancelRemoves
<1>f. CASE Fault("push") /\ queue' = queue
  BY <1>c, <1>f, WorkerKept DEF CancelRemoves
<1> SUFFICES ASSUME UNCHANGED faults,
                    queue' = IF Contains(queue, r)
                             THEN RemoveAt(queue, LastIndexOf(r)) ELSE queue
             PROVE  /\ queue' \in Seq(Requests)
                    /\ \A q : Contains(queue', q) => Contains(queue, q)
                    /\ \A q : q # r /\ Contains(queue, q) => Contains(queue', q)
  BY <1>c, <1>f, WorkerKept DEF CancelRemoves
<1>1. CASE Contains(queue, r)
  <2>1. LastIndexOf(r) \in 1 .. Len(queue) /\ queue[LastIndexOf(r)] = r
    BY <1>1, LastIndexIs
  <2>2. queue' = RemoveAt(queue, LastIndexOf(r))
    BY <1>1
  <2>3. /\ RemoveAt(queue, LastIndexOf(r)) \in Seq(Requests)
        /\ \A y : Contains(RemoveAt(queue, LastIndexOf(r)), y) => Contains(queue, y)
        /\ \A y : Contains(queue, y) /\ y # r
                    => Contains(RemoveAt(queue, LastIndexOf(r)), y)
    BY <2>1, RemoveHas
  <2> HIDE DEF Base, RowTypes, WorkerType
  <2> QED
    BY <2>2, <2>3
<1>2. CASE ~Contains(queue, r)
  BY <1>2
<1> QED
  BY <1>1, <1>2

(* The counters are in their bounds.                                       *)
LEMMA CountsAre ==
    ASSUME Base
    PROVE  /\ MaxUserOps \in Nat /\ userOps \in 0 .. MaxUserOps
           /\ 1 \in 0 .. MaxUserOps + 1
           /\ \A q \in Requests :
                 /\ asked[q] \in Nat /\ asked[q] <= userOps + 1 /\ runs[q] \in Nat
                 /\ userOps < MaxUserOps => asked[q] + 1 \in 0 .. MaxUserOps + 1
<1>1. MaxUserOps \in Nat
  BY CrawlRequestsAssumption
<1>2. userOps \in 0 .. MaxUserOps
  BY DEF Base, RowTypes
<1>3. ASSUME NEW q \in Requests
      PROVE  /\ asked[q] \in Nat /\ asked[q] <= userOps + 1 /\ runs[q] \in Nat
             /\ userOps < MaxUserOps => asked[q] + 1 \in 0 .. MaxUserOps + 1
  <2>1. asked[q] \in 0 .. MaxUserOps + 1 /\ runs[q] \in Nat
    BY DEF Base, RowTypes
  <2>2. asked[q] <= userOps + 1
    BY DEF Base, Known
  <2> QED
    BY <1>1, <1>2, <2>1, <2>2
<1> QED
  BY <1>1, <1>2, <1>3

(* A new row is asked for once.                                            *)
LEMMA AskNew ==
    ASSUME Base, NEW r \in Requests, status[r] = "new", Ask(r)
    PROVE  /\ asked' \in [Requests -> 0 .. MaxUserOps + 1] /\ asked'[r] = 1
           /\ \A q \in Requests \ {r} : asked'[q] = asked[q]
<1>1. asked \in [Requests -> 0 .. MaxUserOps + 1]
  BY DEF Base, RowTypes
<1>2. asked[r] = 0
  BY DEF Base, Known
<1>3. asked' = [asked EXCEPT ![r] = 1]
  BY <1>2 DEF Ask
<1> QED
  BY <1>1, <1>3, CountsAre

(* A new row is pending.                                                   *)
LEMMA CreateDoes ==
    ASSUME Base, NEW r \in Requests, Create(r)
    PROVE  /\ status[r] = "new"
           /\ UNCHANGED <<queue, creating, cancel, userOps, worker, task, runs, faults>>
           /\ status' \in [Requests -> Statuses] /\ status'[r] = "pending"
           /\ \A q \in Requests \ {r} : status'[q] = status[q]
           /\ asked' \in [Requests -> 0 .. MaxUserOps + 1]
           /\ asked'[r] = 1
           /\ \A q \in Requests \ {r} : asked'[q] = asked[q]
<1>1. /\ status[r] = "new"
      /\ UNCHANGED <<queue, creating, cancel, userOps, worker, task, runs, faults>>
  BY WorkerKept DEF Create
<1>2. /\ status' \in [Requests -> Statuses] /\ status'[r] = "pending"
      /\ \A q \in Requests \ {r} : status'[q] = status[q]
  BY SetOne DEF Create, Statuses
<1>3. /\ asked' \in [Requests -> 0 .. MaxUserOps + 1]
      /\ asked'[r] = 1
      /\ \A q \in Requests \ {r} : asked'[q] = asked[q]
  BY <1>1, AskNew DEF Create
<1> QED
  BY <1>1, <1>2, <1>3

(* A new row is queued before it is pushed.                                *)
LEMMA CreateQueuedDoes ==
    ASSUME Base, NEW r \in Requests, CreateQueued(r)
    PROVE  /\ status[r] = "new"
           /\ UNCHANGED <<queue, cancel, userOps, worker, task, runs, faults>>
           /\ status' \in [Requests -> Statuses] /\ status'[r] = "queued"
           /\ \A q \in Requests \ {r} : status'[q] = status[q]
           /\ asked' \in [Requests -> 0 .. MaxUserOps + 1]
           /\ asked'[r] = 1
           /\ \A q \in Requests \ {r} : asked'[q] = asked[q]
           /\ creating' \in [Requests -> {"none", "pushing", "falling back", "done"}]
           /\ creating'[r] = "pushing"
           /\ \A q \in Requests \ {r} : creating'[q] = creating[q]
<1>1. /\ status[r] = "new"
      /\ UNCHANGED <<queue, cancel, userOps, worker, task, runs, faults>>
  BY WorkerKept DEF CreateQueued
<1>2. /\ status' \in [Requests -> Statuses] /\ status'[r] = "queued"
      /\ \A q \in Requests \ {r} : status'[q] = status[q]
  BY SetOne DEF CreateQueued, Statuses
<1>3. /\ asked' \in [Requests -> 0 .. MaxUserOps + 1]
      /\ asked'[r] = 1
      /\ \A q \in Requests \ {r} : asked'[q] = asked[q]
  BY <1>1, AskNew DEF CreateQueued
<1>4. /\ creating' \in [Requests -> {"none", "pushing", "falling back", "done"}]
      /\ creating'[r] = "pushing"
      /\ \A q \in Requests \ {r} : creating'[q] = creating[q]
  BY DEF CreateQueued, RowTypes, Base
<1> QED
  BY <1>1, <1>2, <1>3, <1>4

(* A row whose push has failed is pending.                                 *)
LEMMA FallBackDoes ==
    ASSUME Base, NEW r \in Requests, FallBack(r)
    PROVE  /\ creating[r] = "falling back"
           /\ UNCHANGED <<queue, asked, cancel, userOps, worker, task, runs, faults>>
           /\ status' \in [Requests -> Statuses] /\ status'[r] = "pending"
           /\ \A q \in Requests \ {r} : status'[q] = status[q]
           /\ creating' \in [Requests -> {"none", "pushing", "falling back", "done"}]
           /\ creating'[r] = "done"
           /\ \A q \in Requests \ {r} : creating'[q] = creating[q]
<1>1. /\ creating[r] = "falling back"
      /\ UNCHANGED <<queue, asked, cancel, userOps, worker, task, runs, faults>>
  BY WorkerKept DEF FallBack
<1>2. /\ status' \in [Requests -> Statuses] /\ status'[r] = "pending"
      /\ \A q \in Requests \ {r} : status'[q] = status[q]
  BY SetOne DEF FallBack, Statuses
<1>3. /\ creating' \in [Requests -> {"none", "pushing", "falling back", "done"}]
      /\ creating'[r] = "done"
      /\ \A q \in Requests \ {r} : creating'[q] = creating[q]
  BY DEF FallBack, RowTypes, Base
<1> QED
  BY <1>1, <1>2, <1>3

(* A cancel begins with a row that waits.                                  *)
LEMMA CancelReadsDoes ==
    ASSUME Base, NEW r \in Requests, CancelReads(r)
    PROVE  /\ status[r] \in {"pending", "queued"}
           /\ UNCHANGED <<status, queue, asked, creating, worker, task, runs, faults>>
           /\ userOps < MaxUserOps /\ userOps' = userOps + 1
           /\ userOps' \in 0 .. MaxUserOps
           /\ cancel' \in [Requests -> {"none", "removing", "committing", "done"}]
           /\ cancel'[r] = "removing"
           /\ \A q \in Requests \ {r} : cancel'[q] = cancel[q]
<1>1. /\ status[r] \in {"pending", "queued"}
      /\ UNCHANGED <<status, queue, asked, creating, worker, task, runs, faults>>
  BY WorkerKept DEF CancelReads
<1>2. /\ userOps < MaxUserOps /\ userOps' = userOps + 1
      /\ userOps' \in 0 .. MaxUserOps
  BY CountsAre DEF CancelReads, MayAsk
<1>3. /\ cancel' \in [Requests -> {"none", "removing", "committing", "done"}]
      /\ cancel'[r] = "removing"
      /\ \A q \in Requests \ {r} : cancel'[q] = cancel[q]
  BY DEF CancelReads, RowTypes, Base
<1> QED
  BY <1>1, <1>2, <1>3

(* A cancel is committed.                                                  *)
LEMMA CancelCommitsDoes ==
    ASSUME Base, NEW r \in Requests, CancelCommits(r)
    PROVE  /\ cancel[r] = "committing"
           /\ UNCHANGED <<queue, asked, creating, userOps, worker, task, runs, faults>>
           /\ status' \in [Requests -> Statuses] /\ status'[r] = "cancelled"
           /\ \A q \in Requests \ {r} : status'[q] = status[q]
           /\ cancel' \in [Requests -> {"none", "removing", "committing", "done"}]
           /\ cancel'[r] = "done"
           /\ \A q \in Requests \ {r} : cancel'[q] = cancel[q]
<1>1. /\ cancel[r] = "committing"
      /\ UNCHANGED <<queue, asked, creating, userOps, worker, task, runs, faults>>
  BY WorkerKept DEF CancelCommits
<1>2. /\ status' \in [Requests -> Statuses] /\ status'[r] = "cancelled"
      /\ \A q \in Requests \ {r} : status'[q] = status[q]
  BY SetOne DEF CancelCommits, Statuses
<1>3. /\ cancel' \in [Requests -> {"none", "removing", "committing", "done"}]
      /\ cancel'[r] = "done"
      /\ \A q \in Requests \ {r} : cancel'[q] = cancel[q]
  BY DEF CancelCommits, RowTypes, Base
<1> QED
  BY <1>1, <1>2, <1>3

(* A row that has ended is asked for once more.                            *)
LEMMA RetryDoes ==
    ASSUME Base, NEW r \in Requests, Retry(r)
    PROVE  /\ status[r] \in {"failed", "completed"}
           /\ UNCHANGED <<queue, creating, cancel, worker, task, runs, faults>>
           /\ userOps < MaxUserOps /\ userOps' = userOps + 1
           /\ userOps' \in 0 .. MaxUserOps
           /\ status' \in [Requests -> Statuses] /\ status'[r] = "pending"
           /\ \A q \in Requests \ {r} : status'[q] = status[q]
           /\ asked' \in [Requests -> 0 .. MaxUserOps + 1]
           /\ asked'[r] = asked[r] + 1
           /\ \A q \in Requests \ {r} : asked'[q] = asked[q]
<1>1. /\ status[r] \in {"failed", "completed"}
      /\ UNCHANGED <<queue, creating, cancel, worker, task, runs, faults>>
  BY WorkerKept DEF Retry
<1>2. /\ userOps < MaxUserOps /\ userOps' = userOps + 1
      /\ userOps' \in 0 .. MaxUserOps
  BY CountsAre DEF Retry, MayAsk
<1>3. /\ status' \in [Requests -> Statuses] /\ status'[r] = "pending"
      /\ \A q \in Requests \ {r} : status'[q] = status[q]
  BY SetOne DEF Retry, Statuses
<1>4. /\ asked' \in [Requests -> 0 .. MaxUserOps + 1]
      /\ asked'[r] = asked[r] + 1
      /\ \A q \in Requests \ {r} : asked'[q] = asked[q]
  BY <1>2, CountsAre DEF Retry, Ask, RowTypes, Base
<1> QED
  BY <1>1, <1>2, <1>3, <1>4

(* A task begins its run.                                                  *)
LEMMA StartProcessingDoes ==
    ASSUME Base, NEW r \in Requests, StartProcessing(r)
    PROVE  /\ task[r] = "picked"
           /\ UNCHANGED <<queue, asked, creating, cancel, userOps, worker, faults>>
           /\ status' \in [Requests -> Statuses] /\ status'[r] = "processing"
           /\ \A q \in Requests \ {r} : status'[q] = status[q]
           /\ task' \in [Requests -> {"none", "picked", "running"}]
           /\ task'[r] = "running"
           /\ \A q \in Requests \ {r} : task'[q] = task[q]
           /\ runs' \in [Requests -> Nat]
           /\ runs'[r] = runs[r] + 1
           /\ \A q \in Requests \ {r} : runs'[q] = runs[q]
<1>1. /\ task[r] = "picked"
      /\ UNCHANGED <<queue, asked, creating, cancel, userOps, worker, faults>>
  BY DEF StartProcessing, api
<1>2. /\ status' \in [Requests -> Statuses] /\ status'[r] = "processing"
      /\ \A q \in Requests \ {r} : status'[q] = status[q]
  BY SetOne DEF StartProcessing, Statuses
<1>3. /\ task' \in [Requests -> {"none", "picked", "running"}]
      /\ task'[r] = "running"
      /\ \A q \in Requests \ {r} : task'[q] = task[q]
  BY DEF StartProcessing, RowTypes, Base
<1>4. runs' = [runs EXCEPT ![r] = runs[r] + 1]
  BY DEF StartProcessing
<1>5. runs \in [Requests -> Nat]
  BY DEF Base, RowTypes
<1>6. runs[r] + 1 \in Nat
  BY CountsAre
<1>7. /\ runs' \in [Requests -> Nat]
      /\ runs'[r] = runs[r] + 1
      /\ \A q \in Requests \ {r} : runs'[q] = runs[q]
  BY <1>4, <1>5, <1>6
<1> QED
  BY <1>1, <1>2, <1>3, <1>7

(* A task ends its run.                                                    *)
LEMMA FinishDoes ==
    ASSUME Base, NEW r \in Requests, Finish(r)
    PROVE  /\ task[r] = "running"
           /\ UNCHANGED <<queue, asked, creating, cancel, userOps, worker, runs, faults>>
           /\ status' \in [Requests -> Statuses] /\ status'[r] \in {"completed", "failed"}
           /\ \A q \in Requests \ {r} : status'[q] = status[q]
           /\ task' \in [Requests -> {"none", "picked", "running"}]
           /\ task'[r] = "none"
           /\ \A q \in Requests \ {r} : task'[q] = task[q]
<1>1. /\ task[r] = "running"
      /\ UNCHANGED <<queue, asked, creating, cancel, userOps, worker, runs, faults>>
  BY DEF Finish, api
<1>2. /\ status' \in [Requests -> Statuses] /\ status'[r] \in {"completed", "failed"}
      /\ \A q \in Requests \ {r} : status'[q] = status[q]
  BY SetOne DEF Finish, Statuses
<1>3. /\ task' \in [Requests -> {"none", "picked", "running"}]
      /\ task'[r] = "none"
      /\ \A q \in Requests \ {r} : task'[q] = task[q]
  BY DEF Finish, RowTypes, Base
<1> QED
  BY <1>1, <1>2, <1>3

-----------------------------------------------------------------------------
(* The invariant Base.                                                     *)

(* The worker's steps.                                                     *)
LEMMA WorkerBase ==
    ASSUME Base, WorkerStep \/ WorkerDies
    PROVE  Base'
<1>b. RowTypes /\ Known /\ WorkerOrder /\ TaskIsTaken
  BY DEF Base
<1>1. CASE Start
  <2>1. RowTypes' /\ WorkerType'
    <3>1. WorkerType'
      BY <1>1, StartDoes
    <3>2. status' \in [Requests -> Statuses]
          /\ UNCHANGED <<queue, task, runs, faults, asked, creating, cancel, userOps>>
      BY <1>1, StartDoes DEF api
    <3> QED
      BY <1>b, <3>1, <3>2 DEF RowTypes
  <2>2. ASSUME NEW q \in Requests PROVE HeldBy(q)' => asked[q] # 0
    BY <1>b, <1>1, StartDoes, EmptyHas, CrawlRequestsAssumption
       DEF HeldBy, Known, WorkerOrder, NoRequest, Moves, api
  <2>3. ASSUME NEW q \in Requests PROVE status'[q] = "new" <=> status[q] = "new"
    BY <1>b, <1>1, StartDoes DEF Known, HeldBy, Moves, api
  <2>4. asked' = asked /\ userOps' = userOps
    BY <1>1, StartDoes DEF api
  <2>5. Known'
    BY <1>b, <2>2, <2>3, <2>4 DEF Known
  <2>6. WorkerOrder'
    BY <1>b, <1>1, StartDoes DEF WorkerOrder, Moves, api
  <2>7. TaskIsTaken'
    BY <1>b, <1>1, StartDoes DEF TaskIsTaken, WorkerOrder, Moves, api
  <2> QED
    BY <2>1, <2>5, <2>6, <2>7 DEF Base
<1>2. CASE Setup
  <2>1. RowTypes' /\ WorkerType'
    BY <1>b, <1>2, SetupDoes DEF RowTypes, api, Pending, Fault
  <2>2. ASSUME NEW q \in Requests PROVE HeldBy(q)' => asked[q] # 0
    BY <1>b, <1>2, SetupDoes, EmptyHas, CrawlRequestsAssumption
       DEF HeldBy, Known, WorkerOrder, NoRequest, api, Pending, Fault
  <2>3. ASSUME NEW q \in Requests PROVE status'[q] = "new" <=> status[q] = "new"
    BY <1>b, <1>2, SetupDoes DEF Known, HeldBy, api, Pending, Fault
  <2>4. asked' = asked /\ userOps' = userOps
    BY <1>2, SetupDoes DEF api
  <2>5. Known'
    BY <1>b, <2>2, <2>3, <2>4 DEF Known
  <2>6. WorkerOrder'
    BY <1>b, <1>2, SetupDoes DEF WorkerOrder, api, Pending, Fault
  <2>7. TaskIsTaken'
    BY <1>b, <1>2, SetupDoes DEF TaskIsTaken, WorkerOrder, api, Pending, Fault
  <2> QED
    BY <2>1, <2>5, <2>6, <2>7 DEF Base
<1>3. CASE RecoverPush
  <2>1. RowTypes' /\ WorkerType'
    BY <1>b, <1>3, RecoverPushDoes DEF RowTypes, api, Fault
  <2>2. ASSUME NEW q \in Requests PROVE HeldBy(q)' => asked[q] # 0
    BY <1>b, <1>3, RecoverPushDoes, EmptyHas, CrawlRequestsAssumption
       DEF HeldBy, Known, WorkerOrder, NoRequest, api, Fault
  <2>3. ASSUME NEW q \in Requests PROVE status'[q] = "new" <=> status[q] = "new"
    BY <1>b, <1>3, RecoverPushDoes DEF Known, HeldBy, api, Fault
  <2>4. asked' = asked /\ userOps' = userOps
    BY <1>3, RecoverPushDoes DEF api
  <2>5. Known'
    BY <1>b, <2>2, <2>3, <2>4 DEF Known
  <2>6. WorkerOrder'
    BY <1>b, <1>3, RecoverPushDoes DEF WorkerOrder, api, Fault
  <2>7. TaskIsTaken'
    BY <1>b, <1>3, RecoverPushDoes DEF TaskIsTaken, WorkerOrder, api, Fault
  <2> QED
    BY <2>1, <2>5, <2>6, <2>7 DEF Base
<1>4. CASE RecoverCommits
  <2>1. RowTypes' /\ WorkerType'
    BY <1>b, <1>4, RecoverCommitsDoes DEF RowTypes, api
  <2>2. ASSUME NEW q \in Requests PROVE HeldBy(q)' => asked[q] # 0
    BY <1>b, <1>4, RecoverCommitsDoes, EmptyHas, CrawlRequestsAssumption
       DEF HeldBy, Known, WorkerOrder, NoRequest, api
  <2>3. ASSUME NEW q \in Requests PROVE status'[q] = "new" <=> status[q] = "new"
    BY <1>b, <1>4, RecoverCommitsDoes DEF Known, HeldBy, api
  <2>4. asked' = asked /\ userOps' = userOps
    BY <1>4, RecoverCommitsDoes DEF api
  <2>5. Known'
    BY <1>b, <2>2, <2>3, <2>4 DEF Known
  <2>6. WorkerOrder'
    BY <1>b, <1>4, RecoverCommitsDoes DEF WorkerOrder, api
  <2>7. TaskIsTaken'
    BY <1>b, <1>4, RecoverCommitsDoes DEF TaskIsTaken, WorkerOrder, api
  <2> QED
    BY <2>1, <2>5, <2>6, <2>7 DEF Base
<1>5. CASE Pop
  <2>1. RowTypes' /\ WorkerType'
    BY <1>b, <1>5, PopDoes DEF RowTypes, api
  <2>2. ASSUME NEW q \in Requests PROVE HeldBy(q)' => asked[q] # 0
    BY <1>b, <1>5, PopDoes, EmptyHas, CrawlRequestsAssumption
       DEF HeldBy, Known, WorkerOrder, NoRequest, api
  <2>3. ASSUME NEW q \in Requests PROVE status'[q] = "new" <=> status[q] = "new"
    BY <1>b, <1>5, PopDoes DEF Known, HeldBy, api
  <2>4. asked' = asked /\ userOps' = userOps
    BY <1>5, PopDoes DEF api
  <2>5. Known'
    BY <1>b, <2>2, <2>3, <2>4 DEF Known
  <2>6. WorkerOrder'
    BY <1>b, <1>5, PopDoes DEF WorkerOrder, api
  <2>7. TaskIsTaken'
    BY <1>b, <1>5, PopDoes DEF TaskIsTaken, WorkerOrder, api
  <2> QED
    BY <2>1, <2>5, <2>6, <2>7 DEF Base
<1>6. CASE Read
  <2>1. RowTypes' /\ WorkerType'
    BY <1>b, <1>6, ReadDoes DEF RowTypes, api
  <2>2. ASSUME NEW q \in Requests PROVE HeldBy(q)' => asked[q] # 0
    BY <1>b, <1>6, ReadDoes, EmptyHas, CrawlRequestsAssumption
       DEF HeldBy, Known, WorkerOrder, NoRequest, api
  <2>3. ASSUME NEW q \in Requests PROVE status'[q] = "new" <=> status[q] = "new"
    BY <1>b, <1>6, ReadDoes DEF Known, HeldBy, api
  <2>4. asked' = asked /\ userOps' = userOps
    BY <1>6, ReadDoes DEF api
  <2>5. Known'
    BY <1>b, <2>2, <2>3, <2>4 DEF Known
  <2>6. WorkerOrder'
    BY <1>b, <1>6, ReadDoes DEF WorkerOrder, api
  <2>7. TaskIsTaken'
    BY <1>b, <1>6, ReadDoes DEF TaskIsTaken, WorkerOrder, api
  <2> QED
    BY <2>1, <2>5, <2>6, <2>7 DEF Base
<1>7. CASE Poll
  <2>1. RowTypes' /\ WorkerType'
    BY <1>b, <1>7, PollDoes DEF RowTypes, api
  <2>2. ASSUME NEW q \in Requests PROVE HeldBy(q)' => asked[q] # 0
    BY <1>b, <1>7, PollDoes, EmptyHas, CrawlRequestsAssumption
       DEF HeldBy, Known, WorkerOrder, NoRequest, api
  <2>3. ASSUME NEW q \in Requests PROVE status'[q] = "new" <=> status[q] = "new"
    BY <1>b, <1>7, PollDoes DEF Known, HeldBy, api
  <2>4. asked' = asked /\ userOps' = userOps
    BY <1>7, PollDoes DEF api
  <2>5. Known'
    BY <1>b, <2>2, <2>3, <2>4 DEF Known
  <2>6. WorkerOrder'
    BY <1>b, <1>7, PollDoes DEF WorkerOrder, api
  <2>7. TaskIsTaken'
    BY <1>b, <1>7, PollDoes DEF TaskIsTaken, WorkerOrder, api
  <2> QED
    BY <2>1, <2>5, <2>6, <2>7 DEF Base
<1>8. CASE Take
  <2>1. RowTypes' /\ WorkerType'
    BY <1>b, <1>8, TakeDoes DEF RowTypes, api
  <2>2. ASSUME NEW q \in Requests PROVE HeldBy(q)' => asked[q] # 0
    BY <1>b, <1>8, TakeDoes, EmptyHas, CrawlRequestsAssumption
       DEF HeldBy, Known, WorkerOrder, NoRequest, api
  <2>3. ASSUME NEW q \in Requests PROVE status'[q] = "new" <=> status[q] = "new"
    BY <1>b, <1>8, TakeDoes DEF Known, HeldBy, api
  <2>4. asked' = asked /\ userOps' = userOps
    BY <1>8, TakeDoes DEF api
  <2>5. Known'
    BY <1>b, <2>2, <2>3, <2>4 DEF Known
  <2>6. WorkerOrder'
    BY <1>b, <1>8, TakeDoes DEF WorkerOrder, api
  <2>7. TaskIsTaken'
    BY <1>b, <1>8, TakeDoes DEF TaskIsTaken, WorkerOrder, api
  <2> QED
    BY <2>1, <2>5, <2>6, <2>7 DEF Base
<1>9. CASE WorkerDies
  <2>1. RowTypes' /\ WorkerType'
    BY <1>b, <1>9, WorkerDiesDoes DEF RowTypes, Fault, api
  <2>2. ASSUME NEW q \in Requests PROVE HeldBy(q)' => asked[q] # 0
    BY <1>b, <1>9, WorkerDiesDoes, EmptyHas, CrawlRequestsAssumption
       DEF HeldBy, Known, WorkerOrder, NoRequest, Fault, api
  <2>3. ASSUME NEW q \in Requests PROVE status'[q] = "new" <=> status[q] = "new"
    BY <1>b, <1>9, WorkerDiesDoes DEF Known, HeldBy, Fault, api
  <2>4. asked' = asked /\ userOps' = userOps
    BY <1>9, WorkerDiesDoes DEF api
  <2>5. Known'
    BY <1>b, <2>2, <2>3, <2>4 DEF Known
  <2>6. WorkerOrder'
    BY <1>b, <1>9, WorkerDiesDoes DEF WorkerOrder, Fault, api
  <2>7. TaskIsTaken'
    BY <1>b, <1>9, WorkerDiesDoes DEF TaskIsTaken, WorkerOrder, Fault, api
  <2> QED
    BY <2>1, <2>5, <2>6, <2>7 DEF Base
<1>10. CASE RecoverFails
  <2>1. RowTypes' /\ WorkerType'
    BY <1>b, <1>10, RecoverFailsDoes DEF RowTypes, api, Fault
  <2>2. ASSUME NEW q \in Requests PROVE HeldBy(q)' => asked[q] # 0
    BY <1>b, <1>10, RecoverFailsDoes, EmptyHas, CrawlRequestsAssumption
       DEF HeldBy, Known, WorkerOrder, NoRequest, api, Fault
  <2>3. ASSUME NEW q \in Requests PROVE status'[q] = "new" <=> status[q] = "new"
    BY <1>b, <1>10, RecoverFailsDoes DEF Known, HeldBy, api, Fault
  <2>4. asked' = asked /\ userOps' = userOps
    BY <1>10, RecoverFailsDoes DEF api, Fault
  <2>5. Known'
    BY <1>b, <2>2, <2>3, <2>4 DEF Known
  <2>6. WorkerOrder'
    BY <1>b, <1>10, RecoverFailsDoes DEF WorkerOrder, api, Fault
  <2>7. TaskIsTaken'
    BY <1>b, <1>10, RecoverFailsDoes DEF TaskIsTaken, WorkerOrder, api, Fault
  <2> QED
    BY <2>1, <2>5, <2>6, <2>7 DEF Base
<1> QED
  BY <1>1, <1>2, <1>3, <1>4, <1>5, <1>6, <1>7, <1>8, <1>9, <1>10 DEF WorkerStep

(* The steps for one request, of the API and of the tasks.                 *)
LEMMA RequestBase ==
    ASSUME Base, NEW r \in Requests,
           \/ Create(r) \/ CreateQueued(r) \/ ApiStep(r) \/ CancelReads(r)
           \/ Retry(r) \/ TaskStep(r)
    PROVE  Base'
<1>b. RowTypes /\ WorkerType /\ Known /\ WorkerOrder /\ TaskIsTaken
  BY DEF Base
<1>1. CASE Create(r)
  <2>1. RowTypes' /\ WorkerType'
    <3>1. /\ status' \in [Requests -> Statuses]
          /\ asked' \in [Requests -> 0 .. MaxUserOps + 1]
          /\ UNCHANGED <<queue, creating, cancel, userOps, worker, task, runs, faults>>
      BY <1>1, CreateDoes
    <3>2. RowTypes /\ WorkerType
      BY <1>b
    <3>3. RowTypes'
      BY <3>1, <3>2 DEF RowTypes
    <3>4. WorkerType'
      BY <3>1, <3>2 DEF WorkerType
    <3> QED
      BY <3>3, <3>4
  <2>2. ASSUME NEW q \in Requests
        PROVE  (status[q] = "new" <=> asked[q] = 0)' /\ (asked[q] <= userOps + 1)'
    <3>1. CASE q = r
      BY <1>b, CountsAre, <1>1, CreateDoes, <3>1 DEF Known, HeldBy
    <3>2. CASE q # r
      BY <1>b, CountsAre, <1>1, CreateDoes, <3>2 DEF Known
    <3> QED
      BY <3>1, <3>2
  <2>3. ASSUME NEW q \in Requests, HeldBy(q)'
        PROVE  (asked[q] # 0)'
    <3>1. CASE q = r
      BY <1>b, <1>1, CreateDoes, <2>2, <3>1 DEF Known, HeldBy, RowTypes
    <3>2. CASE q # r
      <4>1. HeldBy(q)
        BY <1>1, CreateDoes, <2>3, <3>2 DEF HeldBy
      <4> QED
        BY <1>b, <1>1, CreateDoes, <3>2, <4>1 DEF Known
    <3> QED
      BY <3>1, <3>2
  <2>4. Known'
    BY <2>2, <2>3 DEF Known
  <2>5. WorkerOrder'
    <3>1. worker' = worker /\ task' = task
      BY <1>1, CreateDoes
    <3> QED
      BY <1>b, <3>1 DEF WorkerOrder
  <2>6. TaskIsTaken'
    <3> SUFFICES ASSUME NEW q \in Requests
                 PROVE  (task[q] # "none" => status[q] # "queued")'
      BY DEF TaskIsTaken
    <3>1. CASE q = r
      BY <1>b, <1>1, CreateDoes, <3>1 DEF Known, HeldBy, TaskIsTaken
    <3>2. CASE q # r
      BY <1>b, <1>1, CreateDoes, <3>2 DEF TaskIsTaken
    <3> QED
      BY <3>1, <3>2
  <2> QED
    BY <2>1, <2>4, <2>5, <2>6 DEF Base
<1>2. CASE CreateQueued(r)
  <2>0. /\ status'[r] = "queued" /\ asked'[r] = 1 /\ userOps' = userOps
        /\ \A q \in Requests \ {r} : status'[q] = status[q] /\ asked'[q] = asked[q]
    BY <1>2, CreateQueuedDoes
  <2>1. RowTypes' /\ WorkerType'
    <3>1. /\ status' \in [Requests -> Statuses]
          /\ asked' \in [Requests -> 0 .. MaxUserOps + 1]
          /\ creating' \in [Requests -> {"none", "pushing", "falling back", "done"}]
          /\ UNCHANGED <<queue, cancel, userOps, worker, task, runs, faults>>
      BY <1>2, CreateQueuedDoes
    <3>2. RowTypes /\ WorkerType
      BY <1>b
    <3>3. RowTypes'
      BY <3>1, <3>2 DEF RowTypes
    <3>4. WorkerType'
      BY <3>1, <3>2 DEF WorkerType
    <3> QED
      BY <3>3, <3>4
  <2>2. ASSUME NEW q \in Requests
        PROVE  (status[q] = "new" <=> asked[q] = 0)' /\ (asked[q] <= userOps + 1)'
    <3>1. CASE q = r
      BY <1>b, CountsAre, <2>0, <3>1 DEF Known
    <3>2. CASE q # r
      BY <1>b, CountsAre, <2>0, <3>2 DEF Known
    <3> QED
      BY <3>1, <3>2
  <2>3. ASSUME NEW q \in Requests, HeldBy(q)'
        PROVE  (asked[q] # 0)'
    <3>1. CASE q = r
      BY <1>b, <1>2, CreateQueuedDoes, <2>2, <3>1 DEF Known, HeldBy, RowTypes
    <3>2. CASE q # r
      <4>1. HeldBy(q)
        BY <1>2, CreateQueuedDoes, <2>3, <3>2 DEF HeldBy
      <4> QED
        BY <1>b, <1>2, CreateQueuedDoes, <3>2, <4>1 DEF Known
    <3> QED
      BY <3>1, <3>2
  <2>4. Known'
    BY <2>2, <2>3 DEF Known
  <2>5. WorkerOrder'
    <3>1. worker' = worker /\ task' = task
      BY <1>2, CreateQueuedDoes
    <3> QED
      BY <1>b, <3>1 DEF WorkerOrder
  <2>6. TaskIsTaken'
    <3> SUFFICES ASSUME NEW q \in Requests
                 PROVE  (task[q] # "none" => status[q] # "queued")'
      BY DEF TaskIsTaken
    <3>1. CASE q = r
      <4>1. status[r] = "new" /\ task' = task
        BY <1>2, CreateQueuedDoes
      <4>2. task[r] = "none"
        BY <1>b, <4>1 DEF Known, HeldBy
      <4> QED
        BY <3>1, <4>1, <4>2
    <3>2. CASE q # r
      BY <1>b, <1>2, CreateQueuedDoes, <3>2 DEF TaskIsTaken
    <3> QED
      BY <3>1, <3>2
  <2> QED
    BY <2>1, <2>4, <2>5, <2>6 DEF Base
<1>3. CASE Push(r)
  <2>1. RowTypes' /\ WorkerType'
    <3>1. /\ creating' \in [Requests -> {"none", "pushing", "falling back", "done"}]
          /\ queue' \in Seq(Requests) /\ faults' \subseteq FaultKinds
          /\ UNCHANGED <<status, asked, cancel, userOps, worker, task, runs>>
      BY <1>3, PushDoes
    <3>2. RowTypes /\ WorkerType
      BY <1>b
    <3>3. RowTypes'
      BY <3>1, <3>2 DEF RowTypes
    <3>4. WorkerType'
      BY <3>1, <3>2 DEF WorkerType
    <3> QED
      BY <3>3, <3>4
  <2>2. ASSUME NEW q \in Requests
        PROVE  (status[q] = "new" <=> asked[q] = 0)' /\ (asked[q] <= userOps + 1)'
    <3>1. CASE q = r
      BY <1>b, CountsAre, <1>3, PushDoes, <3>1 DEF Known, HeldBy
    <3>2. CASE q # r
      BY <1>b, CountsAre, <1>3, PushDoes, <3>2 DEF Known
    <3> QED
      BY <3>1, <3>2
  <2>3. ASSUME NEW q \in Requests, HeldBy(q)'
        PROVE  (asked[q] # 0)'
    <3>1. CASE q = r
      <4>1. HeldBy(r) /\ asked' = asked
        BY <1>3, PushDoes DEF HeldBy
      <4> QED
        BY <1>b, <3>1, <4>1 DEF Known
    <3>2. CASE q # r
      <4>1. HeldBy(q)
        BY <1>3, PushDoes, <2>3, <3>2 DEF HeldBy
      <4> QED
        BY <1>b, <1>3, PushDoes, <3>2, <4>1 DEF Known
    <3> QED
      BY <3>1, <3>2
  <2>4. Known'
    BY <2>2, <2>3 DEF Known
  <2>5. WorkerOrder'
    <3>1. worker' = worker /\ task' = task
      BY <1>3, PushDoes
    <3> QED
      BY <1>b, <3>1 DEF WorkerOrder
  <2>6. TaskIsTaken'
    <3> SUFFICES ASSUME NEW q \in Requests
                 PROVE  (task[q] # "none" => status[q] # "queued")'
      BY DEF TaskIsTaken
    <3>1. CASE q = r
      <4>1. status' = status /\ task' = task
        BY <1>3, PushDoes
      <4> QED
        BY <1>b, <4>1 DEF TaskIsTaken
    <3>2. CASE q # r
      BY <1>b, <1>3, PushDoes, <3>2 DEF TaskIsTaken
    <3> QED
      BY <3>1, <3>2
  <2> QED
    BY <2>1, <2>4, <2>5, <2>6 DEF Base
<1>4. CASE FallBack(r)
  <2>1. RowTypes' /\ WorkerType'
    <3>1. /\ status' \in [Requests -> Statuses]
          /\ creating' \in [Requests -> {"none", "pushing", "falling back", "done"}]
          /\ UNCHANGED <<queue, asked, cancel, userOps, worker, task, runs, faults>>
      BY <1>4, FallBackDoes
    <3>2. RowTypes /\ WorkerType
      BY <1>b
    <3>3. RowTypes'
      BY <3>1, <3>2 DEF RowTypes
    <3>4. WorkerType'
      BY <3>1, <3>2 DEF WorkerType
    <3> QED
      BY <3>3, <3>4
  <2>2. ASSUME NEW q \in Requests
        PROVE  (status[q] = "new" <=> asked[q] = 0)' /\ (asked[q] <= userOps + 1)'
    <3>1. CASE q = r
      BY <1>b, CountsAre, <1>4, FallBackDoes, <3>1 DEF Known, HeldBy
    <3>2. CASE q # r
      BY <1>b, CountsAre, <1>4, FallBackDoes, <3>2 DEF Known
    <3> QED
      BY <3>1, <3>2
  <2>3. ASSUME NEW q \in Requests, HeldBy(q)'
        PROVE  (asked[q] # 0)'
    <3>1. CASE q = r
      BY <1>b, <1>4, FallBackDoes, <2>2, <3>1 DEF Known, HeldBy, RowTypes
    <3>2. CASE q # r
      <4>1. HeldBy(q)
        BY <1>4, FallBackDoes, <2>3, <3>2 DEF HeldBy
      <4> QED
        BY <1>b, <1>4, FallBackDoes, <3>2, <4>1 DEF Known
    <3> QED
      BY <3>1, <3>2
  <2>4. Known'
    BY <2>2, <2>3 DEF Known
  <2>5. WorkerOrder'
    <3>1. worker' = worker /\ task' = task
      BY <1>4, FallBackDoes
    <3> QED
      BY <1>b, <3>1 DEF WorkerOrder
  <2>6. TaskIsTaken'
    <3> SUFFICES ASSUME NEW q \in Requests
                 PROVE  (task[q] # "none" => status[q] # "queued")'
      BY DEF TaskIsTaken
    <3>1. CASE q = r
      BY <1>b, <1>4, FallBackDoes, <3>1 DEF Known, HeldBy, TaskIsTaken
    <3>2. CASE q # r
      BY <1>b, <1>4, FallBackDoes, <3>2 DEF TaskIsTaken
    <3> QED
      BY <3>1, <3>2
  <2> QED
    BY <2>1, <2>4, <2>5, <2>6 DEF Base
<1>5. CASE CancelReads(r)
  <2>1. RowTypes' /\ WorkerType'
    <3>1. /\ cancel' \in [Requests -> {"none", "removing", "committing", "done"}]
          /\ userOps' \in 0 .. MaxUserOps
          /\ UNCHANGED <<status, queue, asked, creating, worker, task, runs, faults>>
      BY <1>5, CancelReadsDoes
    <3>2. RowTypes /\ WorkerType
      BY <1>b
    <3>3. RowTypes'
      BY <3>1, <3>2 DEF RowTypes
    <3>4. WorkerType'
      BY <3>1, <3>2 DEF WorkerType
    <3> QED
      BY <3>3, <3>4
  <2>2. ASSUME NEW q \in Requests
        PROVE  (status[q] = "new" <=> asked[q] = 0)' /\ (asked[q] <= userOps + 1)'
    <3>1. CASE q = r
      BY <1>b, CountsAre, <1>5, CancelReadsDoes, <3>1 DEF Known, HeldBy
    <3>2. CASE q # r
      BY <1>b, CountsAre, <1>5, CancelReadsDoes, <3>2 DEF Known
    <3> QED
      BY <3>1, <3>2
  <2>3. ASSUME NEW q \in Requests, HeldBy(q)'
        PROVE  (asked[q] # 0)'
    <3>1. CASE q = r
      BY <1>b, <1>5, CancelReadsDoes, <2>2, <3>1 DEF Known, HeldBy, RowTypes
    <3>2. CASE q # r
      <4>1. HeldBy(q)
        BY <1>5, CancelReadsDoes, <2>3, <3>2 DEF HeldBy
      <4> QED
        BY <1>b, <1>5, CancelReadsDoes, <3>2, <4>1 DEF Known
    <3> QED
      BY <3>1, <3>2
  <2>4. Known'
    BY <2>2, <2>3 DEF Known
  <2>5. WorkerOrder'
    <3>1. worker' = worker /\ task' = task
      BY <1>5, CancelReadsDoes
    <3> QED
      BY <1>b, <3>1 DEF WorkerOrder
  <2>6. TaskIsTaken'
    <3> SUFFICES ASSUME NEW q \in Requests
                 PROVE  (task[q] # "none" => status[q] # "queued")'
      BY DEF TaskIsTaken
    <3>1. CASE q = r
      BY <1>b, <1>5, CancelReadsDoes, <3>1 DEF Known, HeldBy, TaskIsTaken
    <3>2. CASE q # r
      BY <1>b, <1>5, CancelReadsDoes, <3>2 DEF TaskIsTaken
    <3> QED
      BY <3>1, <3>2
  <2> QED
    BY <2>1, <2>4, <2>5, <2>6 DEF Base
<1>6. CASE CancelRemoves(r)
  <2>1. RowTypes' /\ WorkerType'
    <3>1. /\ cancel' \in [Requests -> {"none", "removing", "committing", "done"}]
          /\ queue' \in Seq(Requests)
          /\ faults' = faults \/ faults' \subseteq faults \cup FaultKinds
          /\ UNCHANGED <<status, asked, creating, userOps, worker, task, runs>>
      BY <1>6, CancelRemovesDoes DEF Fault
    <3>2. RowTypes /\ WorkerType
      BY <1>b
    <3>3. RowTypes'
      BY <3>1, <3>2 DEF RowTypes
    <3>4. WorkerType'
      BY <3>1, <3>2 DEF WorkerType
    <3> QED
      BY <3>3, <3>4
  <2>2. ASSUME NEW q \in Requests
        PROVE  (status[q] = "new" <=> asked[q] = 0)' /\ (asked[q] <= userOps + 1)'
    <3>1. CASE q = r
      BY <1>b, CountsAre, <1>6, CancelRemovesDoes, <3>1 DEF Known, HeldBy
    <3>2. CASE q # r
      BY <1>b, CountsAre, <1>6, CancelRemovesDoes, <3>2 DEF Known
    <3> QED
      BY <3>1, <3>2
  <2>3. ASSUME NEW q \in Requests, HeldBy(q)'
        PROVE  (asked[q] # 0)'
    <3>1. CASE q = r
      <4>1. HeldBy(r) /\ asked' = asked
        BY <1>6, CancelRemovesDoes DEF HeldBy
      <4> QED
        BY <1>b, <3>1, <4>1 DEF Known
    <3>2. CASE q # r
      <4>1. HeldBy(q)
        BY <1>6, CancelRemovesDoes, <2>3, <3>2 DEF HeldBy
      <4> QED
        BY <1>b, <1>6, CancelRemovesDoes, <3>2, <4>1 DEF Known
    <3> QED
      BY <3>1, <3>2
  <2>4. Known'
    BY <2>2, <2>3 DEF Known
  <2>5. WorkerOrder'
    <3>1. worker' = worker /\ task' = task
      BY <1>6, CancelRemovesDoes
    <3> QED
      BY <1>b, <3>1 DEF WorkerOrder
  <2>6. TaskIsTaken'
    <3> SUFFICES ASSUME NEW q \in Requests
                 PROVE  (task[q] # "none" => status[q] # "queued")'
      BY DEF TaskIsTaken
    <3>1. CASE q = r
      BY <1>b, <1>6, CancelRemovesDoes, <3>1 DEF Known, HeldBy, TaskIsTaken
    <3>2. CASE q # r
      BY <1>b, <1>6, CancelRemovesDoes, <3>2 DEF TaskIsTaken
    <3> QED
      BY <3>1, <3>2
  <2> QED
    BY <2>1, <2>4, <2>5, <2>6 DEF Base
<1>7. CASE CancelCommits(r)
  <2>1. RowTypes' /\ WorkerType'
    <3>1. /\ status' \in [Requests -> Statuses]
          /\ cancel' \in [Requests -> {"none", "removing", "committing", "done"}]
          /\ UNCHANGED <<queue, asked, creating, userOps, worker, task, runs, faults>>
      BY <1>7, CancelCommitsDoes
    <3>2. RowTypes /\ WorkerType
      BY <1>b
    <3>3. RowTypes'
      BY <3>1, <3>2 DEF RowTypes
    <3>4. WorkerType'
      BY <3>1, <3>2 DEF WorkerType
    <3> QED
      BY <3>3, <3>4
  <2>2. ASSUME NEW q \in Requests
        PROVE  (status[q] = "new" <=> asked[q] = 0)' /\ (asked[q] <= userOps + 1)'
    <3>1. CASE q = r
      BY <1>b, CountsAre, <1>7, CancelCommitsDoes, <3>1 DEF Known, HeldBy
    <3>2. CASE q # r
      BY <1>b, CountsAre, <1>7, CancelCommitsDoes, <3>2 DEF Known
    <3> QED
      BY <3>1, <3>2
  <2>3. ASSUME NEW q \in Requests, HeldBy(q)'
        PROVE  (asked[q] # 0)'
    <3>1. CASE q = r
      BY <1>b, <1>7, CancelCommitsDoes, <2>2, <3>1 DEF Known, HeldBy, RowTypes
    <3>2. CASE q # r
      <4>1. HeldBy(q)
        BY <1>7, CancelCommitsDoes, <2>3, <3>2 DEF HeldBy
      <4> QED
        BY <1>b, <1>7, CancelCommitsDoes, <3>2, <4>1 DEF Known
    <3> QED
      BY <3>1, <3>2
  <2>4. Known'
    BY <2>2, <2>3 DEF Known
  <2>5. WorkerOrder'
    <3>1. worker' = worker /\ task' = task
      BY <1>7, CancelCommitsDoes
    <3> QED
      BY <1>b, <3>1 DEF WorkerOrder
  <2>6. TaskIsTaken'
    <3> SUFFICES ASSUME NEW q \in Requests
                 PROVE  (task[q] # "none" => status[q] # "queued")'
      BY DEF TaskIsTaken
    <3>1. CASE q = r
      BY <1>b, <1>7, CancelCommitsDoes, <3>1 DEF Known, HeldBy, TaskIsTaken
    <3>2. CASE q # r
      BY <1>b, <1>7, CancelCommitsDoes, <3>2 DEF TaskIsTaken
    <3> QED
      BY <3>1, <3>2
  <2> QED
    BY <2>1, <2>4, <2>5, <2>6 DEF Base
<1>8. CASE Retry(r)
  <2>1. RowTypes' /\ WorkerType'
    <3>1. /\ status' \in [Requests -> Statuses]
          /\ asked' \in [Requests -> 0 .. MaxUserOps + 1]
          /\ userOps' \in 0 .. MaxUserOps
          /\ UNCHANGED <<queue, creating, cancel, worker, task, runs, faults>>
      BY <1>8, RetryDoes
    <3>2. RowTypes /\ WorkerType
      BY <1>b
    <3>3. RowTypes'
      BY <3>1, <3>2 DEF RowTypes
    <3>4. WorkerType'
      BY <3>1, <3>2 DEF WorkerType
    <3> QED
      BY <3>3, <3>4
  <2>2. ASSUME NEW q \in Requests
        PROVE  (status[q] = "new" <=> asked[q] = 0)' /\ (asked[q] <= userOps + 1)'
    <3>1. CASE q = r
      BY <1>b, CountsAre, <1>8, RetryDoes, <3>1 DEF Known, HeldBy
    <3>2. CASE q # r
      BY <1>b, CountsAre, <1>8, RetryDoes, <3>2 DEF Known
    <3> QED
      BY <3>1, <3>2
  <2>3. ASSUME NEW q \in Requests, HeldBy(q)'
        PROVE  (asked[q] # 0)'
    <3>1. CASE q = r
      BY <1>b, <1>8, RetryDoes, <2>2, <3>1 DEF Known, HeldBy, RowTypes
    <3>2. CASE q # r
      <4>1. HeldBy(q)
        BY <1>8, RetryDoes, <2>3, <3>2 DEF HeldBy
      <4> QED
        BY <1>b, <1>8, RetryDoes, <3>2, <4>1 DEF Known
    <3> QED
      BY <3>1, <3>2
  <2>4. Known'
    BY <2>2, <2>3 DEF Known
  <2>5. WorkerOrder'
    <3>1. worker' = worker /\ task' = task
      BY <1>8, RetryDoes
    <3> QED
      BY <1>b, <3>1 DEF WorkerOrder
  <2>6. TaskIsTaken'
    <3> SUFFICES ASSUME NEW q \in Requests
                 PROVE  (task[q] # "none" => status[q] # "queued")'
      BY DEF TaskIsTaken
    <3>1. CASE q = r
      BY <1>b, <1>8, RetryDoes, <3>1 DEF Known, HeldBy, TaskIsTaken
    <3>2. CASE q # r
      BY <1>b, <1>8, RetryDoes, <3>2 DEF TaskIsTaken
    <3> QED
      BY <3>1, <3>2
  <2> QED
    BY <2>1, <2>4, <2>5, <2>6 DEF Base
<1>9. CASE StartProcessing(r)
  <2>1. RowTypes' /\ WorkerType'
    <3>1. /\ status' \in [Requests -> Statuses]
          /\ task' \in [Requests -> {"none", "picked", "running"}]
          /\ runs' \in [Requests -> Nat]
          /\ UNCHANGED <<queue, asked, creating, cancel, userOps, worker, faults>>
      BY <1>9, StartProcessingDoes
    <3>2. RowTypes /\ WorkerType
      BY <1>b
    <3>3. RowTypes'
      BY <3>1, <3>2 DEF RowTypes
    <3>4. WorkerType'
      BY <3>1, <3>2 DEF WorkerType
    <3> QED
      BY <3>3, <3>4
  <2>2. ASSUME NEW q \in Requests
        PROVE  (status[q] = "new" <=> asked[q] = 0)' /\ (asked[q] <= userOps + 1)'
    <3>1. CASE q = r
      BY <1>b, CountsAre, <1>9, StartProcessingDoes, <3>1 DEF Known, HeldBy
    <3>2. CASE q # r
      BY <1>b, CountsAre, <1>9, StartProcessingDoes, <3>2 DEF Known
    <3> QED
      BY <3>1, <3>2
  <2>3. ASSUME NEW q \in Requests, HeldBy(q)'
        PROVE  (asked[q] # 0)'
    <3>1. CASE q = r
      BY <1>b, <1>9, StartProcessingDoes, <2>2, <3>1 DEF Known, HeldBy,
         RowTypes
    <3>2. CASE q # r
      <4>1. HeldBy(q)
        BY <1>9, StartProcessingDoes, <2>3, <3>2 DEF HeldBy
      <4> QED
        BY <1>b, <1>9, StartProcessingDoes, <3>2, <4>1 DEF Known
    <3> QED
      BY <3>1, <3>2
  <2>4. Known'
    BY <2>2, <2>3 DEF Known
  <2>5. WorkerOrder'
    BY <1>b, <1>9, StartProcessingDoes DEF WorkerOrder
  <2>6. TaskIsTaken'
    <3> SUFFICES ASSUME NEW q \in Requests
                 PROVE  (task[q] # "none" => status[q] # "queued")'
      BY DEF TaskIsTaken
    <3>1. CASE q = r
      BY <1>b, <1>9, StartProcessingDoes, <3>1 DEF Known, HeldBy, TaskIsTaken
    <3>2. CASE q # r
      BY <1>b, <1>9, StartProcessingDoes, <3>2 DEF TaskIsTaken
    <3> QED
      BY <3>1, <3>2
  <2> QED
    BY <2>1, <2>4, <2>5, <2>6 DEF Base
<1>10. CASE Finish(r)
  <2>1. RowTypes' /\ WorkerType'
    <3>1. /\ status' \in [Requests -> Statuses]
          /\ task' \in [Requests -> {"none", "picked", "running"}]
          /\ UNCHANGED <<queue, asked, creating, cancel, userOps, worker, runs, faults>>
      BY <1>10, FinishDoes
    <3>2. RowTypes /\ WorkerType
      BY <1>b
    <3>3. RowTypes'
      BY <3>1, <3>2 DEF RowTypes
    <3>4. WorkerType'
      BY <3>1, <3>2 DEF WorkerType
    <3> QED
      BY <3>3, <3>4
  <2>2. ASSUME NEW q \in Requests
        PROVE  (status[q] = "new" <=> asked[q] = 0)' /\ (asked[q] <= userOps + 1)'
    <3>1. CASE q = r
      BY <1>b, CountsAre, <1>10, FinishDoes, <3>1 DEF Known, HeldBy
    <3>2. CASE q # r
      BY <1>b, CountsAre, <1>10, FinishDoes, <3>2 DEF Known
    <3> QED
      BY <3>1, <3>2
  <2>3. ASSUME NEW q \in Requests, HeldBy(q)'
        PROVE  (asked[q] # 0)'
    <3>1. CASE q = r
      BY <1>b, <1>10, FinishDoes, <2>2, <3>1 DEF Known, HeldBy, RowTypes
    <3>2. CASE q # r
      <4>1. HeldBy(q)
        BY <1>10, FinishDoes, <2>3, <3>2 DEF HeldBy
      <4> QED
        BY <1>b, <1>10, FinishDoes, <3>2, <4>1 DEF Known
    <3> QED
      BY <3>1, <3>2
  <2>4. Known'
    BY <2>2, <2>3 DEF Known
  <2>5. WorkerOrder'
    BY <1>b, <1>10, FinishDoes DEF WorkerOrder
  <2>6. TaskIsTaken'
    <3> SUFFICES ASSUME NEW q \in Requests
                 PROVE  (task[q] # "none" => status[q] # "queued")'
      BY DEF TaskIsTaken
    <3>1. CASE q = r
      BY <1>b, <1>10, FinishDoes, <3>1 DEF Known, HeldBy, TaskIsTaken
    <3>2. CASE q # r
      BY <1>b, <1>10, FinishDoes, <3>2 DEF TaskIsTaken
    <3> QED
      BY <3>1, <3>2
  <2> QED
    BY <2>1, <2>4, <2>5, <2>6 DEF Base
<1> QED
  BY <1>1, <1>2, <1>3, <1>4, <1>5, <1>6, <1>7, <1>8, <1>9, <1>10 DEF ApiStep,
     TaskStep

(* What was under way in an API that dies is over.                         *)
LEMMA ApiDiesBase == Base /\ ApiDies => Base'
<1> SUFFICES ASSUME Base, ApiDies PROVE Base'
  OBVIOUS
<1>b. RowTypes /\ WorkerType /\ Known /\ WorkerOrder /\ TaskIsTaken
  BY DEF Base
<1>1. /\ creating' \in [Requests -> {"none", "done"}]
      /\ cancel' \in [Requests -> {"none", "done"}]
      /\ \A r \in Requests : /\ creating'[r] # "none" => creating[r] # "none"
                             /\ cancel'[r] # "none" => cancel[r] # "none"
      /\ UNCHANGED <<status, queue, asked, userOps, worker, task, runs>>
      /\ faults' \subseteq FaultKinds
  BY <1>b, WorkerKept DEF ApiDies, Fault, RowTypes
<1>2. RowTypes' /\ WorkerType'
  BY <1>b, <1>1 DEF RowTypes, WorkerType
<1>3. Known'
  BY <1>b, <1>1 DEF Known, HeldBy
<1>4. WorkerOrder' /\ TaskIsTaken'
  BY <1>b, <1>1 DEF WorkerOrder, TaskIsTaken
<1> QED
  BY <1>2, <1>3, <1>4 DEF Base

(* Base holds before there is any request.                                 *)
LEMMA BaseInit == Init => Base
<1> SUFFICES ASSUME Init PROVE Base
  OBVIOUS
<1>1. RowTypes /\ WorkerType
  BY CrawlRequestsAssumption, EmptySeq DEF RowTypes, WorkerType, Init,
     NewWorker,
     Statuses
<1>2. Known
  BY EmptyHas, CrawlRequestsAssumption DEF Init, Known, HeldBy, NewWorker,
     NoRequest
<1>3. WorkerOrder
  BY DEF Init, WorkerOrder, NewWorker
<1>4. TaskIsTaken
  BY DEF Init, TaskIsTaken
<1> QED
  BY <1>1, <1>2, <1>3, <1>4 DEF Base

(* Every step keeps Base.                                                  *)
LEMMA BaseStep == Base /\ [Next]_vars => Base'
<1>1. Base /\ Next => Base'
  BY WorkerBase, RequestBase, ApiDiesBase DEF Next
<1>2. ASSUME Base, UNCHANGED vars PROVE Base'
  <2>1. RowTypes' /\ WorkerType'
    BY <1>2 DEF RowTypes, WorkerType, vars, api, Base
  <2>2. Known'
    BY <1>2 DEF vars, api, Known, HeldBy, Base
  <2>3. WorkerOrder'
    BY <1>2 DEF vars, api, WorkerOrder, Base
  <2>4. TaskIsTaken'
    BY <1>2 DEF vars, api, TaskIsTaken, Base
  <2> QED
    BY <2>1, <2>2, <2>3, <2>4 DEF Base
<1> QED
  BY <1>1, <1>2

(* A step for one request.                                                 *)
RequestStep(r) ==
    \/ Create(r) \/ CreateQueued(r) \/ ApiStep(r) \/ CancelReads(r)
    \/ Retry(r) \/ TaskStep(r)

(* A step for one request leaves the others and the worker alone.          *)
LEMMA OthersKeep ==
    ASSUME Base, NEW r \in Requests, RequestStep(r)
    PROVE  /\ worker' = worker /\ faults \subseteq faults'
           /\ \A q \in Requests \ {r} :
                 /\ status'[q] = status[q] /\ asked'[q] = asked[q]
                 /\ creating'[q] = creating[q] /\ cancel'[q] = cancel[q]
                 /\ task'[q] = task[q] /\ runs'[q] = runs[q]
                 /\ Contains(queue', q) <=> Contains(queue, q)
<1>1. CASE Create(r)
  BY <1>1, CreateDoes
<1>2. CASE CreateQueued(r)
  BY <1>2, CreateQueuedDoes
<1>3. CASE Push(r)
  BY <1>3, PushDoes
<1>4. CASE FallBack(r)
  BY <1>4, FallBackDoes
<1>5. CASE CancelReads(r)
  BY <1>5, CancelReadsDoes
<1>6. CASE CancelRemoves(r)
  BY <1>6, CancelRemovesDoes DEF Fault
<1>7. CASE CancelCommits(r)
  BY <1>7, CancelCommitsDoes
<1>8. CASE Retry(r)
  BY <1>8, RetryDoes
<1>9. CASE StartProcessing(r)
  BY <1>9, StartProcessingDoes
<1>10. CASE Finish(r)
  BY <1>10, FinishDoes
<1> QED
  BY <1>1, <1>2, <1>3, <1>4, <1>5, <1>6, <1>7, <1>8, <1>9, <1>10
     DEF RequestStep, ApiStep, TaskStep

-----------------------------------------------------------------------------
(* The theorems.                                                           *)

(* Base is an invariant: whatever is under way about a request has a row   *)
(* behind it, and the worker is where its label says.                      *)
THEOREM BaseInvariant == Spec => []Base
<1>1. Init => Base
  BY BaseInit
<1>2. Base /\ [Next]_vars => Base'
  BY BaseStep
<1> QED
  BY <1>1, <1>2, PTL DEF Spec

(* requested_at orders rows, and only creations and retries set it.        *)
EarlierType == earlier \in [Requests -> SUBSET Requests]

LEMMA EarlierStep == EarlierType /\ [Next]_vars => EarlierType'
<1> SUFFICES ASSUME EarlierType, [Next]_vars PROVE EarlierType'
  OBVIOUS
<1>1. ASSUME NEW r \in Requests, Ask(r) PROVE EarlierType'
  BY <1>1 DEF Ask, EarlierType
<1>2. CASE UNCHANGED earlier
  BY <1>2 DEF EarlierType
<1>3. CASE WorkerStep \/ WorkerDies \/ ApiDies
  <2>1. CASE WorkerStep
    BY <1>2, <2>1 DEF WorkerStep, Start, Setup, RecoverPush, RecoverCommits,
       RecoverFails, Pop, Read, Poll, Take, api
  <2>2. CASE WorkerDies \/ ApiDies
    BY <1>2, <2>2 DEF WorkerDies, ApiDies, api
  <2> QED
    BY <1>3, <2>1, <2>2
<1>4. ASSUME NEW r \in Requests,
             \/ Create(r) \/ CreateQueued(r) \/ ApiStep(r) \/ CancelReads(r)
             \/ Retry(r) \/ TaskStep(r)
      PROVE  EarlierType'
  <2>1. CASE Create(r) \/ CreateQueued(r) \/ Retry(r)
    BY <1>1, <2>1 DEF Create, CreateQueued, Retry
  <2>2. CASE ApiStep(r) \/ CancelReads(r) \/ TaskStep(r)
    BY <1>2, <2>2 DEF ApiStep, Push, FallBack, CancelReads, CancelRemoves,
       CancelCommits, TaskStep, StartProcessing, Finish, api
  <2> QED
    BY <1>4, <2>1, <2>2
<1> QED
  BY <1>2, <1>3, <1>4 DEF Next, vars, api

(* The type invariant.                                                     *)
THEOREM TypeCorrect == Spec => []TypeOK
<1>1. Base /\ EarlierType => TypeOK
  <2> SUFFICES ASSUME Base, EarlierType PROVE TypeOK
    OBVIOUS
  <2>1. RowTypes /\ WorkerType /\ WorkerOrder
    BY DEF Base
  <2>2. \A r \in Requests : status[r] = "new" <=> asked[r] = 0
    BY DEF Base, Known
  <2>3. worker.pc = "free" => worker.mode # "unknown"
    BY <2>1 DEF WorkerOrder
  <2> QED
    BY <2>1, <2>2, <2>3 DEF TypeOK, RowTypes, WorkerType, EarlierType
<1>2. Init => EarlierType
  BY DEF Init, EarlierType
<1> QED
  BY <1>1, <1>2, EarlierStep, BaseInvariant, PTL DEF Spec

(* What a step does to a row that is cancelled.                            *)
Stands(r) ==
    status[r] = "cancelled" =>
          /\ worker'.pc = "taking" /\ worker'.req = r => At("taking")
          /\ \/ status'[r] = "cancelled"
             \/ task[r] # "none" \/ creating[r] = "falling back"
             \/ worker.req = r \/ r \in worker.pushed

(* A committed cancellation is undone by nobody who reads the row after it.*)
THEOREM CancellationsStand == Spec => CancelStands
<1>1. ASSUME Base, Next, NEW q \in Requests PROVE Stands(q)
  <2> SUFFICES ASSUME status[q] = "cancelled" PROVE Stands(q)
    BY DEF Stands
  <2>1. CASE Start
    BY <1>1, <2>1, StartDoes DEF Stands, At, Moves
  <2>2. CASE Setup
    BY <1>1, <2>2, SetupDoes DEF Stands, At
  <2>3. CASE RecoverPush
    BY <1>1, <2>3, RecoverPushDoes DEF Stands, At
  <2>4. CASE RecoverCommits
    BY <1>1, <2>4, RecoverCommitsDoes DEF Stands, At
  <2>12. CASE RecoverFails
    BY <1>1, <2>12, RecoverFailsDoes DEF Stands, At
  <2>5. CASE Pop
    BY <1>1, <2>5, PopDoes DEF Stands, At
  <2>6. CASE Read
    BY <1>1, <2>6, ReadDoes DEF Stands, At
  <2>7. CASE Poll
    BY <1>1, <2>7, PollDoes DEF Stands, At
  <2>8. CASE Take
    BY <1>1, <2>8, TakeDoes DEF Stands, At
  <2>9. CASE WorkerDies
    BY <1>1, <2>9, WorkerDiesDoes DEF Stands, At
  <2>10. CASE ApiDies
    BY <2>10, WorkerKept DEF ApiDies, Stands, At
  <2>11. ASSUME NEW r \in Requests, RequestStep(r) PROVE Stands(q)
    <3>1. CASE q # r
      BY <1>1, <2>11, <3>1, OthersKeep DEF Stands, At
    <3>2. CASE q = r
      <4>1. CASE Create(r)
        BY <1>1, <2>11, <3>2, <4>1, CreateDoes DEF Stands, At
      <4>2. CASE CreateQueued(r)
        BY <1>1, <2>11, <3>2, <4>2, CreateQueuedDoes DEF Stands, At
      <4>3. CASE Push(r)
        BY <1>1, <2>11, <3>2, <4>3, PushDoes DEF Stands, At
      <4>4. CASE FallBack(r)
        BY <1>1, <2>11, <3>2, <4>4, FallBackDoes DEF Stands, At
      <4>5. CASE CancelReads(r)
        BY <1>1, <2>11, <3>2, <4>5, CancelReadsDoes DEF Stands, At
      <4>6. CASE CancelRemoves(r)
        BY <1>1, <2>11, <3>2, <4>6, CancelRemovesDoes DEF Stands, At
      <4>7. CASE CancelCommits(r)
        BY <1>1, <2>11, <3>2, <4>7, CancelCommitsDoes DEF Stands, At
      <4>8. CASE Retry(r)
        BY <1>1, <2>11, <3>2, <4>8, RetryDoes DEF Stands, At
      <4>9. CASE StartProcessing(r)
        BY <1>1, <2>11, <3>2, <4>9, StartProcessingDoes DEF Stands, At
      <4>10. CASE Finish(r)
        BY <1>1, <2>11, <3>2, <4>10, FinishDoes DEF Stands, At
      <4> QED
        BY <2>11, <4>1, <4>2, <4>3, <4>4, <4>5, <4>6, <4>7, <4>8, <4>9,
           <4>10 DEF RequestStep, ApiStep, TaskStep
    <3> QED
      BY <3>1, <3>2
  <2> QED
    BY <1>1, <2>1, <2>2, <2>3, <2>4, <2>5, <2>6, <2>7, <2>8, <2>9, <2>10,
       <2>11, <2>12 DEF Next, WorkerStep, RequestStep
<1>2. Base /\ [Next]_vars =>
      [\A r \in Requests : status[r] = "cancelled" =>
          /\ worker'.pc = "taking" /\ worker'.req = r => At("taking")
          /\ \/ status'[r] = "cancelled"
             \/ task[r] # "none" \/ creating[r] = "falling back"
             \/ worker.req = r \/ r \in worker.pushed]_vars
  BY <1>1 DEF Stands
<1> QED
  BY <1>2, BaseInvariant, PTL DEF Spec, CancelStands

(* Faults are not undone.                                                  *)
LEMMA FaultsGrow == Base /\ Next => faults \subseteq faults'
<1> SUFFICES ASSUME Base, Next PROVE faults \subseteq faults'
  OBVIOUS
<1>1. CASE WorkerStep
  <2>1. CASE Start
    BY <2>1 DEF Start, Fault
  <2>2. CASE Setup
    BY <2>2 DEF Setup, Fault
  <2>3. CASE RecoverPush
    BY <2>3 DEF RecoverPush, Fault
  <2>4. CASE RecoverCommits
    BY <2>4 DEF RecoverCommits, Fault
  <2>9. CASE RecoverFails
    BY <2>9 DEF RecoverFails, Fault
  <2>5. CASE Pop
    BY <2>5 DEF Pop, Fault
  <2>6. CASE Read
    BY <2>6 DEF Read, Fault
  <2>7. CASE Poll
    BY <2>7 DEF Poll, Fault
  <2>8. CASE Take
    BY <2>8 DEF Take, Fault
  <2> QED
    BY <1>1, <2>1, <2>2, <2>3, <2>4, <2>5, <2>6, <2>7, <2>8, <2>9 DEF WorkerStep
<1>2. CASE WorkerDies
  BY <1>2 DEF WorkerDies, Fault
<1>3. CASE ApiDies
  BY <1>3 DEF ApiDies, Fault
<1>4. CASE \E r \in Requests : RequestStep(r)
  BY <1>4, OthersKeep
<1> QED
  BY <1>1, <1>2, <1>3, <1>4 DEF Next, RequestStep

(* As long as no process dies, a queued row is in the list or in           *)
(* somebody's hands, and so is a row that the recovery has pushed.         *)
Benign == faults \subseteq {"push", "reply", "recover", "poll"}
Listed(q) ==
    /\ status[q] = "queued" /\ cancel[q] = "none" =>
          \/ Contains(queue, q) \/ creating[q] \in {"pushing", "falling back"}
          \/ worker.req = q \/ q \in worker.pushed
    /\ q \in worker.pushed => Contains(queue, q) \/ cancel[q] # "none"

(* No queued row is forgotten: the recovery commits only rows that it has  *)
(* pushed, nobody takes an entry of a list before the recovery has         *)
(* finished, and an entry is dropped only when its row is not queued.      *)
THEOREM QueuedRowsAreListed == Spec => []QueuedIsListed
<1> DEFINE AllListed == Benign => \A q \in Requests : Listed(q)
<1>1. ASSUME Base, Next, Benign', \A q \in Requests : Listed(q),
             NEW q \in Requests
      PROVE  Listed(q)'
  <2>b. WorkerOrder /\ TaskIsTaken /\ Listed(q) /\ q # NoRequest
    BY <1>1, CrawlRequestsAssumption DEF Base
  <2>1. CASE Start
    BY <1>1, <2>b, <2>1, StartDoes DEF Listed, api, Moves, WorkerOrder
  <2>2. CASE Setup
    BY <1>1, <2>b, <2>2, SetupDoes DEF Listed, api, WorkerOrder
  <2>3. CASE RecoverPush
    BY <1>1, <2>b, <2>3, RecoverPushDoes DEF Listed, api
  <2>4. CASE RecoverCommits
    BY <1>1, <2>b, <2>4, RecoverCommitsDoes DEF Listed, api, WorkerOrder
  <2>12. CASE RecoverFails
    BY <1>1, <2>b, <2>12, RecoverFailsDoes DEF Listed, api, WorkerOrder
  <2>5. CASE Pop
    BY <1>1, <2>b, <2>5, PopDoes DEF Listed, api, WorkerOrder
  <2>6. CASE Read
    BY <1>1, <2>b, <2>6, ReadDoes DEF Listed, api, WorkerOrder, TaskIsTaken
  <2>7. CASE Poll
    BY <1>1, <2>b, <2>7, PollDoes DEF Listed, api, WorkerOrder
  <2>8. CASE Take
    BY <1>1, <2>b, <2>8, TakeDoes DEF Listed, api, WorkerOrder
  <2>9. CASE WorkerDies
    <3>1. \E kind \in {"process", "worker"} : faults' = faults \cup {kind}
      BY <1>1, <2>9, WorkerDiesDoes DEF Fault
    <3> QED
      BY <1>1, <3>1 DEF Benign
  <2>10. CASE ApiDies
    BY <1>1, <2>10 DEF ApiDies, Fault, Benign
  <2>11. ASSUME NEW r \in Requests, RequestStep(r) PROVE Listed(q)'
    <3>1. CASE q # r
      <4>1. /\ worker' = worker /\ status'[q] = status[q]
            /\ creating'[q] = creating[q] /\ cancel'[q] = cancel[q]
            /\ Contains(queue', q) <=> Contains(queue, q)
        BY <1>1, <2>11, <3>1, OthersKeep
      <4> QED
        BY <1>1, <4>1 DEF Listed
    <3>2. CASE q = r
      <4>1. CASE Create(r)
        BY <1>1, <2>b, <2>11, <3>2, <4>1, CreateDoes DEF Listed
      <4>2. CASE CreateQueued(r)
        BY <1>1, <2>b, <2>11, <3>2, <4>2, CreateQueuedDoes DEF Listed
      <4>3. CASE Push(r)
        BY <1>1, <2>b, <2>11, <3>2, <4>3, PushDoes DEF Listed
      <4>4. CASE FallBack(r)
        BY <1>1, <2>b, <2>11, <3>2, <4>4, FallBackDoes DEF Listed
      <4>5. CASE CancelReads(r)
        BY <1>1, <2>b, <2>11, <3>2, <4>5, CancelReadsDoes DEF Listed
      <4>6. CASE CancelRemoves(r)
        BY <1>1, <2>b, <2>11, <3>2, <4>6, CancelRemovesDoes DEF Listed
      <4>7. CASE CancelCommits(r)
        BY <1>1, <2>b, <2>11, <3>2, <4>7, CancelCommitsDoes DEF Listed
      <4>8. CASE Retry(r)
        BY <1>1, <2>b, <2>11, <3>2, <4>8, RetryDoes DEF Listed
      <4>9. CASE StartProcessing(r)
        BY <1>1, <2>b, <2>11, <3>2, <4>9, StartProcessingDoes DEF Listed
      <4>10. CASE Finish(r)
        BY <1>1, <2>b, <2>11, <3>2, <4>10, FinishDoes DEF Listed, TaskIsTaken
      <4> QED
        BY <2>11, <4>1, <4>2, <4>3, <4>4, <4>5, <4>6, <4>7, <4>8, <4>9,
           <4>10 DEF RequestStep, ApiStep, TaskStep
    <3> QED
      BY <3>1, <3>2
  <2> QED
    BY <1>1, <2>1, <2>2, <2>3, <2>4, <2>5, <2>6, <2>7, <2>8, <2>9, <2>10,
       <2>11, <2>12 DEF Next, WorkerStep, RequestStep
<1>2. Init => AllListed
  BY DEF Init, Listed, NewWorker
<1>3. Base /\ AllListed /\ [Next]_vars => AllListed'
  <2>1. ASSUME Base, AllListed, Next, Benign' PROVE \A q \in Requests : Listed(q)'
    <3>1. Benign
      BY <2>1, FaultsGrow DEF Benign
    <3> QED
      BY <1>1, <2>1, <3>1
  <2>2. AllListed /\ UNCHANGED vars => AllListed'
    BY DEF Listed, Benign, vars, api
  <2> QED
    BY <2>1, <2>2
<1>4. AllListed => QueuedIsListed
  BY DEF QueuedIsListed, Listed, Benign
<1> QED
  BY <1>2, <1>3, <1>4, BaseInvariant, PTL DEF Spec

(* Somebody may still come to run the request.                            *)
Owed(q) ==
    \/ status[q] \in {"pending", "queued"} \/ task[q] = "picked"
    \/ worker.pc = "taking" /\ worker.req = q
    \/ q \in worker.pushed \/ Contains(worker.found, q)
    \/ creating[q] \in {"pushing", "falling back"}

(* A request that is owed a run has had fewer runs than it was asked for,  *)
(* and while it is being pushed nobody else knows of it.                   *)
Due(q) ==
    /\ runs[q] <= asked[q]
    /\ Owed(q) => runs[q] < asked[q]
    /\ creating[q] \in {"pushing", "falling back"} =>
          /\ ~Contains(queue, q) /\ ~Contains(worker.found, q)
          /\ q \notin worker.pushed /\ worker.req # q /\ task[q] = "none"
          /\ status[q] \in {"queued", "cancelled"}

(* No request is run more often than it was asked for.                     *)
THEOREM RunsAreAskedFor == Spec => []RunAsAsked
<1> DEFINE AllDue == "reply" \notin faults => \A q \in Requests : Due(q)
<1>1. ASSUME Base, Next, "reply" \notin faults', \A q \in Requests : Due(q),
             NEW q \in Requests
      PROVE  Due(q)'
  <2>b. /\ WorkerOrder /\ TaskIsTaken /\ Due(q) /\ q # NoRequest
        /\ runs[q] \in Nat /\ asked[q] \in Nat
    BY <1>1, CountsAre, CrawlRequestsAssumption DEF Base
  <2>r. runs[q] <= asked[q] /\ runs[q] \in Nat /\ asked[q] \in Nat
    BY <2>b DEF Due
  <2>c. creating[q] \in {"pushing", "falling back"} =>
            status[q] \in {"queued", "cancelled"} /\ task[q] = "none"
    BY <2>b DEF Due
  <2>k. status[q] = "new" => asked[q] = 0 /\ ~HeldBy(q)
    BY <1>1 DEF Base, Known
  <2>1. CASE Start
    BY <1>1, <2>b, <2>1, StartDoes DEF Due, api, Owed, WorkerOrder, Moves
  <2>2. CASE Setup
    BY <1>1, <2>b, <2>2, SetupDoes, EmptyHas DEF Due, api, Owed, WorkerOrder,
       Pending
  <2>3. CASE RecoverPush
    BY <1>1, <2>b, <2>3, RecoverPushDoes DEF Due, api, Owed, WorkerOrder
  <2>4. CASE RecoverCommits
    BY <1>1, <2>b, <2>4, RecoverCommitsDoes, EmptyHas DEF Due, api, Owed,
       WorkerOrder
  <2>12. CASE RecoverFails
    BY <1>1, <2>b, <2>12, RecoverFailsDoes, EmptyHas DEF Due, api, Owed,
       WorkerOrder
  <2>5. CASE Pop
    BY <1>1, <2>b, <2>5, PopDoes DEF Due, api, Owed, WorkerOrder
  <2>6. CASE Read
    BY <1>1, <2>b, <2>6, ReadDoes DEF Due, api, Owed, WorkerOrder
  <2>7. CASE Poll
    BY <1>1, <2>b, <2>7, PollDoes DEF Due, api, Owed, WorkerOrder
  <2>8. CASE Take
    BY <1>1, <2>b, <2>8, TakeDoes DEF Due, api, Owed, WorkerOrder
  <2>9. CASE WorkerDies
    BY <1>1, <2>b, <2>9, WorkerDiesDoes, EmptyHas DEF Due, api, Owed,
       WorkerOrder
  <2>10. CASE ApiDies
    BY <1>1, <2>b, <2>10, WorkerKept DEF ApiDies, Due, Owed
  <2>11. ASSUME NEW r \in Requests, RequestStep(r) PROVE Due(q)'
    <3>1. CASE q # r
      <4>1. /\ worker' = worker
            /\ status'[q] = status[q] /\ asked'[q] = asked[q]
            /\ creating'[q] = creating[q] /\ task'[q] = task[q]
            /\ runs'[q] = runs[q] /\ (Contains(queue', q) <=> Contains(queue, q))
        BY <1>1, <2>11, <3>1, OthersKeep
      <4> QED
        BY <2>b, <4>1 DEF Due, Owed
    <3>2. CASE q = r
      <4>1. CASE Create(r)
        <5>1. /\ status[q] = "new" /\ status'[q] = "pending" /\ asked'[q] = 1
              /\ creating'[q] = creating[q] /\ runs'[q] = runs[q]
          BY <1>1, <3>2, <4>1, CreateDoes
        <5>2. creating'[q] \notin {"pushing", "falling back"}
          BY <2>c, <5>1
        <5>3. runs'[q] <= asked'[q] /\ runs'[q] < asked'[q]
          <6>1. runs[q] = 0
            BY <2>r, <2>k, <5>1
          <6>2. runs'[q] = 0 /\ asked'[q] = 1
            BY <5>1, <6>1
          <6> QED
            BY <6>2
        <5> QED
          BY <5>2, <5>3, Zenon DEF Due
      <4>2. CASE CreateQueued(r)
        <5>1. /\ status[q] = "new" /\ status'[q] = "queued" /\ asked'[q] = 1
              /\ runs'[q] = runs[q]
          BY <1>1, <3>2, <4>2, CreateQueuedDoes
        <5>2. runs'[q] = 0 /\ asked'[q] = 1
          <6>1. runs[q] = 0
            BY <2>r, <2>k, <5>1
          <6> QED
            BY <5>1, <6>1
        <5>3. /\ ~Contains(queue', q) /\ ~Contains(worker'.found, q)
              /\ q \notin worker'.pushed /\ worker'.req # q /\ task'[q] = "none"
          BY <1>1, <2>k, <3>2, <4>2, CreateQueuedDoes DEF HeldBy
        <5>4. runs'[q] <= asked'[q] /\ runs'[q] < asked'[q]
          BY <5>2
        <5>5. status'[q] \in {"queued", "cancelled"}
          BY <5>1
        <5> QED
          BY <5>3, <5>4, <5>5, Zenon DEF Due
      <4>3. CASE Push(r)
        BY <1>1, <2>b, <2>11, <3>2, <4>3, PushDoes DEF Due, Owed, WorkerOrder,
           Fault
      <4>4. CASE FallBack(r)
        BY <1>1, <2>b, <2>11, <3>2, <4>4, FallBackDoes DEF Due, Owed,
           WorkerOrder
      <4>5. CASE CancelReads(r)
        BY <1>1, <2>b, <2>11, <3>2, <4>5, CancelReadsDoes DEF Due, Owed,
           WorkerOrder
      <4>6. CASE CancelRemoves(r)
        BY <1>1, <2>b, <2>11, <3>2, <4>6, CancelRemovesDoes DEF Due, Owed,
           WorkerOrder
      <4>7. CASE CancelCommits(r)
        BY <1>1, <2>b, <2>11, <3>2, <4>7, CancelCommitsDoes DEF Due, Owed,
           WorkerOrder
      <4>8. CASE Retry(r)
        <5>1. /\ status[q] \in {"failed", "completed"} /\ asked'[q] = asked[q] + 1
              /\ creating'[q] = creating[q] /\ runs'[q] = runs[q]
          BY <1>1, <3>2, <4>8, RetryDoes
        <5>2. creating'[q] \notin {"pushing", "falling back"}
          BY <2>c, <5>1
        <5>3. runs'[q] <= asked'[q] /\ runs'[q] < asked'[q]
          <6>1. runs'[q] = runs[q] /\ asked'[q] = asked[q] + 1
            BY <5>1
          <6> QED
            BY <2>r, <6>1
        <5> QED
          BY <5>2, <5>3, Zenon DEF Due
      <4>9. CASE StartProcessing(r)
        <5>1. /\ task[q] = "picked" /\ task'[q] = "running"
              /\ status'[q] = "processing" /\ runs'[q] = runs[q] + 1
              /\ asked'[q] = asked[q] /\ creating'[q] = creating[q]
              /\ worker' = worker
          BY <1>1, <3>2, <4>9, StartProcessingDoes
        <5>2. runs[q] < asked[q] /\ creating[q] \notin {"pushing", "falling back"}
          BY <2>b, <2>c, <5>1 DEF Due, Owed
        <5>3. ~Owed(q)'
          BY <2>b, <5>1, <5>2, EmptyHas DEF Owed, WorkerOrder
        <5>4. runs'[q] = runs[q] + 1 /\ asked'[q] = asked[q] /\ runs[q] < asked[q]
          BY <5>1, <5>2
        <5>5. runs'[q] <= asked'[q]
          BY <2>r, <5>4
        <5>6. creating'[q] \notin {"pushing", "falling back"}
          BY <5>1, <5>2
        <5> QED
          BY <5>3, <5>5, <5>6, Zenon DEF Due
      <4>10. CASE Finish(r)
        BY <1>1, <2>b, <2>11, <3>2, <4>10, FinishDoes DEF Due, Owed,
           WorkerOrder
      <4> QED
        BY <2>11, <4>1, <4>2, <4>3, <4>4, <4>5, <4>6, <4>7, <4>8, <4>9,
           <4>10 DEF RequestStep, ApiStep, TaskStep
    <3> QED
      BY <3>1, <3>2
  <2> QED
    BY <1>1, <2>1, <2>2, <2>3, <2>4, <2>5, <2>6, <2>7, <2>8, <2>9, <2>10,
       <2>11, <2>12 DEF Next, WorkerStep, RequestStep
<1>2. Init => AllDue
  BY EmptyHas DEF Init, Due, Owed, NewWorker
<1>3. Base /\ AllDue /\ [Next]_vars => AllDue'
  <2>1. ASSUME Base, AllDue, Next, "reply" \notin faults'
        PROVE  \A q \in Requests : Due(q)'
    <3>1. "reply" \notin faults
      BY <2>1, FaultsGrow
    <3> QED
      BY <1>1, <2>1, <3>1
  <2>2. AllDue /\ UNCHANGED vars => AllDue'
    BY DEF Due, Owed, vars, api
  <2> QED
    BY <2>1, <2>2
<1>4. AllDue => RunAsAsked
  BY DEF RunAsAsked, Due
<1> QED
  BY <1>2, <1>3, <1>4, BaseInvariant, PTL DEF Spec

=============================================================================

----------------------------- MODULE CrawlRequests -----------------------------
(* Crawl requests on demand: rows of crawl_requests that the API writes and  *)
(* puts into the Redis list crawl:requests, and the OnDemandCrawlWorker that *)
(* takes them from there, or polls the table where it found no Redis when it *)
(* started.  Every commit is a step of its own, and so is every read whose   *)
(* result a later commit relies on.                                          *)
EXTENDS Naturals, FiniteSets, Sequences, SequencesExt

CONSTANTS
    Requests,      \* ids of the rows
    Slots,         \* max_concurrent_requests
    RecoverLimit,  \* the rows that a recovery reads at most (100)
    MaxUserOps,    \* bound: number of cancels and retries
    FaultKinds,    \* the faults that may happen, each at most once
    MaxFaults      \* bound: how many of them

(* "push": the API finds no Redis, or its call fails; "reply": its push      *)
(* succeeds, and the reply is lost; "recover": a push of the recovery fails, *)
(* or its query or its commit; "poll": no Redis when the worker starts;      *)
(* "api", "process": the API or the worker process dies; "worker": the       *)
(* supervisor runs the worker again.                                         *)
Faults == {"push", "reply", "recover", "poll", "api", "process", "worker"}

NoRequest == 0

ASSUME CrawlRequestsAssumption ==
    /\ Requests \subseteq Nat \ {NoRequest} /\ IsFiniteSet(Requests)
    /\ Slots \in Nat \ {0} /\ RecoverLimit \in Nat \ {0}
    /\ MaxUserOps \in Nat /\ MaxFaults \in Nat
    /\ FaultKinds \subseteq Faults

VARIABLES
    status,    \* crawl_requests.status, or "new" before there is a row
    asked,     \* how often a request was asked for: created and retried
    earlier,   \* the rows whose requested_at is before a row's own
    queue,     \* the list crawl:requests, oldest entry first
    creating,  \* where create_request_async is with a request
    cancel,    \* where cancel_request is with a request
    userOps,   \* number of cancels and retries so far
    worker,    \* the worker: pc, mode, the request it has taken, its recovery
    task,      \* the task of a request in the worker
    runs,      \* how often the crawl of a request was started
    faults     \* the faults that have happened

api == <<asked, earlier, creating, cancel, userOps>>
vars == <<status, queue, api, worker, task, runs, faults>>

Statuses == {"new", "pending", "queued", "picked", "processing", "completed",
             "failed", "cancelled"}
Settled == {"completed", "failed", "cancelled"}

TypeOK ==
    /\ status \in [Requests -> Statuses]
    /\ asked \in [Requests -> 0 .. MaxUserOps + 1]
    /\ \A r \in Requests : status[r] = "new" <=> asked[r] = 0
    /\ earlier \in [Requests -> SUBSET Requests]
    /\ queue \in Seq(Requests)
    /\ creating \in [Requests -> {"none", "pushing", "falling back", "done"}]
    /\ cancel \in [Requests -> {"none", "removing", "committing", "done"}]
    /\ userOps \in 0 .. MaxUserOps
    /\ worker \in [pc : {"down", "starting", "recovering", "free", "reading",
                         "taking"},
                   mode : {"unknown", "redis", "poll"},
                   req : Requests \cup {NoRequest},
                   found : Seq(Requests), pushed : SUBSET Requests]
    /\ worker.pc = "free" => worker.mode # "unknown"
    /\ task \in [Requests -> {"none", "picked", "running"}]
    /\ runs \in [Requests -> Nat]
    /\ faults \subseteq FaultKinds

NewWorker == [pc |-> "down", mode |-> "unknown", req |-> NoRequest,
              found |-> <<>>, pushed |-> {}]

Init ==
    /\ status = [r \in Requests |-> "new"]
    /\ asked = [r \in Requests |-> 0]
    /\ earlier = [r \in Requests |-> {}]
    /\ queue = <<>>
    /\ creating = [r \in Requests |-> "none"]
    /\ cancel = [r \in Requests |-> "none"]
    /\ userOps = 0
    /\ worker = NewWorker
    /\ task = [r \in Requests |-> "none"]
    /\ runs = [r \in Requests |-> 0]
    /\ faults = {}

Fault(kind) ==
    /\ kind \in FaultKinds \ faults
    /\ Cardinality(faults) < MaxFaults
    /\ faults' = faults \cup {kind}

SetStatus(R, s) ==
    status' = [r \in Requests |-> IF r \in R THEN s ELSE status[r]]

Running == {r \in Requests : task[r] # "none"}
Pending == {r \in Requests : status[r] = "pending"}
Oldest(n, R) == {r \in R : Cardinality(R \cap earlier[r]) < n}

(* The rows of R in the order in which they were requested. *)
InOrder(R) ==
    {s \in [1 .. Cardinality(R) -> R] :
        \A i, j \in DOMAIN s : i < j => s[i] \in earlier[s[j]]}

-----------------------------------------------------------------------------
(* The API. *)

WorkerKeeps == UNCHANGED <<worker, task, runs>>

(* requested_at becomes the current time. *)
Ask(r) ==
    LET rows == {q \in Requests \ {r} : status[q] # "new"} IN
    /\ asked' = [asked EXCEPT ![r] = @ + 1]
    /\ earlier' = [q \in Requests |-> IF q = r THEN rows ELSE earlier[q] \ {r}]

MayAsk == userOps < MaxUserOps /\ userOps' = userOps + 1

(* A row of create_request, of the routes that create and retry requests.    *)
Create(r) ==
    /\ status[r] = "new"
    /\ SetStatus({r}, "pending") /\ Ask(r)
    /\ WorkerKeeps /\ UNCHANGED <<queue, creating, cancel, userOps, faults>>

(* The row of create_request_async is committed before the push.             *)
CreateQueued(r) ==
    /\ status[r] = "new"
    /\ SetStatus({r}, "queued") /\ Ask(r)
    /\ creating' = [creating EXCEPT ![r] = "pushing"]
    /\ WorkerKeeps /\ UNCHANGED <<queue, cancel, userOps, faults>>

Push(r) ==
    /\ creating[r] = "pushing"
    /\ \/ /\ queue' = Append(queue, r)
          /\ creating' = [creating EXCEPT ![r] = "done"]
          /\ UNCHANGED faults
       \/ /\ \/ Fault("push") /\ UNCHANGED queue
             \/ Fault("reply") /\ queue' = Append(queue, r)
          /\ creating' = [creating EXCEPT ![r] = "falling back"]
    /\ WorkerKeeps /\ UNCHANGED <<status, asked, earlier, cancel, userOps>>

FallBack(r) ==
    /\ creating[r] = "falling back"
    /\ SetStatus({r}, "pending")
    /\ creating' = [creating EXCEPT ![r] = "done"]
    /\ WorkerKeeps /\ UNCHANGED <<queue, asked, earlier, cancel, userOps, faults>>

(* cancel_request reads the row, removes one entry from the list, if there   *)
(* is one and Redis answers, and commits in any case.                        *)
CancelReads(r) ==
    /\ cancel[r] = "none" /\ status[r] \in {"pending", "queued"} /\ MayAsk
    /\ cancel' = [cancel EXCEPT ![r] = "removing"]
    /\ WorkerKeeps /\ UNCHANGED <<status, queue, asked, earlier, creating, faults>>

LastIndexOf(r) ==
    CHOOSE i \in DOMAIN queue :
        /\ queue[i] = r
        /\ \A j \in DOMAIN queue : queue[j] = r => j <= i

CancelRemoves(r) ==
    /\ cancel[r] = "removing"
    /\ \/ /\ queue' = IF Contains(queue, r) THEN RemoveAt(queue, LastIndexOf(r))
                     ELSE queue
          /\ UNCHANGED faults
       \/ Fault("push") /\ UNCHANGED queue
    /\ cancel' = [cancel EXCEPT ![r] = "committing"]
    /\ WorkerKeeps /\ UNCHANGED <<status, asked, earlier, creating, userOps>>

CancelCommits(r) ==
    /\ cancel[r] = "committing"
    /\ SetStatus({r}, "cancelled")
    /\ cancel' = [cancel EXCEPT ![r] = "done"]
    /\ WorkerKeeps /\ UNCHANGED <<queue, asked, earlier, creating, userOps, faults>>

(* retry_request of the universal crawl service. *)
Retry(r) ==
    /\ status[r] \in {"failed", "completed"} /\ MayAsk
    /\ SetStatus({r}, "pending") /\ Ask(r)
    /\ WorkerKeeps /\ UNCHANGED <<queue, creating, cancel, faults>>

ApiDies ==
    /\ Fault("api")
    /\ creating' = [r \in Requests |-> IF creating[r] = "none" THEN "none" ELSE "done"]
    /\ cancel' = [r \in Requests |-> IF cancel[r] = "none" THEN "none" ELSE "done"]
    /\ WorkerKeeps /\ UNCHANGED <<status, queue, asked, earlier, userOps>>

ApiStep(r) == Push(r) \/ FallBack(r) \/ CancelRemoves(r) \/ CancelCommits(r)

-----------------------------------------------------------------------------
(* The worker. *)

At(pc) == worker.pc = pc
Goto(pc) == worker' = [worker EXCEPT !.pc = pc]

(* Variant: what was set up in the last process is taken for granted. *)
StartUnready ==
    /\ At("down")
    /\ \E stale \in SUBSET {r \in Requests : status[r] \in {"picked", "processing"}} :
          SetStatus(stale, "failed")
    /\ Goto("free")
    /\ UNCHANGED <<queue, api, task, runs, faults>>

(* _on_start fails the rows that were picked more than 30 minutes ago.       *)
Start ==
    /\ At("down")
    /\ \E stale \in SUBSET {r \in Requests : status[r] \in {"picked", "processing"}} :
          SetStatus(stale, "failed")
    /\ Goto(IF worker.mode = "unknown" THEN "starting" ELSE "free")
    /\ UNCHANGED <<queue, api, task, runs, faults>>

(* _setup_redis, once in a process, unless the worker dies in its recovery.  *)
Setup ==
    /\ At("starting")
    /\ \/ /\ \E found \in InOrder(Oldest(RecoverLimit, Pending)) :
                 worker' = [worker EXCEPT !.pc = "recovering", !.found = found]
          /\ UNCHANGED faults
       \/ /\ Fault("poll")
          /\ worker' = [worker EXCEPT !.pc = "free", !.mode = "poll"]
    /\ UNCHANGED <<status, queue, api, task, runs>>

(* Variant: a failed push is not told from a push. *)
RecoverPushBlindly ==
    /\ At("recovering") /\ worker.found # <<>>
    /\ worker' = [worker EXCEPT !.found = Tail(@), !.pushed = @ \cup {Head(worker.found)}]
    /\ \/ queue' = Append(queue, Head(worker.found)) /\ UNCHANGED faults
       \/ Fault("recover") /\ UNCHANGED queue
    /\ UNCHANGED <<status, api, task, runs>>

RecoverPush ==
    /\ At("recovering") /\ worker.found # <<>>
    /\ LET r == Head(worker.found) IN
       \/ /\ queue' = Append(queue, r)
          /\ worker' = [worker EXCEPT !.found = Tail(@), !.pushed = @ \cup {r}]
          /\ UNCHANGED faults
       \/ /\ Fault("recover")
          /\ worker' = [worker EXCEPT !.found = Tail(@)]
          /\ UNCHANGED queue
    /\ UNCHANGED <<status, api, task, runs>>

(* All the rows that were pushed are queued in one commit. *)
RecoverCommits ==
    /\ At("recovering") /\ worker.found = <<>>
    /\ SetStatus(worker.pushed, "queued")
    /\ worker' = [worker EXCEPT !.pc = "free", !.mode = "redis", !.pushed = {}]
    /\ UNCHANGED <<queue, api, task, runs, faults>>

(* _recover_pending_requests gives up where the database fails, and the      *)
(* worker goes on with the list as it is.                                    *)
RecoverFails ==
    /\ At("recovering") /\ Fault("recover")
    /\ worker' = [worker EXCEPT !.pc = "free", !.mode = "redis", !.found = <<>>,
                                !.pushed = {}]
    /\ UNCHANGED <<status, queue, api, task, runs>>

HasSlot == Cardinality(Running) < Slots

(* Variant: the entry is taken, and then the slots are counted. *)
PopAndCount ==
    /\ At("free") /\ worker.mode = "redis" /\ queue # <<>>
    /\ queue' = Tail(queue)
    /\ worker' = IF HasSlot THEN [worker EXCEPT !.pc = "reading", !.req = Head(queue)]
                 ELSE worker
    /\ UNCHANGED <<status, api, task, runs, faults>>

Pop ==
    /\ At("free") /\ worker.mode = "redis" /\ HasSlot /\ queue # <<>>
    /\ queue' = Tail(queue)
    /\ worker' = [worker EXCEPT !.pc = "reading", !.req = Head(queue)]
    /\ UNCHANGED <<status, api, task, runs, faults>>

(* Variant: an entry is good for a run. *)
ReadUnchecked ==
    /\ At("reading")
    /\ worker' = IF worker.req \in Running
                 THEN [worker EXCEPT !.pc = "free", !.req = NoRequest]
                 ELSE [worker EXCEPT !.pc = "taking"]
    /\ UNCHANGED <<status, queue, api, task, runs, faults>>

(* An entry whose row has been served, cancelled or taken is dropped.        *)
Read ==
    /\ At("reading")
    /\ worker' = IF worker.req \notin Running /\ status[worker.req] \in {"queued", "pending"}
                 THEN [worker EXCEPT !.pc = "taking"]
                 ELSE [worker EXCEPT !.pc = "free", !.req = NoRequest]
    /\ UNCHANGED <<status, queue, api, task, runs, faults>>

(* _dispatch_pending_requests does not count the slots that are taken. *)
Poll ==
    /\ At("free") /\ worker.mode = "poll"
    /\ \E r \in Oldest(Slots, Pending) \ Running :
          worker' = [worker EXCEPT !.pc = "taking", !.req = r]
    /\ UNCHANGED <<status, queue, api, task, runs, faults>>

Take ==
    /\ At("taking")
    /\ SetStatus({worker.req}, "picked")
    /\ task' = [task EXCEPT ![worker.req] = "picked"]
    /\ worker' = [worker EXCEPT !.pc = "free", !.req = NoRequest]
    /\ UNCHANGED <<queue, api, runs, faults>>

WorkerStep ==
    \/ Start \/ Setup \/ RecoverPush \/ RecoverCommits \/ RecoverFails
    \/ Pop \/ Read \/ Poll \/ Take

StartProcessing(r) ==
    /\ task[r] = "picked"
    /\ SetStatus({r}, "processing")
    /\ task' = [task EXCEPT ![r] = "running"]
    /\ runs' = [runs EXCEPT ![r] = @ + 1]
    /\ UNCHANGED <<queue, api, worker, faults>>

Finish(r) ==
    /\ task[r] = "running"
    /\ \E s \in {"completed", "failed"} : SetStatus({r}, s)
    /\ task' = [task EXCEPT ![r] = "none"]
    /\ UNCHANGED <<queue, api, worker, runs, faults>>

TaskStep(r) == StartProcessing(r) \/ Finish(r)

(* Its tasks are cancelled, and leave their rows as they are. *)
WorkerDies ==
    /\ ~At("down")
    /\ task' = [r \in Requests |-> "none"]
    /\ \/ Fault("process") /\ worker' = NewWorker
       \/ Fault("worker") /\ worker' = [NewWorker EXCEPT !.mode = worker.mode]
    /\ UNCHANGED <<status, queue, api, runs>>

-----------------------------------------------------------------------------
Next ==
    \/ WorkerStep \/ WorkerDies \/ ApiDies
    \/ \E r \in Requests :
          \/ Create(r) \/ CreateQueued(r) \/ ApiStep(r)
          \/ CancelReads(r) \/ Retry(r)
          \/ TaskStep(r)

Spec == Init /\ [][Next]_vars

(* The worker's loop and its tasks go on, and so do the API's handlers; the  *)
(* process is started again by its watchdog.  Nobody has to ask for anything.*)
FairSpec ==
    /\ Spec
    /\ WF_vars(WorkerStep)
    /\ \A r \in Requests : WF_vars(ApiStep(r)) /\ WF_vars(TaskStep(r))

-----------------------------------------------------------------------------
(* Properties. *)

(* A queued row that no user cancels is in the list or in somebody's hands,  *)
(* as long as no process dies:  nobody would ever look for a queued row that *)
(* is not in the list.  (create_request_async, _recover_pending_requests and *)
(* _process_redis_queue, with pushes that fail or whose reply is lost.)      *)
QueuedIsListed ==
    faults \subseteq {"push", "reply", "recover", "poll"} =>
        \A r \in Requests : status[r] = "queued" /\ cancel[r] = "none" =>
            \/ Contains(queue, r)
            \/ creating[r] \in {"pushing", "falling back"}
            \/ worker.req = r \/ r \in worker.pushed

(* A request is crawled no more often than it was asked for, although a      *)
(* recovery that is cut short leaves entries that the next one pushes again. *)
(* (The status check of _process_redis_queue; without it, and with a reply   *)
(* that is lost, the API makes a row pending that has been run.)             *)
RunAsAsked ==
    "reply" \notin faults => \A r \in Requests : runs[r] <= asked[r]

(* A cancellation that has been committed is only undone by somebody who had *)
(* read the row before: a task, a worker that takes the request, a recovery  *)
(* or the fallback of its creation.  An entry that was left in the list, or  *)
(* pushed again, does not do it: the worker does not begin with such a row.  *)
(* (cancel_request removes one entry; _process_redis_queue looks at the      *)
(* status.)                                                                  *)
CancelStands ==
    [][\A r \in Requests : status[r] = "cancelled" =>
          /\ worker'.pc = "taking" /\ worker'.req = r => At("taking")
          /\ \/ status'[r] = "cancelled"
             \/ task[r] # "none" \/ creating[r] = "falling back"
             \/ worker.req = r \/ r \in worker.pushed]_vars

(* Without faults a request that is queued is served or cancelled in the     *)
(* end, however many others there are.  (The loop of the worker over its     *)
(* free slots.)                                                              *)
QueuedIsServed ==
    [](faults = {}) =>
        \A r \in Requests :
            status[r] = "queued" ~> status[r] \in Settled \/ cancel[r] # "none"
=============================================================================

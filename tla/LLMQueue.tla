------------------------------ MODULE LLMQueue ------------------------------
(* The LLM request queue of personal-hub: the rows of llm_requests and of   *)
(* llm_request_profile_claims, the worker process that serves them one at a *)
(* time (LLMWorker), the chat executor it delegates chats to over the Redis *)
(* list llm-chat:commands, and the API process, which cancels, retries and  *)
(* sweeps.  Every commit is a step of its own, and so is every read whose   *)
(* result a later commit relies on.                                         *)
EXTENDS Naturals, FiniteSets, Sequences, FiniteSetsExt

CONSTANTS
    Requests,       \* ids of the rows; a smaller id was requested earlier
    KindOf,         \* what a request is answered by, see Kinds
    System,         \* the requests of the queue "system"; the rest: "utility"
    Profiles,       \* the enabled profiles of the quota providers
    CandidatesOf,   \* the profiles a request may run under (candidate_profiles)
    Capacity,       \* the claims a profile may have at a time
    ExecTimeout,    \* ticks after which execute_llm gives up   (60 minutes)
    StaleAfter,     \* ticks after which a sweep fails a request (65 minutes)
    UserOps,        \* what users do: a subset of the domain of Allowed
    MaxOps,         \* bound: number of user operations
    FaultKinds,     \* subset of {"crash", "chat crash", "release"}
    MaxFaults       \* bound: number of faults

(* "plain": marked completed, and then its result is saved; "extracted":    *)
(* the result is saved and the status written in one commit; "chat": run by *)
(* the chat executor.                                                       *)
Kinds == {"plain", "extracted", "chat"}

NoRequest == 0

ASSUME LLMQueueAssumption ==
    /\ Requests \subseteq Nat \ {NoRequest} /\ IsFiniteSet(Requests)
    /\ KindOf \in [Requests -> Kinds]
    /\ System \subseteq Requests
    /\ "none" \notin Profiles
    /\ CandidatesOf \in [Requests -> SUBSET Profiles]
    /\ Capacity \in Nat \ {0}
    /\ ExecTimeout \in Nat /\ StaleAfter \in Nat /\ ExecTimeout <= StaleAfter
    /\ UserOps \subseteq {"cancel", "retry", "batch"}
    /\ MaxOps \in Nat /\ MaxFaults \in Nat

VARIABLES
    status,     \* llm_requests.status
    age,        \* ticks since processed_at, or requested_at where that is null
    claims,     \* the profile a request has a claim on, or "none"
    worker,     \* the worker process: pc, req, profile, elapsed, stale
    chat,       \* the request the chat executor runs, or NoRequest
    chatUp,     \* the chat executor is running
    commands,   \* the list llm-chat:commands, oldest command first
    paused,     \* profiles in a quota pause
    api,        \* an API call between its read and its commit: op, reqs
    ops,        \* number of user operations so far
    faults      \* number of faults so far

rows == <<status, age>>
vars == <<status, age, claims, worker, chat, chatUp, commands, paused, api,
          ops, faults>>

Statuses == {"pending", "processing", "completed", "failed", "cancelled"}
Settled == {"completed", "failed", "cancelled"}

WorkerPCs == {"idle", "chosen", "delegating", "checking", "claiming",
              "executing", "saving", "releasing", "dead", "starting"}

TypeOK ==
    /\ status \in [Requests -> Statuses]
    /\ age \in [Requests -> 0 .. StaleAfter + 1]
    /\ claims \in [Requests -> Profiles \cup {"none"}]
    /\ worker \in [pc : WorkerPCs, req : Requests \cup {NoRequest},
                   profile : Profiles \cup {"none"},
                   elapsed : 0 .. ExecTimeout, stale : SUBSET Requests]
    /\ chat \in Requests \cup {NoRequest}
    /\ chatUp \in BOOLEAN
    /\ commands \in Seq(Requests)
    /\ paused \subseteq Profiles
    /\ api \in [op : UserOps \cup {"none", "sweep"}, reqs : SUBSET Requests]
    /\ ops \in 0 .. MaxOps
    /\ faults \in 0 .. MaxFaults

Idle == [pc |-> "idle", req |-> NoRequest, profile |-> "none",
         elapsed |-> 0, stale |-> {}]
NoCall == [op |-> "none", reqs |-> {}]

Init ==
    /\ status \in [Requests -> {"pending", "failed"}]
    /\ age = [r \in Requests |-> 0]
    /\ claims = [r \in Requests |-> "none"]
    /\ worker = Idle
    /\ chat = NoRequest
    /\ chatUp = TRUE
    /\ commands = <<>>
    /\ paused = {}
    /\ api = NoCall
    /\ ops = 0
    /\ faults = 0

-----------------------------------------------------------------------------
(* What LLMQueueService writes into a row.  None of it looks at the status  *)
(* that is there, except reset_to_pending.                                  *)

(* Variant: processed_at is left as it is. *)
MarkProcessingUndated(r) ==
    /\ status' = [status EXCEPT ![r] = "processing"]
    /\ UNCHANGED age

MarkProcessing(r) ==
    /\ status' = [status EXCEPT ![r] = "processing"]
    /\ age' = [age EXCEPT ![r] = 0]

MarkCompleted(r) ==
    /\ status' = [status EXCEPT ![r] = "completed"]
    /\ age' = [age EXCEPT ![r] = 0]

MarkFailed(R) ==
    /\ status' = [r \in Requests |-> IF r \in R THEN "failed" ELSE status[r]]
    /\ age' = [r \in Requests |-> IF r \in R THEN 0 ELSE age[r]]

MarkPending(R) ==
    /\ status' = [r \in Requests |-> IF r \in R THEN "pending" ELSE status[r]]
    /\ UNCHANGED age

ResetToPending(r) ==
    MarkPending({r} \cap {q \in Requests : status[q] \in {"failed", "processing"}})

(* cleanup_stale_processing's query. *)
Stale == {r \in Requests : status[r] = "processing" /\ age[r] > StaleAfter}

-----------------------------------------------------------------------------
(* The worker. *)

Others == <<claims, chat, chatUp, commands, paused, api, ops, faults>>
At(pc) == worker.pc = pc
Goto(pc) == worker' = [worker EXCEPT !.pc = pc]
Become(w) == worker' = w

(* get_next_request: the oldest pending request, "system" first. *)
Pending == {r \in Requests : status[r] = "pending"}
NextRequest ==
    Min(IF Pending \cap System # {} THEN Pending \cap System ELSE Pending)

Select ==
    /\ At("idle") /\ Pending # {}
    /\ Become([Idle EXCEPT !.pc = "chosen", !.req = NextRequest])
    /\ UNCHANGED <<rows, Others>>

StartRequest ==
    /\ At("chosen")
    /\ MarkProcessing(worker.req)
    /\ Goto(IF KindOf[worker.req] = "chat" THEN "delegating" ELSE "checking")
    /\ UNCHANGED Others

(* Variant: the missing Redis is only logged. *)
DelegateOrLog ==
    /\ At("delegating")
    /\ commands' \in {commands, Append(commands, worker.req)}
    /\ Become(Idle)
    /\ UNCHANGED <<rows, claims, chat, chatUp, paused, api, ops, faults>>

(* The chat goes to the back of the executor's list; without Redis it fails, *)
(* and so it does where the push is done and only its reply is lost.         *)
Delegate ==
    /\ At("delegating")
    /\ \/ commands' = Append(commands, worker.req) /\ UNCHANGED rows
       \/ /\ MarkFailed({worker.req})
          /\ commands' \in {commands, Append(commands, worker.req)}
    /\ Become(Idle)
    /\ UNCHANGED <<claims, chat, chatUp, paused, api, ops, faults>>

(* A check of the caller's row, or any exception, before there is a claim. *)
Reject ==
    /\ worker.pc \in {"checking", "claiming"}
    /\ MarkFailed({worker.req})
    /\ Become(Idle)
    /\ UNCHANGED Others

ClaimsOn(p) == {r \in Requests : claims[r] = p}
(* Variant: off by one. *)
HasRoomOrIsFull(p) == Cardinality(ClaimsOn(p)) <= Capacity
HasRoom(p) == Cardinality(ClaimsOn(p)) < Capacity
Available ==
    {p \in Profiles \ paused : p \in CandidatesOf[worker.req] /\ HasRoom(p)}

(* The provider is that of the request, or a default of its caller or of    *)
(* all, as these stand at the time.  One with a quota runs under a profile: *)
(* select_profile, and a request that finds none goes back to pending.      *)
Route ==
    /\ At("checking")
    /\ \/ /\ Available = {}
          /\ ResetToPending(worker.req)
          /\ Become(Idle)
       \/ /\ \E p \in Available :
                 Become([worker EXCEPT !.pc = "claiming", !.profile = p])
          /\ UNCHANGED rows
    /\ UNCHANGED Others

(* Any other runs under none. *)
Unrouted ==
    /\ At("checking")
    /\ Goto("executing")
    /\ UNCHANGED <<rows, Others>>

(* ProfileClaimService.claim: the count, and the unique request_id. *)
MayClaim == HasRoom(worker.profile) /\ claims[worker.req] = "none"

ClaimProfile ==
    /\ At("claiming")
    /\ \/ /\ MayClaim
          /\ claims' = [claims EXCEPT ![worker.req] = worker.profile]
          /\ Goto("executing")
          /\ UNCHANGED rows
       \/ /\ ~MayClaim
          /\ ResetToPending(worker.req)
          /\ Become(Idle)
          /\ UNCHANGED claims
    /\ UNCHANGED <<chat, chatUp, commands, paused, api, ops, faults>>

(* Variant: every kind is marked completed first. *)
AnswerThenSave ==
    /\ At("executing")
    /\ MarkCompleted(worker.req)
    /\ Goto("saving")
    /\ UNCHANGED Others

Answer ==
    /\ At("executing")
    /\ MarkCompleted(worker.req)
    /\ Goto(IF KindOf[worker.req] = "plain" THEN "saving" ELSE "releasing")
    /\ UNCHANGED Others

(* An error, a time-out, an exception, or the result cannot be saved; when  *)
(* the quota is used up, the profile is paused.                             *)
Fail ==
    /\ At("executing")
    /\ MarkFailed({worker.req})
    /\ paused' \in {paused, paused \cup ({worker.profile} \cap Profiles)}
    /\ Goto("releasing")
    /\ UNCHANGED <<claims, chat, chatUp, commands, api, ops, faults>>

Save ==
    /\ At("saving")
    /\ UNCHANGED rows \/ MarkFailed({worker.req})
    /\ Goto("releasing")
    /\ UNCHANGED Others

(* The finally block of _execute_request. *)
ReleaseProfile ==
    /\ At("releasing")
    /\ claims' = IF worker.profile = "none" THEN claims
                 ELSE [claims EXCEPT ![worker.req] = "none"]
    /\ Become(Idle)
    /\ UNCHANGED <<rows, chat, chatUp, commands, paused, api, ops, faults>>

WorkerStep ==
    \/ Select \/ StartRequest \/ Delegate \/ Reject \/ Route \/ Unrouted
    \/ ClaimProfile \/ Answer \/ Fail \/ Save \/ ReleaseProfile

(* A started worker reads the stale rows, and fails them in a later commit. *)
StartWorker ==
    /\ At("dead")
    /\ Become([Idle EXCEPT !.pc = "starting", !.stale = Stale])
    /\ UNCHANGED <<rows, Others>>

SweepAtStart ==
    /\ At("starting")
    /\ MarkFailed(worker.stale)
    /\ Become(Idle)
    /\ UNCHANGED Others

(* Variant: the pause is only looked at when nothing is pending. *)
PauseEndsWhenIdle(p) ==
    /\ p \in paused /\ Pending = {}
    /\ paused' = paused \ {p}
    /\ UNCHANGED <<rows, claims, worker, chat, chatUp, commands, api, ops, faults>>

PauseEnds(p) ==
    /\ p \in paused
    /\ paused' = paused \ {p}
    /\ UNCHANGED <<rows, claims, worker, chat, chatUp, commands, api, ops, faults>>

-----------------------------------------------------------------------------
(* The chat executor: one chat at a time.  A command that arrives meanwhile *)
(* is popped and pushed back, which leaves the list as it was.              *)

RunChat ==
    /\ chatUp /\ chat = NoRequest /\ commands # <<>>
    /\ chat' = Head(commands)
    /\ commands' = Tail(commands)
    /\ UNCHANGED <<rows, claims, worker, chatUp, paused, api, ops, faults>>

ChatEnds ==
    /\ chat # NoRequest
    /\ MarkCompleted(chat) \/ MarkFailed({chat})
    /\ chat' = NoRequest
    /\ UNCHANGED <<claims, worker, chatUp, commands, paused, api, ops, faults>>

StartChatExecutor ==
    /\ ~chatUp
    /\ chatUp' = TRUE
    /\ UNCHANGED <<rows, claims, worker, chat, commands, paused, api, ops, faults>>

-----------------------------------------------------------------------------
(* The API.  A call reads a row, decides, and commits later. *)

Allowed == [cancel |-> {"pending"},
            retry |-> {"failed", "processing"},
            batch |-> {"failed"}]

UserReads(op, r) ==
    /\ api = NoCall /\ ops < MaxOps
    /\ status[r] \in Allowed[op]
    /\ api' = [op |-> op, reqs |-> {r}]
    /\ ops' = ops + 1
    /\ UNCHANGED <<rows, claims, worker, chat, chatUp, commands, paused, faults>>

(* An API server that starts sweeps as a worker that starts does. *)
ApiStarts ==
    /\ api = NoCall /\ Stale # {}
    /\ api' = [op |-> "sweep", reqs |-> Stale]
    /\ UNCHANGED <<rows, claims, worker, chat, chatUp, commands, paused, ops, faults>>

CancelCommits ==
    /\ api.op = "cancel"
    /\ status' = [r \in Requests |->
                     IF r \in api.reqs THEN "cancelled" ELSE status[r]]
    /\ age' = [r \in Requests |-> IF r \in api.reqs THEN 0 ELSE age[r]]

ApiCommits ==
    /\ \/ CancelCommits
       \/ api.op \in {"retry", "batch"} /\ MarkPending(api.reqs)
       \/ api.op = "sweep" /\ MarkFailed(api.reqs)
    /\ api' = NoCall
    /\ UNCHANGED <<claims, worker, chat, chatUp, commands, paused, ops, faults>>

-----------------------------------------------------------------------------
(* Time and faults. *)

(* Variant: the execution has no time-out. *)
TickOn ==
    /\ worker.pc \in {"idle", "dead", "executing"}
    /\ age' = [r \in Requests |->
                  IF age[r] > StaleAfter THEN age[r] ELSE age[r] + 1]
    /\ worker' = IF At("executing")
                 THEN [worker EXCEPT !.elapsed = @ + 1] ELSE worker
    /\ UNCHANGED <<status, Others>>

(* Time passes while a request is executed, but never beyond the time-out   *)
(* that execute_llm is called with; the worker's other steps take no time   *)
(* worth counting.  A chat has no time-out.                                 *)
Tick ==
    /\ worker.pc \in {"idle", "dead", "executing"}
    /\ At("executing") => worker.elapsed < ExecTimeout
    /\ age' = [r \in Requests |->
                  IF age[r] > StaleAfter THEN age[r] ELSE age[r] + 1]
    /\ worker' = IF At("executing")
                 THEN [worker EXCEPT !.elapsed = @ + 1] ELSE worker
    /\ UNCHANGED <<status, Others>>

Fault(kind) == kind \in FaultKinds /\ faults < MaxFaults /\ faults' = faults + 1

WorkerDies ==
    /\ Fault("crash") /\ worker.pc # "dead"
    /\ Become([Idle EXCEPT !.pc = "dead"])
    /\ UNCHANGED <<rows, claims, chat, chatUp, commands, paused, api, ops>>

ChatExecutorDies ==
    /\ Fault("chat crash") /\ chatUp
    /\ chatUp' = FALSE /\ chat' = NoRequest
    /\ UNCHANGED <<rows, claims, worker, commands, paused, api, ops>>

(* The release of the claim raises; the worker logs it and goes on. *)
ReleaseRaises ==
    /\ Fault("release") /\ At("releasing") /\ worker.profile # "none"
    /\ Become(Idle)
    /\ UNCHANGED <<rows, claims, chat, chatUp, commands, paused, api, ops>>

-----------------------------------------------------------------------------
Next ==
    \/ WorkerStep \/ StartWorker \/ SweepAtStart
    \/ \E p \in Profiles : PauseEnds(p)
    \/ RunChat \/ ChatEnds \/ StartChatExecutor
    \/ \E op \in UserOps, r \in Requests : UserReads(op, r)
    \/ ApiStarts \/ ApiCommits
    \/ Tick
    \/ WorkerDies \/ ChatExecutorDies \/ ReleaseRaises

Spec == Init /\ [][Next]_vars

(* The worker's loop and the watchdogs that restart the processes go on; an *)
(* execution ends with its time-out at the latest, a chat ends when its CLI *)
(* process does, an API call commits, and a quota pause has an end.         *)
FairSpec ==
    /\ Spec
    /\ WF_vars(WorkerStep) /\ WF_vars(StartWorker) /\ WF_vars(SweepAtStart)
    /\ WF_vars(RunChat) /\ WF_vars(ChatEnds) /\ WF_vars(StartChatExecutor)
    /\ WF_vars(ApiCommits)
    /\ \A p \in Profiles : WF_vars(PauseEnds(p))
-----------------------------------------------------------------------------
(* Properties. *)

Delegated(r) == chat = r \/ \E i \in DOMAIN commands : commands[i] = r
Handled(r) == worker.req = r \/ Delegated(r)

(* A profile never runs more requests than it has capacity for, not even    *)
(* next to the claims that a dead worker has left.  (The count of the       *)
(* router, and the count and insert of ProfileClaimService.claim.)          *)
CapacityKept == \A p \in Profiles : Cardinality(ClaimsOn(p)) <= Capacity

(* Without faults nothing is left behind, whatever users cancel and retry   *)
(* at the same time: a request that is processing is in somebody's hands,   *)
(* and a claim belongs to the request the worker has.  (Every return,       *)
(* exception and finally of _execute_request and _delegate_to_chat_executor.)*)
NothingLeftBehind ==
    faults = 0 => \A r \in Requests :
        /\ status[r] = "processing" => Handled(r)
        /\ claims[r] # "none" => worker.req = r

(* No sweep takes a request that the worker is executing for a stale one,   *)
(* however old the request is and however often it was tried before:  the   *)
(* age counts from the start of this execution, and its time-out is shorter.*)
(* (find_stale_processing against the time-out of execute_llm.)             *)
ExecutingIsNotStale == At("executing") => worker.req \notin Stale

(* The worker, the chat executor and the sweeps never take back the answer  *)
(* of an extracted request: only a user's call that had read the row before *)
(* the answer came still overwrites it.  (save first, then prepare_completed*)
(* in the same commit.)                                                     *)
AnswerStands ==
    [][\A r \in Requests :
          /\ KindOf[r] = "extracted"
          /\ status[r] = "completed"
          => status'[r] = "completed" \/ (api.op # "sweep" /\ r \in api.reqs)]_vars

(* Without faults every request is settled in the end, although the worker  *)
(* serves the oldest first and begins again with one it has just put back   *)
(* for want of a profile, as long as each has an enabled candidate; one that*)
(* has none would be put back for ever, before the younger ones.            *)
(* (_main_loop, _process_pending_requests.)                                 *)
RequestSettles ==
    (\A r \in Requests : CandidatesOf[r] # {}) /\ [](faults = 0) =>
        \A r \in Requests : status[r] \notin Settled ~> status[r] \in Settled
=============================================================================

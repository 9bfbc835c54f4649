--------------------------- MODULE LLMQueue_proofs ---------------------------
(***************************************************************************)
(* Theorems about LLMQueue, for any requests, profiles, capacity and       *)
(* time-outs.                                                              *)
(***************************************************************************)
EXTENDS LLMQueue, FiniteSetTheorems, SequenceTheorems,
        WellFoundedInduction, TLAPS

-----------------------------------------------------------------------------
(* The worker and its request.                                             *)

Busy == worker.pc \notin {"idle", "dead", "starting"}

HasRequest ==
    /\ Busy => worker.req \in Requests
    /\ ~Busy => worker.req = NoRequest
    /\ At("claiming") => worker.profile \in Profiles
    /\ ~At("starting") => worker.stale = {}

(* The age of a request counts from the start of its execution.            *)
Fresh ==
    worker.pc \in {"checking", "claiming", "executing"} =>
        age[worker.req] <= worker.elapsed

(* Nobody but the worker takes its request up or answers it.               *)
Unanswered ==
    /\ worker.pc \in {"chosen", "saving", "releasing"} =>
          status[worker.req] # "processing"
    /\ /\ worker.pc \in {"chosen", "delegating", "checking", "claiming",
                         "executing"}
       /\ KindOf[worker.req] = "extracted"
       => status[worker.req] # "completed"
    /\ At("delegating") => KindOf[worker.req] = "chat"
    /\ At("saving") => KindOf[worker.req] = "plain"

(* Only chats come to the chat executor.                                   *)
ChatsOnly ==
    /\ chat # NoRequest => KindOf[chat] = "chat"
    /\ \A i \in DOMAIN commands : KindOf[commands[i]] = "chat"

(* What a sweep has read is not answered before it commits: a request it   *)
(* found stale is in no worker's hands.                                    *)
SweepsApart ==
    \A r \in Requests : KindOf[r] = "extracted" =>
        /\ r \in worker.stale => status[r] # "completed"
        /\ api.op = "sweep" /\ r \in api.reqs =>
              status[r] \in {"processing", "failed"} /\ worker.req # r

Order ==
    /\ TypeOK /\ HasRequest /\ Fresh /\ Unanswered /\ ChatsOnly /\ SweepsApart

(* It holds in the initial states.                                         *)
LEMMA OrderInit == Init => Order
  BY LLMQueueAssumption DEF Init, Order, TypeOK, HasRequest, Fresh,
     Unanswered, ChatsOnly,
     SweepsApart, Busy, Idle, NoCall, At, Statuses, WorkerPCs

(* The oldest pending request is one of them.                              *)
LEMMA NextRequestIsPending ==
    ASSUME Pending # {}
    PROVE  NextRequest \in Pending
<1>1. ASSUME NEW S \in SUBSET Requests, S # {} PROVE Min(S) \in S
  <2>1. IsWellFoundedOn(OpToRel(<, Nat), Nat)
    BY NatLessThanWellFounded
  <2>2. S \subseteq Nat
    BY LLMQueueAssumption
  <2>3. PICK m \in S : \A k \in S : ~(<<k, m>> \in OpToRel(<, Nat))
    BY <1>1, <2>1, <2>2, WFMin
  <2>4. \A k \in S : ~(k < m)
    BY <2>2, <2>3, Zenon DEF OpToRel
  <2>5. \A k \in S : m <= k
    BY <2>2, <2>4
  <2> QED
    BY <2>5 DEF Min
<1> QED
  BY <1>1 DEF NextRequest, Pending

-----------------------------------------------------------------------------
(* Types of the rows, of the worker and of the rest.                       *)

RowsOK ==
    /\ status \in [Requests -> Statuses]
    /\ age \in [Requests -> 0 .. StaleAfter + 1]

WorkerOK ==
    worker \in [pc : WorkerPCs, req : Requests \cup {NoRequest},
                profile : Profiles \cup {"none"},
                elapsed : 0 .. ExecTimeout, stale : SUBSET Requests]

ListOK ==
    /\ chat \in Requests \cup {NoRequest} /\ chatUp \in BOOLEAN
    /\ commands \in Seq(Requests)

RestOK ==
    /\ claims \in [Requests -> Profiles \cup {"none"}]
    /\ paused \subseteq Profiles
    /\ api \in [op : UserOps \cup {"none", "sweep"}, reqs : SUBSET Requests]
    /\ ops \in 0 .. MaxOps
    /\ faults \in 0 .. MaxFaults

(* The worker stays typed when it goes to another label, or idle.          *)
LEMMA GotoTypes ==
    ASSUME WorkerOK, NEW l \in WorkerPCs, Goto(l)
    PROVE  WorkerOK'
  BY DEF WorkerOK, Goto

(* So it does when it is done with its request.                            *)
LEMMA IdleTypes == WorkerOK /\ Become(Idle) => WorkerOK'
  BY LLMQueueAssumption DEF WorkerOK, Become, Idle, WorkerPCs

(* Every step keeps the types, one group of variables at a time.           *)
LEMMA RowsOKStep ==
    ASSUME TypeOK, HasRequest, Next
    PROVE  RowsOK'
<1> USE LLMQueueAssumption DEF TypeOK, RowsOK, rows, Others, Statuses
<1>1. CASE StartRequest
  <2>1. worker.req \in Requests
    BY <1>1 DEF StartRequest, HasRequest, Busy, At
  <2> QED
    BY <1>1, <2>1, SMTT(20) DEF StartRequest, MarkProcessing
<1>2. CASE Delegate
  <2>1. worker.req \in Requests
    BY <1>2 DEF Delegate, HasRequest, Busy, At
  <2> QED
    BY <1>2, <2>1, SMTT(20) DEF Delegate, MarkFailed
<1>3. CASE Reject
  <2>1. worker.req \in Requests
    BY <1>3 DEF Reject, HasRequest, Busy, At
  <2> QED
    BY <1>3, <2>1, SMTT(20) DEF Reject, MarkFailed
<1>4. CASE Route
  <2>1. ResetToPending(worker.req) \/ UNCHANGED <<status, age>>
    BY <1>4 DEF Route
  <2> QED
    BY <2>1, SMTT(20) DEF ResetToPending, MarkPending
<1>5. CASE ClaimProfile
  <2>1. worker.req \in Requests
    BY <1>5 DEF ClaimProfile, HasRequest, Busy, At
  <2> QED
    BY <1>5, <2>1, SMTT(20) DEF ClaimProfile, ResetToPending, MarkPending
<1>6. CASE Answer
  <2>1. worker.req \in Requests
    BY <1>6 DEF Answer, HasRequest, Busy, At
  <2> QED
    BY <1>6, <2>1, SMTT(20) DEF Answer, MarkCompleted
<1>7. CASE Fail
  <2>1. worker.req \in Requests
    BY <1>7 DEF Fail, HasRequest, Busy, At
  <2> QED
    BY <1>7, <2>1, SMTT(20) DEF Fail, MarkFailed
<1>8. CASE Save
  <2>1. worker.req \in Requests
    BY <1>8 DEF Save, HasRequest, Busy, At
  <2> QED
    BY <1>8, <2>1, SMTT(20) DEF Save, MarkFailed
<1>9. CASE SweepAtStart
  BY <1>9 DEF SweepAtStart, MarkFailed
<1>10. CASE ChatEnds
  BY <1>10, SMTT(20) DEF ChatEnds, MarkFailed, MarkCompleted
<1>11. CASE ApiCommits
  BY <1>11, SMTT(20) DEF ApiCommits, MarkFailed, MarkPending, CancelCommits
<1>12. CASE Tick
  <2>1. /\ status' = status
        /\ age' = [r \in Requests |->
                      IF age[r] > StaleAfter THEN age[r] ELSE age[r] + 1]
    BY <1>12 DEF Tick
  <2> QED
    BY <2>1, SMTT(20)
<1>13. CASE Select \/ Unrouted \/ ReleaseProfile \/ StartWorker
       \/ (\E p \in Profiles : PauseEnds(p)) \/ RunChat
       \/ StartChatExecutor \/ (\E op \in UserOps,
       r \in Requests : UserReads(op, r)) \/ ApiStarts \/ WorkerDies
       \/ ChatExecutorDies \/ ReleaseRaises
  BY <1>13 DEF Select, Unrouted, ReleaseProfile, StartWorker, PauseEnds,
     RunChat, StartChatExecutor, UserReads, ApiStarts, WorkerDies,
     ChatExecutorDies, ReleaseRaises
<1> HIDE DEF TypeOK, RowsOK, rows, Others, Statuses
<1> QED
  BY <1>1, <1>2, <1>3, <1>4, <1>5, <1>6, <1>7, <1>8, <1>9, <1>10, <1>11,
     <1>12, <1>13 DEF Next, WorkerStep

(* The worker.                                                             *)
LEMMA WorkerOKStep ==
    ASSUME TypeOK, HasRequest, Next
    PROVE  WorkerOK'
<1> USE LLMQueueAssumption DEF TypeOK, WorkerOK, WorkerPCs, Others
<1> WorkerOK
  OBVIOUS
<1>1. CASE Select
  <2>1. NextRequest \in Requests
    BY <1>1, NextRequestIsPending DEF Select, Pending
  <2>2. worker' = [pc |-> "chosen", req |-> NextRequest, profile |-> "none",
                  elapsed |-> 0, stale |-> {}]
    BY <1>1 DEF Select, Become, Idle
  <2> QED
    BY <2>1, <2>2
<1>2. CASE StartRequest
  BY <1>2, GotoTypes DEF StartRequest
<1>3. CASE Unrouted
  BY <1>3, GotoTypes DEF Unrouted
<1>4. CASE Answer
  BY <1>4, GotoTypes DEF Answer
<1>5. CASE Fail
  BY <1>5, GotoTypes DEF Fail
<1>6. CASE Save
  BY <1>6, GotoTypes DEF Save
<1>7. CASE Delegate
  BY <1>7, IdleTypes DEF Delegate
<1>8. CASE Reject
  BY <1>8, IdleTypes DEF Reject
<1>9. CASE ReleaseProfile
  BY <1>9, IdleTypes DEF ReleaseProfile
<1>10. CASE SweepAtStart
  BY <1>10, IdleTypes DEF SweepAtStart
<1>11. CASE ReleaseRaises
  BY <1>11, IdleTypes DEF ReleaseRaises
<1>12. CASE Route
  <2>1. CASE Become(Idle)
    BY <2>1, IdleTypes
  <2>2. ASSUME NEW p \in Available,
               Become([worker EXCEPT !.pc = "claiming", !.profile = p])
        PROVE  WorkerOK'
    BY <2>2 DEF Become, Available
  <2> QED
    BY <1>12, <2>1, <2>2 DEF Route
<1>13. CASE ClaimProfile
  <2>1. CASE Become(Idle)
    BY <2>1, IdleTypes
  <2>2. CASE Goto("executing")
    BY <2>2, GotoTypes
  <2> QED
    BY <1>13, <2>1, <2>2 DEF ClaimProfile
<1>14. CASE StartWorker
  <2>1. worker' = [pc |-> "starting", req |-> NoRequest, profile |-> "none",
                  elapsed |-> 0, stale |-> Stale]
    BY <1>14 DEF StartWorker, Become, Idle
  <2> QED
    BY <2>1 DEF Stale
<1>15. CASE WorkerDies
  <2>1. worker' = [pc |-> "dead", req |-> NoRequest, profile |-> "none",
                  elapsed |-> 0, stale |-> {}]
    BY <1>15 DEF WorkerDies, Become, Idle
  <2> QED
    BY <2>1
<1>16. CASE Tick
  <2>1. CASE At("executing")
    <3>1. /\ worker.elapsed + 1 \in 0 .. ExecTimeout
          /\ worker' = [worker EXCEPT !.elapsed = @ + 1]
      BY <1>16, <2>1, SMTT(20) DEF Tick
    <3> QED
      BY <3>1
  <2>2. CASE ~At("executing")
    BY <1>16, <2>2 DEF Tick
  <2> QED
    BY <2>1, <2>2
<1>17. CASE (\E p \in Profiles : PauseEnds(p)) \/ RunChat \/ ChatEnds
       \/ StartChatExecutor \/ (\E op \in UserOps,
       r \in Requests : UserReads(op, r)) \/ ApiStarts \/ ApiCommits
       \/ ChatExecutorDies
  BY <1>17 DEF PauseEnds, RunChat, ChatEnds, StartChatExecutor, UserReads,
     ApiStarts, ApiCommits, ChatExecutorDies
<1> HIDE DEF TypeOK, WorkerOK, WorkerPCs, Others
<1> QED
  BY <1>1, <1>2, <1>3, <1>4, <1>5, <1>6, <1>7, <1>8, <1>9, <1>10, <1>11,
     <1>12, <1>13, <1>14, <1>15, <1>16, <1>17 DEF Next, WorkerStep

(* The chat executor and its list.                                         *)
LEMMA ListOKStep ==
    ASSUME TypeOK, HasRequest, Next
    PROVE  ListOK'
<1> USE LLMQueueAssumption DEF TypeOK, ListOK, Others
<1>1. CASE Delegate
  <2>1. worker.req \in Requests
    BY <1>1 DEF Delegate, HasRequest, Busy, At
  <2>2. commands' \in Seq(Requests)
    <3>1. Append(commands, worker.req) \in Seq(Requests)
      BY <2>1, AppendProperties
    <3> QED
      BY <1>1, <3>1 DEF Delegate
  <2> QED
    BY <1>1, <2>2 DEF Delegate
<1>2. CASE RunChat
  <2>1. Head(commands) \in Requests /\ Tail(commands) \in Seq(Requests)
    BY <1>2, HeadTailProperties DEF RunChat
  <2> QED
    BY <1>2, <2>1 DEF RunChat
<1>3. CASE ChatExecutorDies
  <2>1. chat' = NoRequest /\ chatUp' = FALSE /\ commands' = commands
    BY <1>3, ZenonT(20) DEF ChatExecutorDies
  <2> QED
    BY <2>1
<1>4. CASE Select \/ StartRequest \/ Reject \/ Route \/ Unrouted
       \/ ClaimProfile \/ Answer \/ Fail \/ Save \/ ReleaseProfile
       \/ StartWorker \/ SweepAtStart \/ (\E p \in Profiles : PauseEnds(p))
       \/ ChatEnds \/ StartChatExecutor \/ (\E op \in UserOps,
       r \in Requests : UserReads(op, r)) \/ ApiStarts \/ ApiCommits
       \/ Tick \/ WorkerDies \/ ReleaseRaises
  BY <1>4 DEF Select, StartRequest, Reject, Route, Unrouted, ClaimProfile,
     Answer, Fail, Save, ReleaseProfile, StartWorker, SweepAtStart, PauseEnds,
     ChatEnds, StartChatExecutor, UserReads, ApiStarts, ApiCommits, Tick,
     WorkerDies, ReleaseRaises
<1> HIDE DEF TypeOK, ListOK, Others
<1> QED
  BY <1>1, <1>2, <1>3, <1>4 DEF Next, WorkerStep

(* The claims, the pauses, the API and the bounds.                         *)
LEMMA RestOKStep ==
    ASSUME TypeOK, HasRequest, Next
    PROVE  RestOK'
<1> USE LLMQueueAssumption DEF TypeOK, RestOK, Others, NoCall
<1>1. CASE ClaimProfile
  <2>1. worker.req \in Requests
    BY <1>1 DEF ClaimProfile, HasRequest, Busy, At
  <2>2. worker.profile \in Profiles
    BY <1>1 DEF ClaimProfile, HasRequest
  <2>3. claims' \in [Requests -> Profiles \cup {"none"}]
    BY <1>1, <2>1, <2>2 DEF ClaimProfile
  <2> QED
    BY <1>1, <2>3 DEF ClaimProfile
<1>2. CASE Fail
  BY <1>2 DEF Fail
<1>3. CASE ReleaseProfile
  <2>1. claims' \in [Requests -> Profiles \cup {"none"}]
    BY <1>3 DEF ReleaseProfile
  <2> QED
    BY <1>3, <2>1 DEF ReleaseProfile
<1>4. CASE (\E p \in Profiles : PauseEnds(p))
  BY <1>4 DEF PauseEnds
<1>5. CASE (\E op \in UserOps, r \in Requests : UserReads(op, r))
  BY <1>5, SMTT(20) DEF UserReads
<1>6. CASE ApiStarts
  BY <1>6, SMTT(20) DEF ApiStarts, Stale
<1>7. CASE ApiCommits
  BY <1>7, SMTT(20) DEF ApiCommits
<1>8. CASE WorkerDies
  <2>1. faults < MaxFaults /\ faults' = faults + 1
    BY <1>8 DEF WorkerDies, Fault
  <2>2. UNCHANGED <<claims, paused, api, ops>>
    BY <1>8, ZenonT(20) DEF WorkerDies
  <2> QED
    BY <2>1, <2>2
<1>9. CASE ChatExecutorDies
  <2>1. faults < MaxFaults /\ faults' = faults + 1
    BY <1>9 DEF ChatExecutorDies, Fault
  <2>2. UNCHANGED <<claims, paused, api, ops>>
    BY <1>9, ZenonT(20) DEF ChatExecutorDies
  <2> QED
    BY <2>1, <2>2
<1>10. CASE ReleaseRaises
  BY <1>10 DEF ReleaseRaises, Fault
<1>11. CASE Select \/ StartRequest \/ Delegate \/ Reject \/ Route
       \/ Unrouted \/ Answer \/ Save \/ StartWorker \/ SweepAtStart
       \/ RunChat \/ ChatEnds \/ StartChatExecutor \/ Tick
  BY <1>11 DEF Select, StartRequest, Delegate, Reject, Route, Unrouted,
     Answer, Save, StartWorker, SweepAtStart, RunChat, ChatEnds,
     StartChatExecutor, Tick
<1> HIDE DEF TypeOK, RestOK, Others, NoCall
<1> QED
  BY <1>1, <1>2, <1>3, <1>4, <1>5, <1>6, <1>7, <1>8, <1>9, <1>10, <1>11
     DEF Next, WorkerStep

(* Every step keeps the types.                                             *)
LEMMA TypeStep == TypeOK /\ HasRequest /\ Next => TypeOK'
  BY RowsOKStep, WorkerOKStep, ListOKStep, RestOKStep
     DEF TypeOK, RowsOK, WorkerOK, ListOK, RestOK

-----------------------------------------------------------------------------
(* What the steps do, variable by variable.                                *)

(* A request that is put back becomes pending, if it changes at all.       *)
LEMMA PutBack ==
    ASSUME ResetToPending(worker.req)
    PROVE  /\ age' = age
           /\ \A q \in Requests :
                 \/ status'[q] = status[q]
                 \/ q = worker.req /\ status'[q] = "pending"
  BY DEF ResetToPending, MarkPending

(* A step to another label keeps the rest of what the worker has.          *)
Keeps == /\ worker'.req = worker.req /\ worker'.elapsed = worker.elapsed
         /\ worker'.stale = worker.stale
Idles == /\ worker'.pc = "idle" /\ worker'.req = NoRequest
         /\ worker'.profile = "none" /\ worker'.stale = {}

(* A request is put back, or goes on to claim a profile.                   *)
LEMMA RouteDoes ==
    ASSUME TypeOK, Route
    PROVE  /\ worker.pc = "checking" /\ age' = age
           /\ UNCHANGED <<claims, chat, chatUp, commands, paused, api, ops,
                         faults>>
           /\ \/ /\ Idles /\ ResetToPending(worker.req)
                 /\ \A q \in Requests :
                       \/ status'[q] = status[q]
                       \/ q = worker.req /\ status'[q] = "pending"
              \/ /\ status' = status
                 /\ Keeps
                 /\ worker'.pc = "claiming" /\ worker'.profile \in Profiles
<1>1. CASE ResetToPending(worker.req) /\ Become(Idle)
  BY <1>1, PutBack DEF Route, At, Become, Idle, Idles, Others
<1>2. CASE UNCHANGED rows /\ \E p \in Available :
              Become([worker EXCEPT !.pc = "claiming", !.profile = p])
  BY <1>2 DEF Route, At, Become, Available, rows, TypeOK, Keeps, Others
<1> QED
  BY <1>1, <1>2 DEF Route

(* It is put back, or it is claimed and executed.                          *)
LEMMA ClaimProfileDoes ==
    ASSUME TypeOK, HasRequest, ClaimProfile
    PROVE  /\ worker.pc = "claiming" /\ age' = age
           /\ UNCHANGED <<chat, chatUp, commands, paused, api, ops,
                         faults>>
           /\ \/ /\ MayClaim
                 /\ Keeps /\ worker'.pc = "executing"
                 /\ worker'.profile = worker.profile
                 /\ status' = status
                 /\ claims' = [claims EXCEPT ![worker.req] = worker.profile]
              \/ /\ Idles /\ claims' = claims
                 /\ \A q \in Requests :
                       \/ status'[q] = status[q]
                       \/ q = worker.req /\ status'[q] = "pending"
<1>1. CASE MayClaim
  BY <1>1 DEF ClaimProfile, At, Goto, rows, TypeOK, Keeps
<1>2. CASE ~MayClaim
  BY <1>2, PutBack DEF ClaimProfile, At, Become, Idle, Idles
<1> QED
  BY <1>1, <1>2

(* The chat executor writes the row of its chat only.                      *)
LEMMA ChatEndsDoes ==
    ASSUME TypeOK, ChatEnds
    PROVE  /\ chat \in Requests /\ chat' = NoRequest
           /\ UNCHANGED <<claims, worker, commands, api, faults>>
           /\ \A q \in Requests :
                 /\ q # chat => status'[q] = status[q] /\ age'[q] = age[q]
                 /\ q = chat => /\ status'[q] \in {"completed", "failed"}
                                /\ age'[q] = 0
<1>1. chat \in Requests
  BY DEF TypeOK, ChatEnds
<1>2. CASE MarkCompleted(chat)
  BY <1>1, <1>2 DEF ChatEnds, MarkCompleted, TypeOK
<1>3. CASE MarkFailed({chat})
  BY <1>1, <1>3 DEF ChatEnds, MarkFailed, TypeOK
<1> QED
  BY <1>2, <1>3 DEF ChatEnds

(* A call of the API writes the rows it has read only, and answers none.   *)
LEMMA ApiCommitsDoes ==
    ASSUME TypeOK, ApiCommits
    PROVE  /\ api' = NoCall /\ api.op # "none"
           /\ UNCHANGED <<claims, worker, chat, commands, faults>>
           /\ \A q \in Requests :
                 /\ q \notin api.reqs =>
                       status'[q] = status[q] /\ age'[q] = age[q]
                 /\ q \in api.reqs =>
                       /\ status'[q] \in {"pending", "failed", "cancelled"}
                       /\ age'[q] \in {age[q], 0}
<1>1. CASE CancelCommits
  BY <1>1 DEF ApiCommits, CancelCommits
<1>2. CASE api.op \in {"retry", "batch"} /\ MarkPending(api.reqs)
  BY <1>2 DEF ApiCommits, MarkPending
<1>3. CASE api.op = "sweep" /\ MarkFailed(api.reqs)
  BY <1>3 DEF ApiCommits, MarkFailed
<1> QED
  BY <1>1, <1>2, <1>3 DEF ApiCommits

(* The chat is gone; nothing that is stored changes.                       *)
LEMMA ChatExecutorDiesDoes ==
    ASSUME ChatExecutorDies
    PROVE  /\ chat' = NoRequest
           /\ UNCHANGED <<status, age, claims, worker, commands, paused, api,
                         ops>>
  BY ZenonT(20) DEF ChatExecutorDies, rows

(* Every step keeps HasRequest.                                            *)
LEMMA HasRequestStep ==
    ASSUME Order, Next
    PROVE  HasRequest'
<1> USE LLMQueueAssumption DEF Order, TypeOK, HasRequest, At, Busy, Others
<1>1. CASE Select
  BY <1>1, SMTT(20), NextRequestIsPending DEF Select, rows, Become, Idle,
     Pending
<1>2. CASE StartRequest
  BY <1>2, SMTT(20) DEF StartRequest, MarkProcessing, Goto
<1>3. CASE Delegate
  BY <1>3, SMTT(20) DEF Delegate, rows, MarkFailed, Become, Idle
<1>4. CASE Reject
  BY <1>4, SMTT(20) DEF Reject, MarkFailed, Become, Idle
<1>5. CASE Unrouted
  BY <1>5, SMTT(20) DEF Unrouted, rows, Goto
<1>6. CASE Answer
  BY <1>6, SMTT(20) DEF Answer, MarkCompleted, Goto
<1>7. CASE Fail
  BY <1>7, SMTT(20) DEF Fail, MarkFailed, Goto
<1>8. CASE Save
  BY <1>8, SMTT(20) DEF Save, rows, MarkFailed, Goto
<1>9. CASE ReleaseProfile \/ ReleaseRaises
  BY <1>9, SMTT(20) DEF ReleaseProfile, ReleaseRaises, rows, Become, Idle,
     Fault
<1>10. CASE StartWorker
  BY <1>10, SMTT(20) DEF StartWorker, rows, Become, Idle, Stale
<1>11. CASE SweepAtStart
  BY <1>11, SMTT(20) DEF SweepAtStart, MarkFailed, Become, Idle
<1>12. CASE (\E p \in Profiles : PauseEnds(p)) \/ RunChat \/ StartChatExecutor
  BY <1>12, SMTT(20) DEF PauseEnds, RunChat, StartChatExecutor, rows
<1>13. CASE (\E op \in UserOps, r \in Requests : UserReads(op, r))
  BY <1>13, SMTT(20) DEF UserReads, rows, Allowed
<1>14. CASE ApiStarts
  BY <1>14, SMTT(20) DEF ApiStarts, rows, Stale
<1>15. CASE Tick
  BY <1>15, SMTT(20) DEF Tick
<1>16. CASE WorkerDies
  BY <1>16, SMTT(20) DEF WorkerDies, rows, Become, Idle, Fault
<1>17. CASE Route
  BY <1>17, RouteDoes, SMTT(20) DEF Idles, Keeps
<1>18. CASE ClaimProfile
  BY <1>18, ClaimProfileDoes, SMTT(20) DEF Idles, Keeps
<1>19. CASE ChatEnds
  BY <1>19, ChatEndsDoes, SMTT(20)
<1>20. CASE ApiCommits
  BY <1>20, ApiCommitsDoes, SMTT(20) DEF NoCall
<1>21. CASE ChatExecutorDies
  BY <1>21, ChatExecutorDiesDoes
<1> HIDE DEF Order, TypeOK, HasRequest, At, Busy, Others
<1> QED
  BY <1>1, <1>2, <1>3, <1>4, <1>5, <1>6, <1>7, <1>8, <1>9, <1>10, <1>11,
     <1>12, <1>13, <1>14, <1>15, <1>16, <1>17, <1>18, <1>19, <1>20, <1>21
     DEF Next, WorkerStep

(* A request is dated when it is started, and ages with its execution.     *)
LEMMA FreshStep ==
    ASSUME Order, Next
    PROVE  Fresh'
<1> USE LLMQueueAssumption DEF Order, TypeOK, HasRequest, Fresh, At, Busy,
Others
<1>1. CASE Select
  BY <1>1, SMTT(20), NextRequestIsPending DEF Select, rows, Become, Idle,
     Pending
<1>2. CASE StartRequest
  BY <1>2, SMTT(20) DEF StartRequest, MarkProcessing, Goto
<1>3. CASE Delegate
  BY <1>3, SMTT(20) DEF Delegate, rows, MarkFailed, Become, Idle
<1>4. CASE Reject
  BY <1>4, SMTT(20) DEF Reject, MarkFailed, Become, Idle
<1>5. CASE Unrouted
  BY <1>5, SMTT(20) DEF Unrouted, rows, Goto
<1>6. CASE Answer
  BY <1>6, SMTT(20) DEF Answer, MarkCompleted, Goto
<1>7. CASE Fail
  BY <1>7, SMTT(20) DEF Fail, MarkFailed, Goto
<1>8. CASE Save
  BY <1>8, SMTT(20) DEF Save, rows, MarkFailed, Goto
<1>9. CASE ReleaseProfile \/ ReleaseRaises
  BY <1>9, SMTT(20) DEF ReleaseProfile, ReleaseRaises, rows, Become, Idle,
     Fault
<1>10. CASE StartWorker
  BY <1>10, SMTT(20) DEF StartWorker, rows, Become, Idle, Stale
<1>11. CASE SweepAtStart
  BY <1>11, SMTT(20) DEF SweepAtStart, MarkFailed, Become, Idle
<1>12. CASE (\E p \in Profiles : PauseEnds(p)) \/ RunChat \/ StartChatExecutor
  BY <1>12, SMTT(20) DEF PauseEnds, RunChat, StartChatExecutor, rows
<1>13. CASE (\E op \in UserOps, r \in Requests : UserReads(op, r))
  BY <1>13, SMTT(20) DEF UserReads, rows, Allowed
<1>14. CASE ApiStarts
  BY <1>14, SMTT(20) DEF ApiStarts, rows, Stale
<1>15. CASE Tick
  BY <1>15, SMTT(20) DEF Tick
<1>16. CASE WorkerDies
  BY <1>16, SMTT(20) DEF WorkerDies, rows, Become, Idle, Fault
<1>17. CASE Route
  BY <1>17, RouteDoes, SMTT(20) DEF Idles, Keeps
<1>18. CASE ClaimProfile
  BY <1>18, ClaimProfileDoes, SMTT(20) DEF Idles, Keeps
<1>19. CASE ChatEnds
  <2>1. worker' = worker /\ \A q \in Requests : age'[q] \in {0, age[q]}
    BY <1>19, ChatEndsDoes
  <2>2. ASSUME worker.pc \in {"checking", "claiming", "executing"}
        PROVE  /\ worker.req \in Requests /\ age[worker.req] <= worker.elapsed
               /\ 0 <= worker.elapsed
    BY <2>2
  <2> QED
    BY <2>1, <2>2
<1>20. CASE ApiCommits
  <2>1. worker' = worker /\ \A q \in Requests : age'[q] \in {0, age[q]}
    BY <1>20, ApiCommitsDoes
  <2>2. ASSUME worker.pc \in {"checking", "claiming", "executing"}
        PROVE  /\ worker.req \in Requests /\ age[worker.req] <= worker.elapsed
               /\ 0 <= worker.elapsed
    BY <2>2
  <2> QED
    BY <2>1, <2>2
<1>21. CASE ChatExecutorDies
  BY <1>21, ChatExecutorDiesDoes
<1> HIDE DEF Order, TypeOK, HasRequest, Fresh, At, Busy, Others
<1> QED
  BY <1>1, <1>2, <1>3, <1>4, <1>5, <1>6, <1>7, <1>8, <1>9, <1>10, <1>11,
     <1>12, <1>13, <1>14, <1>15, <1>16, <1>17, <1>18, <1>19, <1>20, <1>21
     DEF Next, WorkerStep

(* Nobody else marks the worker's request processing, or completes it.     *)
LEMMA UnansweredStep ==
    ASSUME Order, Next
    PROVE  Unanswered'
<1> USE LLMQueueAssumption DEF Order, TypeOK, HasRequest, Unanswered,
ChatsOnly, Kinds, At, Busy, Others
<1>1. CASE Select
  BY <1>1, SMTT(20), NextRequestIsPending DEF Select, rows, Become, Idle,
     Pending
<1>2. CASE StartRequest
  BY <1>2, SMTT(20) DEF StartRequest, MarkProcessing, Goto
<1>3. CASE Delegate
  BY <1>3, SMTT(20) DEF Delegate, rows, MarkFailed, Become, Idle
<1>4. CASE Reject
  BY <1>4, SMTT(20) DEF Reject, MarkFailed, Become, Idle
<1>5. CASE Unrouted
  BY <1>5, SMTT(20) DEF Unrouted, rows, Goto
<1>6. CASE Answer
  BY <1>6, SMTT(20) DEF Answer, MarkCompleted, Goto
<1>7. CASE Fail
  BY <1>7, SMTT(20) DEF Fail, MarkFailed, Goto
<1>8. CASE Save
  BY <1>8, SMTT(20) DEF Save, rows, MarkFailed, Goto
<1>9. CASE ReleaseProfile \/ ReleaseRaises
  BY <1>9, SMTT(20) DEF ReleaseProfile, ReleaseRaises, rows, Become, Idle,
     Fault
<1>10. CASE StartWorker
  BY <1>10, SMTT(20) DEF StartWorker, rows, Become, Idle, Stale
<1>11. CASE SweepAtStart
  BY <1>11, SMTT(20) DEF SweepAtStart, MarkFailed, Become, Idle
<1>12. CASE (\E p \in Profiles : PauseEnds(p)) \/ RunChat \/ StartChatExecutor
  BY <1>12, SMTT(20) DEF PauseEnds, RunChat, StartChatExecutor, rows
<1>13. CASE (\E op \in UserOps, r \in Requests : UserReads(op, r))
  BY <1>13, SMTT(20) DEF UserReads, rows, Allowed
<1>14. CASE ApiStarts
  BY <1>14, SMTT(20) DEF ApiStarts, rows, Stale
<1>15. CASE Tick
  BY <1>15, SMTT(20) DEF Tick
<1>16. CASE WorkerDies
  BY <1>16, SMTT(20) DEF WorkerDies, rows, Become, Idle, Fault
<1>17. CASE Route
  BY <1>17, RouteDoes, SMTT(20) DEF Idles, Keeps
<1>18. CASE ClaimProfile
  BY <1>18, ClaimProfileDoes, SMTT(20) DEF Idles, Keeps
<1>19. CASE ChatEnds
  <2>1. worker' = worker
    BY <1>19, ChatEndsDoes
  <2>2. \A q \in Requests :
           status[q] # "processing" => status'[q] # "processing"
    BY <1>19, ChatEndsDoes
  <2>3. \A q \in Requests :
           KindOf[q] = "extracted" /\ status[q] # "completed"
           => status'[q] # "completed"
    BY <1>19, ChatEndsDoes
  <2> QED
    BY <2>1, <2>2, <2>3
<1>20. CASE ApiCommits
  <2>1. worker' = worker
    BY <1>20, ApiCommitsDoes
  <2>2. \A q \in Requests :
           status[q] # "processing" => status'[q] # "processing"
    BY <1>20, ApiCommitsDoes
  <2>3. \A q \in Requests :
           KindOf[q] = "extracted" /\ status[q] # "completed"
           => status'[q] # "completed"
    BY <1>20, ApiCommitsDoes
  <2> QED
    BY <2>1, <2>2, <2>3
<1>21. CASE ChatExecutorDies
  BY <1>21, ChatExecutorDiesDoes
<1> HIDE DEF Order, TypeOK, HasRequest, Unanswered, ChatsOnly, Kinds, At,
Busy, Others
<1> QED
  BY <1>1, <1>2, <1>3, <1>4, <1>5, <1>6, <1>7, <1>8, <1>9, <1>10, <1>11,
     <1>12, <1>13, <1>14, <1>15, <1>16, <1>17, <1>18, <1>19, <1>20, <1>21
     DEF Next, WorkerStep

(* Only requests that are chats are delegated.                             *)
LEMMA ChatsOnlyStep ==
    ASSUME Order, Next
    PROVE  ChatsOnly'
<1> USE LLMQueueAssumption DEF Order, TypeOK, HasRequest, Unanswered,
ChatsOnly, At, Busy, Others
<1>1. CASE Select
  BY <1>1, SMTT(20), NextRequestIsPending DEF Select, rows, Become, Idle,
     Pending
<1>2. CASE StartRequest
  BY <1>2, SMTT(20) DEF StartRequest, MarkProcessing, Goto
<1>3. CASE Reject
  BY <1>3, SMTT(20) DEF Reject, MarkFailed, Become, Idle
<1>4. CASE Unrouted
  BY <1>4, SMTT(20) DEF Unrouted, rows, Goto
<1>5. CASE Answer
  BY <1>5, SMTT(20) DEF Answer, MarkCompleted, Goto
<1>6. CASE Fail
  BY <1>6, SMTT(20) DEF Fail, MarkFailed, Goto
<1>7. CASE Save
  BY <1>7, SMTT(20) DEF Save, rows, MarkFailed, Goto
<1>8. CASE ReleaseProfile \/ ReleaseRaises
  BY <1>8, SMTT(20) DEF ReleaseProfile, ReleaseRaises, rows, Become, Idle,
     Fault
<1>9. CASE StartWorker
  BY <1>9, SMTT(20) DEF StartWorker, rows, Become, Idle, Stale
<1>10. CASE SweepAtStart
  BY <1>10, SMTT(20) DEF SweepAtStart, MarkFailed, Become, Idle
<1>11. CASE (\E p \in Profiles : PauseEnds(p)) \/ RunChat \/ StartChatExecutor
  <2>1. CASE RunChat
    <3>1. /\ chat' = commands[1] /\ 1 \in DOMAIN commands
          /\ \A i \in DOMAIN commands' : /\ i + 1 \in DOMAIN commands
                                        /\ commands'[i] = commands[i + 1]
      BY <2>1 DEF RunChat
    <3>2. KindOf[chat'] = "chat"
      BY <3>1
    <3>3. \A i \in DOMAIN commands' : KindOf[commands'[i]] = "chat"
      BY <3>1
    <3>4. worker' = worker
      BY <2>1 DEF RunChat
    <3> HIDE DEF TypeOK, HasRequest, Unanswered, Order, Others
    <3> QED
      BY <3>2, <3>3, <3>4 DEF Order
  <2>2. CASE (\E p \in Profiles : PauseEnds(p)) \/ StartChatExecutor
    BY <2>2, Zenon DEF PauseEnds, StartChatExecutor
  <2> QED
    BY <1>11, <2>1, <2>2
<1>12. CASE (\E op \in UserOps, r \in Requests : UserReads(op, r))
  BY <1>12, SMTT(20) DEF UserReads, rows, Allowed
<1>13. CASE ApiStarts
  BY <1>13, SMTT(20) DEF ApiStarts, rows, Stale
<1>14. CASE Tick
  BY <1>14, SMTT(20) DEF Tick
<1>15. CASE WorkerDies
  BY <1>15, SMTT(20) DEF WorkerDies, rows, Become, Idle, Fault
<1>16. CASE Route
  BY <1>16, RouteDoes, SMTT(20) DEF Idles, Keeps
<1>17. CASE ClaimProfile
  BY <1>17, ClaimProfileDoes, SMTT(20) DEF Idles, Keeps
<1>18. CASE ChatEnds
  BY <1>18, ChatEndsDoes, SMTT(20)
<1>19. CASE ApiCommits
  BY <1>19, ApiCommitsDoes, SMTT(20) DEF NoCall
<1>20. CASE ChatExecutorDies
  BY <1>20, ChatExecutorDiesDoes
<1>21. CASE Delegate
  <2>1. KindOf[worker.req] = "chat" /\ worker.req \in Requests /\ chat' = chat
    BY <1>21 DEF Delegate
  <2>2. CASE commands' = Append(commands, worker.req)
    <3>1. \A i \in DOMAIN commands' :
             /\ commands'[i] \in {commands[i], worker.req}
             /\ i \notin DOMAIN commands => commands'[i] = worker.req
      BY <2>1, <2>2
    <3>2. /\ \A i \in DOMAIN commands : KindOf[commands[i]] = "chat"
          /\ chat # NoRequest => KindOf[chat] = "chat"
      OBVIOUS
    <3> HIDE DEF Order, TypeOK, HasRequest, Unanswered, At, Busy, Others
    <3> QED
      BY <2>1, <3>1, <3>2
  <2> QED
    BY <1>21, <2>1, <2>2 DEF Delegate
<1> HIDE DEF Order, TypeOK, HasRequest, Unanswered, ChatsOnly, At, Busy, Others
<1> QED
  BY <1>1, <1>2, <1>3, <1>4, <1>5, <1>6, <1>7, <1>8, <1>9, <1>10, <1>11,
     <1>12, <1>13, <1>14, <1>15, <1>16, <1>17, <1>18, <1>19, <1>20, <1>21
     DEF Next, WorkerStep

(* A request that a sweep finds stale is not the worker's: see ApiStarts.  *)
LEMMA SweepsApartStep ==
    ASSUME Order, Next
    PROVE  SweepsApart'
<1> USE LLMQueueAssumption DEF Order, TypeOK, HasRequest, Fresh, Unanswered,
ChatsOnly, SweepsApart, Kinds, At, Busy, Others
<1>1. CASE Select
  BY <1>1, SMTT(20), NextRequestIsPending DEF Select, rows, Become, Idle,
     Pending
<1>2. CASE StartRequest
  BY <1>2, SMTT(20) DEF StartRequest, MarkProcessing, Goto
<1>3. CASE Delegate
  BY <1>3, SMTT(20) DEF Delegate, rows, MarkFailed, Become, Idle
<1>4. CASE Reject
  BY <1>4, SMTT(20) DEF Reject, MarkFailed, Become, Idle
<1>5. CASE Unrouted
  BY <1>5, SMTT(20) DEF Unrouted, rows, Goto
<1>6. CASE Fail
  BY <1>6, SMTT(20) DEF Fail, MarkFailed, Goto
<1>7. CASE Save
  BY <1>7, SMTT(20) DEF Save, rows, MarkFailed, Goto
<1>8. CASE ReleaseProfile \/ ReleaseRaises
  BY <1>8, SMTT(20) DEF ReleaseProfile, ReleaseRaises, rows, Become, Idle,
     Fault
<1>9. CASE StartWorker
  BY <1>9, SMTT(20) DEF StartWorker, rows, Become, Idle, Stale
<1>10. CASE SweepAtStart
  BY <1>10, SMTT(20) DEF SweepAtStart, MarkFailed, Become, Idle
<1>11. CASE (\E p \in Profiles : PauseEnds(p)) \/ RunChat \/ StartChatExecutor
  BY <1>11, SMTT(20) DEF PauseEnds, RunChat, StartChatExecutor, rows
<1>12. CASE Tick
  BY <1>12, SMTT(20) DEF Tick
<1>13. CASE WorkerDies
  BY <1>13, SMTT(20) DEF WorkerDies, rows, Become, Idle, Fault
<1>14. CASE Route
  <2> SUFFICES ASSUME NEW r \in Requests, KindOf[r] = "extracted"
               PROVE  /\ r \in worker'.stale => status'[r] # "completed"
                      /\ api'.op = "sweep" /\ r \in api'.reqs =>
                            /\ status'[r] \in {"processing", "failed"}
                            /\ worker'.req # r
    OBVIOUS
  <2> QED
    BY <1>14, RouteDoes, SMTT(20) DEF Idles, Keeps
<1>15. CASE ClaimProfile
  <2> SUFFICES ASSUME NEW r \in Requests, KindOf[r] = "extracted"
               PROVE  /\ r \in worker'.stale => status'[r] # "completed"
                      /\ api'.op = "sweep" /\ r \in api'.reqs =>
                            /\ status'[r] \in {"processing", "failed"}
                            /\ worker'.req # r
    OBVIOUS
  <2> QED
    BY <1>15, ClaimProfileDoes, SMTT(20) DEF Idles, Keeps
<1>16. CASE ChatEnds
  BY <1>16, ChatEndsDoes, SMTT(20)
<1>17. CASE ApiCommits
  BY <1>17, ApiCommitsDoes, SMTT(20) DEF NoCall
<1>18. CASE ChatExecutorDies
  BY <1>18, ChatExecutorDiesDoes
<1>19. CASE Answer
  <2> SUFFICES ASSUME NEW r \in Requests, KindOf[r] = "extracted"
               PROVE  /\ r \in worker'.stale => status'[r] # "completed"
                      /\ api'.op = "sweep" /\ r \in api'.reqs =>
                            /\ status'[r] \in {"processing", "failed"}
                            /\ worker'.req # r
    OBVIOUS
  <2>1. /\ worker'.req = worker.req /\ worker'.stale = {} /\ api' = api
        /\ worker.req \in Requests
    BY <1>19 DEF Answer, Goto
  <2>2. r # worker.req => status'[r] = status[r]
    BY <1>19, <2>1 DEF Answer, MarkCompleted
  <2> QED
    BY <2>1, <2>2
<1>20. CASE (\E op \in UserOps, r \in Requests : UserReads(op, r))
  <2> SUFFICES ASSUME NEW r \in Requests, KindOf[r] = "extracted"
               PROVE  /\ r \in worker'.stale => status'[r] # "completed"
                      /\ api'.op = "sweep" /\ r \in api'.reqs =>
                            /\ status'[r] \in {"processing", "failed"}
                            /\ worker'.req # r
    OBVIOUS
  <2>1. api'.op # "sweep" /\ UNCHANGED <<worker, status>>
    BY <1>20 DEF UserReads, rows
  <2> QED
    BY <2>1
<1>21. CASE ApiStarts
  <2> SUFFICES ASSUME NEW r \in Requests, KindOf[r] = "extracted"
               PROVE  /\ r \in worker'.stale => status'[r] # "completed"
                      /\ api'.op = "sweep" /\ r \in api'.reqs =>
                            /\ status'[r] \in {"processing", "failed"}
                            /\ worker'.req # r
    OBVIOUS
  <2>1. api'.reqs = Stale /\ UNCHANGED <<worker, status>>
    BY <1>21 DEF ApiStarts, rows
  <2>2. ASSUME r \in Stale PROVE worker.req # r
    <3>1. status[r] = "processing" /\ age[r] > StaleAfter
      BY <2>2 DEF Stale
    <3>2. ASSUME worker.req = r,
                 worker.pc \in {"checking", "claiming", "executing"}
          PROVE  FALSE
      <4>1. age[r] <= worker.elapsed /\ worker.elapsed <= ExecTimeout
        BY <3>2
      <4>2. /\ ExecTimeout <= StaleAfter
            /\ worker.elapsed \in Nat /\ age[r] \in Nat
        OBVIOUS
      <4> QED
        BY <3>1, <4>1, <4>2
    <3>3. ASSUME worker.req = r PROVE Busy /\ ~At("delegating")
      BY <3>3
    <3>4. ASSUME worker.req = r
          PROVE  worker.pc \notin {"chosen", "saving", "releasing"}
      BY <3>1, <3>4
    <3> QED
      BY <3>2, <3>3, <3>4 DEF WorkerPCs
  <2> QED
    BY <2>1, <2>2 DEF Stale
<1> HIDE DEF Order, TypeOK, HasRequest, Fresh, Unanswered, ChatsOnly,
SweepsApart, Kinds, At, Busy, Others
<1> QED
  BY <1>1, <1>2, <1>3, <1>4, <1>5, <1>6, <1>7, <1>8, <1>9, <1>10, <1>11,
     <1>12, <1>13, <1>14, <1>15, <1>16, <1>17, <1>18, <1>19, <1>20, <1>21
     DEF Next, WorkerStep

-----------------------------------------------------------------------------
(* The invariant, and what follows from it.                                *)

(* Together they are inductive.                                            *)
LEMMA OrderStep == Order /\ [Next]_vars => Order'
<1>1. Order /\ Next => Order'
  BY TypeStep, HasRequestStep, FreshStep, UnansweredStep, ChatsOnlyStep,
     SweepsApartStep DEF Order
<1>2. Order /\ UNCHANGED vars => Order'
  BY SMTT(20) DEF Order, vars, TypeOK, HasRequest, Fresh, Unanswered,
     ChatsOnly,
     SweepsApart, Busy, At
<1> QED
  BY <1>1, <1>2

(* The worker has the request that its step needs, the age of the request  *)
(* counts from its start, nobody else answers it, and no sweep has it in   *)
(* hand: in every state, whatever faults and users' calls came before.     *)
THEOREM OrderInvariant == Spec => []Order
  BY OrderInit, OrderStep, PTL DEF Spec

(* Every variable keeps its type.                                          *)
THEOREM TypeCorrect == Spec => []TypeOK
  BY OrderInvariant, PTL DEF Order

(* A sweep that runs while a request is executed does not see it as stale: *)
(* with a time-out no longer than the age a sweep asks for, no assumption  *)
(* on time itself is needed.  (find_stale_processing, execute_llm.)        *)
THEOREM ExecutingNeverStale == Spec => []ExecutingIsNotStale
<1>1. Order => ExecutingIsNotStale
  <2> SUFFICES ASSUME Order, At("executing"), worker.req \in Stale
               PROVE  FALSE
    BY DEF ExecutingIsNotStale
  <2>1. age[worker.req] <= worker.elapsed
    BY DEF Order, Fresh, At
  <2>2. age[worker.req] > StaleAfter /\ worker.req \in Requests
    BY DEF Stale
  <2>3. worker.elapsed \in 0 .. ExecTimeout
    BY DEF Order, TypeOK
  <2>4. age[worker.req] \in 0 .. StaleAfter + 1
    BY <2>2 DEF Order, TypeOK
  <2> QED
    BY <2>1, <2>2, <2>3, <2>4, LLMQueueAssumption
<1> QED
  BY <1>1, OrderInvariant, PTL

-----------------------------------------------------------------------------
(* Answers.                                                                *)

(* What takes back the answer of an extracted request is a user's call.    *)
LEMMA AnswerStep ==
    ASSUME Order, Next, NEW r \in Requests,
           KindOf[r] = "extracted", status[r] = "completed"
    PROVE  status'[r] = "completed" \/ (api.op # "sweep" /\ r \in api.reqs)
<1> USE DEF Order, TypeOK, HasRequest, Unanswered, SweepsApart, At, Busy,
Others
<1>1. CASE StartRequest \/ Delegate \/ Reject \/ Fail \/ Answer \/ Save
  <2>1. worker.req # r \/ ~(Delegate \/ Reject \/ Fail \/ Save)
    BY SMTT(20) DEF Delegate, Reject, Fail, Save
  <2>2. StartRequest => worker.req # r
    BY SMTT(20) DEF StartRequest
  <2> QED
    BY <1>1, <2>1, <2>2, SMTT(20)
       DEF StartRequest, Delegate, Reject, Fail, Answer, Save, MarkProcessing,
           MarkFailed, MarkCompleted, rows
<1>2. CASE Route
  BY <1>2, RouteDoes
<1>3. CASE ClaimProfile
  BY <1>3, ClaimProfileDoes
<1>4. CASE SweepAtStart
  BY <1>4 DEF SweepAtStart, MarkFailed
<1>5. CASE ChatEnds
  <2>1. KindOf[chat] = "chat"
    BY <1>5 DEF ChatEnds, ChatsOnly
  <2> QED
    BY <1>5, <2>1, ChatEndsDoes
<1>6. CASE ApiCommits
  <2>1. r \notin api.reqs => status'[r] = status[r]
    BY <1>6, ApiCommitsDoes
  <2> QED
    BY <2>1
<1>7. CASE ChatExecutorDies
  BY <1>7, ChatExecutorDiesDoes
<1>8. CASE Select \/ Unrouted \/ ReleaseProfile \/ StartWorker
           \/ (\E p \in Profiles : PauseEnds(p)) \/ RunChat
           \/ StartChatExecutor
           \/ (\E op \in UserOps, q \in Requests : UserReads(op, q))
           \/ ApiStarts \/ Tick \/ WorkerDies \/ ReleaseRaises
  BY <1>8 DEF Select, Unrouted, ReleaseProfile, StartWorker, PauseEnds,
     RunChat,
     StartChatExecutor, UserReads, ApiStarts, Tick, WorkerDies,
     ReleaseRaises, rows
<1> HIDE DEF Order, TypeOK, HasRequest, Unanswered, SweepsApart, At, Busy,
Others
<1> QED
  BY <1>1, <1>2, <1>3, <1>4, <1>5, <1>6, <1>7, <1>8 DEF Next, WorkerStep

(* The answer of an extracted request stands, whatever crashes, restarts,  *)
(* sweeps and chats there are: only a user's call that had read the row    *)
(* before the answer came overwrites it.                                   *)
THEOREM AnswersStand == Spec => AnswerStands
<1> DEFINE Stands == \A r \in Requests :
               /\ KindOf[r] = "extracted"
               /\ status[r] = "completed"
               => status'[r] = "completed"
                  \/ (api.op # "sweep" /\ r \in api.reqs)
<1>1. Order /\ [Next]_vars => [Stands]_vars
  BY AnswerStep
<1> QED
  BY <1>1, OrderInvariant, PTL DEF Spec, AnswerStands

-----------------------------------------------------------------------------
(* Capacity.                                                               *)

(* The claims on a profile can be counted.                                 *)
LEMMA ClaimsOnFinite ==
    ASSUME NEW p
    PROVE  IsFiniteSet(ClaimsOn(p)) /\ Cardinality(ClaimsOn(p)) \in Nat
<1>1. ClaimsOn(p) \subseteq Requests
  BY DEF ClaimsOn
<1> QED
  BY <1>1, LLMQueueAssumption, FS_Subset, FS_CardinalityType

(* A step that adds no claim on a profile keeps it within its capacity.    *)
LEMMA FewerClaims ==
    ASSUME CapacityKept, NEW p \in Profiles, ClaimsOn(p)' \subseteq ClaimsOn(p)
    PROVE  Cardinality(ClaimsOn(p)') <= Capacity
<1> DEFINE S == ClaimsOn(p)
           T == ClaimsOn(p)'
<1>1. IsFiniteSet(S) /\ Cardinality(S) \in Nat /\ Cardinality(S) <= Capacity
  BY ClaimsOnFinite DEF CapacityKept
<1>2. T \subseteq S
  OBVIOUS
<1> HIDE DEF S, T
<1>3. /\ IsFiniteSet(T)
      /\ Cardinality(T) \in Nat /\ Cardinality(T) <= Cardinality(S)
  BY <1>1, <1>2, FS_Subset, FS_CardinalityType
<1>4. Cardinality(T) <= Capacity
  BY <1>1, <1>3, LLMQueueAssumption
<1> QED
  BY <1>4 DEF T

(* A claim is only made where there is room.                               *)
LEMMA CapacityStep ==
    ASSUME Order, CapacityKept, Next
    PROVE  CapacityKept'
<1> USE LLMQueueAssumption
<1>1. SUFFICES ASSUME NEW p \in Profiles
               PROVE  Cardinality(ClaimsOn(p)') <= Capacity
  BY DEF CapacityKept, ClaimsOn
<1>2. CASE ClaimProfile /\ MayClaim /\ worker.profile = p
  <2> DEFINE S == ClaimsOn(p)
             T == ClaimsOn(p)'
  <2>1. IsFiniteSet(S) /\ Cardinality(S) \in Nat /\ Cardinality(S) < Capacity
    BY <1>2, ClaimsOnFinite DEF MayClaim, HasRoom
  <2>2. worker.req \in Requests
    BY <1>2, ClaimProfileDoes DEF Order, HasRequest, Busy, At
  <2>3. claims' = [claims EXCEPT ![worker.req] = p]
    BY <1>2 DEF ClaimProfile
  <2>4. T = S \cup {worker.req}
    BY <2>2, <2>3 DEF ClaimsOn, Order, TypeOK
  <2> HIDE DEF S, T
  <2>5. Cardinality(T) \in {Cardinality(S), Cardinality(S) + 1}
    BY <2>1, <2>4, FS_AddElement
  <2>7. Cardinality(T) <= Capacity
    BY <2>1, <2>5
  <2> QED
    BY <2>7 DEF T
<1>3. CASE ~(ClaimProfile /\ MayClaim /\ worker.profile = p)
  <2>1. ASSUME NEW q \in Requests, claims'[q] = p PROVE claims[q] = p
    <3> USE DEF Order, TypeOK
    <3>1. CASE ClaimProfile
      BY <1>3, <2>1, <3>1 DEF ClaimProfile
    <3>2. CASE ReleaseProfile
      BY <2>1, <3>2 DEF ReleaseProfile
    <3>3. CASE claims' = claims
      BY <2>1, <3>3
    <3>4. ClaimProfile \/ ReleaseProfile \/ claims' = claims
      BY ChatExecutorDiesDoes
         DEF Next, WorkerStep, Select, StartRequest, Delegate, Reject, Route,
             Unrouted, Answer, Fail, Save, StartWorker, SweepAtStart,
             PauseEnds, RunChat, ChatEnds, StartChatExecutor, UserReads,
             ApiStarts, ApiCommits, Tick, WorkerDies, ReleaseRaises, Others
    <3> QED
      BY <3>1, <3>2, <3>3, <3>4
  <2>2. ClaimsOn(p)' \subseteq ClaimsOn(p)
    BY <2>1 DEF ClaimsOn
  <2> QED
    BY <2>2, FewerClaims
<1> QED
  BY <1>2, <1>3

(* No profile has more claims than it has capacity for, also when workers  *)
(* die over their claims and others take over.                             *)
THEOREM CapacityIsKept == Spec => []CapacityKept
<1>1. Init => CapacityKept
  <2> SUFFICES ASSUME Init, NEW p \in Profiles
               PROVE  Cardinality(ClaimsOn(p)) <= Capacity
    BY DEF CapacityKept
  <2>1. ClaimsOn(p) = {}
    BY LLMQueueAssumption DEF Init, ClaimsOn
  <2> QED
    BY <2>1, FS_EmptySet, LLMQueueAssumption
<1>2. Order /\ CapacityKept /\ [Next]_vars => CapacityKept'
  <2>1. CASE Next
    BY <2>1, CapacityStep
  <2>2. CASE UNCHANGED vars
    BY <2>2 DEF vars, CapacityKept, ClaimsOn
  <2> QED
    BY <2>1, <2>2
<1> QED
  BY <1>1, <1>2, OrderInvariant, PTL DEF Spec

-----------------------------------------------------------------------------
(* Nothing is left behind.                                                 *)

(* Without a fault so far, the worker is neither dead nor starting, what   *)
(* is processing is in somebody's hands, and a claim is one of the request *)
(* that the worker executes or has just executed under a profile.          *)
InHand ==
    faults = 0 =>
        /\ worker.pc \notin {"dead", "starting"}
        /\ \A r \in Requests :
              /\ status[r] = "processing" => Handled(r)
              /\ claims[r] # "none" =>
                    /\ worker.req = r /\ worker.profile # "none"
                    /\ worker.pc \in {"executing", "saving", "releasing"}

(* A request that is processing is passed on or settled by every step.      *)
LEMMA InHandStep ==
    ASSUME Order, InHand, Next
    PROVE  InHand'
<1> USE LLMQueueAssumption
<1> SUFFICES ASSUME faults' = 0 PROVE InHand'
  BY DEF InHand
<1>1. /\ faults = 0
      /\ ~WorkerDies /\ ~ChatExecutorDies /\ ~ReleaseRaises
  <2>1. faults \in Nat
    BY DEF Order, TypeOK
  <2>2. ~WorkerDies /\ ~ChatExecutorDies /\ ~ReleaseRaises
    <3>1. WorkerDies \/ ChatExecutorDies \/ ReleaseRaises
          => faults' = faults + 1
      BY ZenonT(20) DEF WorkerDies, ChatExecutorDies, ReleaseRaises, Fault
    <3>2. faults' # faults + 1
      BY <2>1
    <3> QED
      BY <3>1, <3>2
  <2>3. faults' = faults
    BY <2>2 DEF Next, WorkerStep, Select, StartRequest, Delegate, Reject,
       Route,
       Unrouted, ClaimProfile, Answer, Fail, Save, ReleaseProfile, StartWorker,
       SweepAtStart, PauseEnds, RunChat, ChatEnds, StartChatExecutor,
       UserReads, ApiStarts, ApiCommits, Tick, Others
  <2> QED
    BY <2>2, <2>3
<1>2. /\ worker.pc \notin {"dead", "starting"}
      /\ \A r \in Requests :
            /\ status[r] = "processing" => Handled(r)
            /\ claims[r] # "none" =>
                  /\ worker.req = r /\ worker.profile # "none"
                  /\ worker.pc \in {"executing", "saving", "releasing"}
  BY <1>1 DEF InHand
<1>3. ~StartWorker /\ ~SweepAtStart
  BY <1>2 DEF StartWorker, SweepAtStart, At
<1>4. worker.pc \notin {"idle"} => worker.req \in Requests
  BY <1>2 DEF Order, HasRequest, Busy
<1>5. worker.pc = "idle" => worker.req = NoRequest
  BY DEF Order, HasRequest, Busy
<1> USE DEF At, Others, rows, Handled, Delegated
<1>6. CASE Select
  <2>1. worker'.pc = "chosen" /\ worker.req = NoRequest
    BY <1>5, <1>6 DEF Select, Become, Idle
  <2> QED
    BY <1>2, <1>6, <2>1 DEF Select, InHand
<1>7. CASE StartRequest
  <2>1. worker'.pc \in {"delegating", "checking"} /\ worker'.req = worker.req
    BY <1>7 DEF StartRequest, Goto, Order, TypeOK
  <2>2. \A r \in Requests : claims[r] = "none"
    BY <1>2, <1>7 DEF StartRequest
  <2>3. \A r \in Requests : r # worker.req => status'[r] = status[r]
    BY <1>7 DEF StartRequest, MarkProcessing, Order, TypeOK
  <2> QED
    BY <1>2, <1>7, <2>1, <2>2, <2>3 DEF StartRequest, InHand
<1>8. CASE Delegate
  <2>1. worker'.pc = "idle"
    BY <1>8 DEF Delegate, Become, Idle
  <2>2. \A r \in Requests : claims[r] = "none"
    BY <1>2, <1>8 DEF Delegate
  <2>3. worker.req \in Requests
    BY <1>4, <1>8 DEF Delegate
  <2>4. ASSUME NEW r \in Requests, status'[r] = "processing"
        PROVE  chat' = r \/ \E i \in DOMAIN commands' : commands'[i] = r
    <3>r. (worker.req = r /\ ~MarkFailed({worker.req})) \/ Delegated(r)
      <4>1. CASE MarkFailed({worker.req})
        <5>1. r # worker.req /\ status[r] = "processing"
          BY <2>3, <2>4, <4>1 DEF MarkFailed
        <5> QED
          BY <1>2, <5>1 DEF Handled
      <4>2. CASE ~MarkFailed({worker.req})
        <5>1. status[r] = "processing"
          BY <1>8, <2>4, <4>2 DEF Delegate, rows
        <5> QED
          BY <1>2, <4>2, <5>1 DEF Handled
      <4> QED
        BY <4>1, <4>2
    <3>1. CASE MarkFailed({worker.req}) /\ UNCHANGED commands
      BY <1>8, <3>1, <3>r DEF Delegate, Delegated
    <3>2. CASE commands' = Append(commands, worker.req)
      <4>1. commands \in Seq(Requests)
        BY DEF Order, TypeOK
      <4>2. /\ DOMAIN commands' = 1 .. Len(commands) + 1
            /\ \A i \in DOMAIN commands : commands'[i] = commands[i]
            /\ commands'[Len(commands) + 1] = worker.req
            /\ DOMAIN commands \subseteq DOMAIN commands'
        BY <2>3, <3>2, <4>1
      <4>4. CASE worker.req = r
        <5>1. Len(commands) + 1 \in DOMAIN commands'
          BY <4>1, <4>2
        <5> QED
          BY <4>2, <4>4, <5>1
      <4>5. CASE chat = r \/ \E i \in DOMAIN commands : commands[i] = r
        BY <1>8, <4>2, <4>5 DEF Delegate
      <4> QED
        BY <3>r, <4>4, <4>5 DEF Delegated
    <3> QED
      BY <1>8, <3>1, <3>2 DEF Delegate
  <2> QED
    BY <1>8, <2>1, <2>2, <2>4 DEF Delegate, InHand
<1>9. CASE Reject
  <2>1. worker'.pc = "idle"
    BY <1>9 DEF Reject, Become, Idle
  <2>2. \A r \in Requests : claims[r] = "none"
    BY <1>2, <1>9 DEF Reject
  <2>3. \A r \in Requests : status'[r] = "processing" =>
                               status[r] = "processing" /\ r # worker.req
    BY <1>9 DEF Reject, MarkFailed
  <2> QED
    BY <1>2, <1>9, <2>1, <2>2, <2>3 DEF Reject, InHand
<1>10. CASE Route
  <2>1. \A r \in Requests : claims[r] = "none"
    BY <1>2, <1>10 DEF Route
  <2>2. \A r \in Requests : status'[r] = "processing" =>
           status[r] = "processing" /\ (worker'.pc = "idle" => r # worker.req)
    <3>1. CASE ResetToPending(worker.req)
      <4>1. \A r \in Requests : status'[r] = "processing" =>
               status[r] = "processing" /\ r # worker.req
        BY <3>1 DEF ResetToPending, MarkPending
      <4> QED
        BY <4>1
    <3>2. CASE status' = status /\ worker'.pc = "claiming"
      BY <3>2
    <3>3. TypeOK
      BY <1>4 DEF Order
    <3> QED
      BY <1>10, <3>1, <3>2, <3>3, RouteDoes
  <2>3. \/ worker'.pc = "idle"
        \/ worker'.pc = "claiming" /\ worker'.req = worker.req
    BY <1>10, RouteDoes DEF Idles, Keeps, Order
  <2>4. UNCHANGED <<claims, chat, commands>>
    BY <1>10 DEF Route
  <2> QED
    BY <1>2, <2>1, <2>2, <2>3, <2>4 DEF InHand
<1>11. CASE Unrouted
  <2>1. worker'.pc = "executing" /\ worker'.req = worker.req
    BY <1>11 DEF Unrouted, Goto, Order, TypeOK
  <2>2. \A r \in Requests : claims[r] = "none"
    BY <1>2, <1>11 DEF Unrouted
  <2> QED
    BY <1>2, <1>11, <2>1, <2>2 DEF Unrouted, InHand
<1>12. CASE ClaimProfile
  <2>1. worker.req \in Requests /\ \A r \in Requests : claims[r] = "none"
    BY <1>2, <1>4, <1>12 DEF ClaimProfile
  <2>2. worker.profile # "none"
    BY <1>12 DEF ClaimProfile, Order, HasRequest
  <2>3. CASE MayClaim
    <3>1. /\ worker'.pc = "executing" /\ worker'.req = worker.req
          /\ worker'.profile = worker.profile
      BY <1>12, <2>3 DEF ClaimProfile, Goto, Order, TypeOK
    <3>2. \A r \in Requests : claims'[r] # "none" => r = worker.req
      BY <1>12, <2>1, <2>3 DEF ClaimProfile, Order, TypeOK
    <3>3. UNCHANGED <<status, chat, commands>>
      BY <1>12, <2>3 DEF ClaimProfile
    <3> QED
      BY <1>2, <2>2, <3>1, <3>2, <3>3 DEF InHand
  <2>4. CASE ~MayClaim
    <3>1. worker'.pc = "idle" /\ UNCHANGED <<claims, chat, commands>>
      BY <1>12, <2>4 DEF ClaimProfile, Become, Idle
    <3>2. \A r \in Requests : status'[r] = "processing" =>
                                 status[r] = "processing" /\ r # worker.req
      BY <1>12, <2>4 DEF ClaimProfile, ResetToPending, MarkPending
    <3> QED
      BY <1>2, <2>1, <3>1, <3>2 DEF InHand
  <2> QED
    BY <2>3, <2>4
<1>13. CASE Answer \/ Fail \/ Save
  <2>1. /\ worker'.pc \in {"saving", "releasing"} /\ worker'.req = worker.req
        /\ worker'.profile = worker.profile
    <3>1. TypeOK
      BY DEF Order
    <3>2. Goto("saving") \/ Goto("releasing")
      BY <1>13 DEF Answer, Fail, Save
    <3> QED
      BY <3>1, <3>2 DEF Goto, TypeOK
  <2>2. worker.req \in Requests /\ worker.pc \in {"executing", "saving"}
    BY <1>4, <1>13 DEF Answer, Fail, Save
  <2>3. \A r \in Requests :
           status'[r] = "processing" => status[r] = "processing"
    BY <1>13, <2>2 DEF Answer, Fail, Save, MarkCompleted, MarkFailed, Order,
       TypeOK
  <2>4. UNCHANGED <<claims, chat, commands>>
    BY <1>13 DEF Answer, Fail, Save
  <2> QED
    BY <1>2, <2>1, <2>2, <2>3, <2>4 DEF InHand
<1>14. CASE ReleaseProfile
  <2>1. worker'.pc = "idle" /\ UNCHANGED <<status, chat, commands>>
    BY <1>14 DEF ReleaseProfile, Become, Idle
  <2>2. worker.req \in Requests /\ status[worker.req] # "processing"
    BY <1>4, <1>14 DEF ReleaseProfile, Order, Unanswered
  <2>3. \A r \in Requests : claims'[r] = "none"
    BY <1>2, <1>14, <2>2 DEF ReleaseProfile, Order, TypeOK
  <2> QED
    BY <1>2, <2>1, <2>2, <2>3 DEF InHand
<1>15. CASE RunChat
  <2>1. /\ commands \in Seq(Requests) /\ commands # <<>> /\ chat = NoRequest
        /\ chat' = Head(commands) /\ commands' = Tail(commands)
        /\ UNCHANGED <<status, claims, worker>>
    BY <1>15 DEF RunChat, Order, TypeOK
  <2>2. ASSUME NEW i \in DOMAIN commands
        PROVE  \/ chat' = commands[i]
               \/ \E j \in DOMAIN commands' : commands'[j] = commands[i]
    <3>1. CASE i = 1
      BY <2>1, <3>1
    <3>2. CASE i # 1
      <4>1. i - 1 \in DOMAIN commands' /\ commands'[i - 1] = commands[i]
        BY <2>1, <2>2, <3>2
      <4> QED
        BY <4>1
    <3> QED
      BY <3>1, <3>2
  <2> QED
    BY <1>2, <2>1, <2>2 DEF InHand
<1>16. CASE ChatEnds
  <2>1. \A r \in Requests : status'[r] = "processing" =>
                               status[r] = "processing" /\ r # chat
    BY <1>16, ChatEndsDoes DEF Order
  <2>2. UNCHANGED <<claims, worker, commands>>
    BY <1>16, ChatEndsDoes DEF Order
  <2> QED
    BY <1>2, <2>1, <2>2 DEF InHand
<1>17. CASE ApiCommits
  <2>1. \A r \in Requests :
           status'[r] = "processing" => status[r] = "processing"
    BY <1>17, ApiCommitsDoes DEF Order
  <2>2. UNCHANGED <<claims, worker, commands, chat>>
    BY <1>17, ApiCommitsDoes DEF Order
  <2> QED
    BY <1>2, <2>1, <2>2 DEF InHand
<1>18. CASE Tick
  <2>1. /\ worker'.pc = worker.pc /\ worker'.req = worker.req
        /\ worker'.profile = worker.profile
    BY <1>18 DEF Tick, Order, TypeOK
  <2> QED
    BY <1>2, <1>18, <2>1 DEF Tick, InHand
<1>19. CASE (\E p \in Profiles : PauseEnds(p)) \/ StartChatExecutor
            \/ (\E op \in UserOps, r \in Requests : UserReads(op, r))
            \/ ApiStarts
  <2>1. UNCHANGED <<status, claims, worker, chat, commands>>
    BY <1>19 DEF PauseEnds, StartChatExecutor, UserReads, ApiStarts
  <2> QED
    BY <1>2, <2>1 DEF InHand
<1> QED
  BY <1>1, <1>3, <1>6, <1>7, <1>8, <1>9, <1>10, <1>11, <1>12, <1>13, <1>14,
     <1>15, <1>16, <1>17, <1>18, <1>19 DEF Next, WorkerStep

(* As long as nothing crashes, whatever users cancel and retry meanwhile,  *)
(* no request is processing without somebody who has it, and no claim      *)
(* outlives the execution it was made for.                                 *)
THEOREM NothingIsLeftBehind == Spec => []NothingLeftBehind
<1>1. Init => InHand
  BY DEF Init, InHand, Idle
<1>2. Order /\ InHand /\ [Next]_vars => InHand'
  <2>1. CASE Next
    BY <2>1, InHandStep
  <2>2. CASE UNCHANGED vars
    BY <2>2 DEF vars, InHand, Handled, Delegated
  <2> QED
    BY <2>1, <2>2
<1>3. InHand => NothingLeftBehind
  BY DEF InHand, NothingLeftBehind
<1> QED
  BY <1>1, <1>2, <1>3, OrderInvariant, PTL DEF Spec

=============================================================================

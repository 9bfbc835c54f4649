------------------------- MODULE RunnerStart_proofs -------------------------
(***************************************************************************)
(* Theorems about RunnerStart, for any starts and faults.                  *)
(***************************************************************************)
EXTENDS RunnerStart, SequenceTheorems, FiniteSetTheorems,
        WellFoundedInduction, TLAPS

-----------------------------------------------------------------------------
(* What is in a list of starts.                                            *)

(* An append adds its element and nothing else.                            *)
LEMMA AppendHas ==
    ASSUME NEW q \in Seq(Starts), NEW x \in Starts
    PROVE  /\ Append(q, x) \in Seq(Starts)
           /\ \A y : Contains(Append(q, x), y) <=> Contains(q, y) \/ y = x
  BY AppendProperties DEF Contains

(* The head and the tail have what the list has.                           *)
LEMMA HeadTailHas ==
    ASSUME NEW q \in Seq(Starts), q # <<>>
    PROVE  /\ Head(q) \in Starts /\ Tail(q) \in Seq(Starts)
           /\ \A y : Contains(q, y) <=> Contains(Tail(q), y) \/ y = Head(q)
<1>1. /\ Len(q) \in Nat \ {0} /\ Head(q) = q[1] /\ Head(q) \in Starts
      /\ Tail(q) \in Seq(Starts) /\ Len(Tail(q)) = Len(q) - 1
      /\ \A i \in 1 .. Len(Tail(q)) : Tail(q)[i] = q[i + 1]
  BY HeadTailProperties, EmptySeq
<1>2. ASSUME NEW i \in 1 .. Len(q) PROVE Contains(Tail(q), q[i]) \/ q[i] = Head(q)
  <2>1. CASE i = 1
    BY <1>1, <2>1
  <2>2. CASE i # 1
    <3>1. i - 1 \in 1 .. Len(Tail(q)) /\ Tail(q)[i - 1] = q[i]
      BY <1>1, <2>2
    <3> QED
      BY <3>1 DEF Contains
  <2> QED
    BY <2>1, <2>2
<1>3. ASSUME NEW i \in 1 .. Len(Tail(q)) PROVE Contains(q, Tail(q)[i])
  <2>1. i + 1 \in 1 .. Len(q) /\ q[i + 1] = Tail(q)[i]
    BY <1>1
  <2> QED
    BY <2>1 DEF Contains
<1>4. Contains(q, Head(q))
  BY <1>1 DEF Contains
<1> QED
  BY <1>1, <1>2, <1>3, <1>4 DEF Contains

(* The empty list has nothing.                                             *)
LEMMA EmptyHas == \A y : ~Contains(<<>>, y)
  BY DEF Contains

(* No start is in a list twice.                                            *)
Distinct(q) == \A i, j \in DOMAIN q : q[i] = q[j] => i = j

(* A list stays without duplicates when something new is appended.         *)
LEMMA AppendDistinct ==
    ASSUME NEW q \in Seq(Starts), NEW x \in Starts, Distinct(q), ~Contains(q, x)
    PROVE  Distinct(Append(q, x))
<1>1. /\ Len(q) \in Nat /\ Len(Append(q, x)) = Len(q) + 1
      /\ \A i \in 1 .. Len(q) : Append(q, x)[i] = q[i]
      /\ Append(q, x)[Len(q) + 1] = x
      /\ DOMAIN q = 1 .. Len(q)
      /\ DOMAIN Append(q, x) = 1 .. Len(q) + 1
  BY AppendProperties
<1>2. \A i \in 1 .. Len(q) : q[i] # x
  BY DEF Contains
<1>3. \A i \in 1 .. Len(q) + 1 : i \in 1 .. Len(q) \/ i = Len(q) + 1
  BY <1>1
<1>4. \A i, j \in 1 .. Len(q) : q[i] = q[j] => i = j
  BY <1>1 DEF Distinct
<1> QED
  BY <1>1, <1>2, <1>3, <1>4 DEF Distinct

(* The tail of a list without duplicates has none, nor the head.           *)
LEMMA TailDistinct ==
    ASSUME NEW q \in Seq(Starts), q # <<>>, Distinct(q)
    PROVE  Distinct(Tail(q)) /\ ~Contains(Tail(q), Head(q))
<1>1. /\ Len(q) \in Nat \ {0} /\ Head(q) = q[1]
      /\ Tail(q) \in Seq(Starts) /\ Len(Tail(q)) = Len(q) - 1
      /\ \A i \in 1 .. Len(Tail(q)) : Tail(q)[i] = q[i + 1]
      /\ DOMAIN q = 1 .. Len(q) /\ DOMAIN Tail(q) = 1 .. Len(Tail(q))
  BY HeadTailProperties, EmptySeq
<1>2. ASSUME NEW i \in 1 .. Len(Tail(q)), NEW j \in 1 .. Len(Tail(q)),
             Tail(q)[i] = Tail(q)[j]
      PROVE  i = j
  <2>1. q[i + 1] = q[j + 1] /\ i + 1 \in DOMAIN q /\ j + 1 \in DOMAIN q
    BY <1>1, <1>2
  <2>2. i + 1 = j + 1
    BY <2>1 DEF Distinct
  <2> QED
    BY <2>2
<1>3. ASSUME NEW i \in 1 .. Len(Tail(q)), Tail(q)[i] = Head(q) PROVE FALSE
  <2>1. q[i + 1] = q[1] /\ i + 1 \in DOMAIN q /\ 1 \in DOMAIN q
    BY <1>1, <1>3
  <2>2. i + 1 = 1
    BY <2>1 DEF Distinct
  <2> QED
    BY <2>2
<1> QED
  BY <1>1, <1>2, <1>3 DEF Distinct, Contains

-----------------------------------------------------------------------------
(* Base: the types, and what goes with a claim from the beginning.          *)

ClaimStates == {"none", "queued", "active", "released"}
ApiLabels == {"idle", "claiming", "enqueuing", "enqueued", "failed", "clearing",
              "done"}
Statuses == {"none", "queued", "running", "error", "stopped"}
Labels == {"none", "preparing", "spawned", "listing", "activating", "done"}
Cleaning == [pc : {"idle", "capture", "release", "clear"},
             by : {"none", "claim", "plan", "runner"},
             of : Starts \cup {NoStart}]

ClaimTypes ==
    /\ claims \in [Starts -> ClaimStates]
    /\ claimed \in Seq(Starts)
    /\ \A s \in Starts : claims[s] = "none" <=> ~Contains(claimed, s)
    /\ header \in Starts \cup {NoStart}

KeyTypes ==
    /\ status \in [Starts -> Statuses]
    /\ keys \in [Starts -> SUBSET Keys]

ListenerTypes ==
    /\ commands \in Seq(Starts)
    /\ listener \in [up : BOOLEAN, accepting : Starts \cup {NoStart},
                     reconnecting : SUBSET Starts]

RunTypes ==
    /\ api \in [Starts -> ApiLabels]
    /\ launcher \in [Starts -> Labels]
    /\ process \in [Starts -> {"none", "running", "exited"}]
    /\ watched \subseteq Starts

CleanupTypes == cleanup \in [Cleaners -> Cleaning]

FaultTypes == faults \subseteq FaultKinds

(* A start has no claim before the API inserts it, and no claim id key      *)
(* without a claim.                                                         *)
ClaimsFirst ==
    \A s \in Starts :
        /\ api[s] \in {"idle", "claiming"} => claims[s] = "none"
        /\ "claim" \in keys[s] => claims[s] # "none"

(* A cleanup that goes by the claim id has found one.                       *)
CleanersKnow ==
    \A c \in Cleaners :
        /\ cleanup[c].by = "claim" => "claim" \in keys[c[1]]
        /\ cleanup[c].pc = "idle" => cleanup[c] = NotCleaning
        /\ cleanup[c].pc # "clear" => cleanup[c].of = NoStart
        /\ cleanup[c].pc = "clear" => cleanup[c].of \in Starts

(* A start has one command, one launch, and one process; it has none before *)
(* the command is in the list, or may be.                                   *)
Untouched(s) == launcher[s] = "none" /\ process[s] = "none"
Unlisted(s) == \/ api[s] \in {"idle", "claiming", "enqueuing"}
               \/ api[s] = "failed" /\ "reply" \notin faults

LaunchedOnce ==
    /\ Distinct(commands)
    /\ \A s \in Starts :
        /\ Contains(commands, s) => listener.accepting # s /\ Untouched(s)
        /\ listener.accepting = s => Untouched(s)
        /\ Unlisted(s) =>
              ~Contains(commands, s) /\ listener.accepting # s /\ Untouched(s)
        /\ process[s] = "none" => launcher[s] \in {"none", "preparing"}
        /\ launcher[s] = "preparing" => process[s] = "none"

(* A thread that still watches a process has not begun to clean up, and a   *)
(* listener that has not come back does nothing else.                       *)
Idle(s, by) == cleanup[<<s, by>>].pc = "idle"
Away == ~listener.up \/ listener.reconnecting # {}

WatchedOnce ==
    /\ \A s \in Starts :
        /\ s \in watched => process[s] # "none" /\ Idle(s, "thread")
        /\ ~Idle(s, "thread") => process[s] = "exited"
        /\ s \in listener.reconnecting => s \notin watched /\ Idle(s, "thread")
        /\ ~listener.up => Idle(s, "thread") /\ Idle(s, "main")
        /\ Away => launcher[s] = "none"
    /\ Away => listener.accepting = NoStart
    /\ ~listener.up => watched = {} /\ listener.reconnecting = {}

Base == /\ ClaimTypes /\ KeyTypes /\ ListenerTypes /\ RunTypes /\ CleanupTypes
        /\ FaultTypes /\ ClaimsFirst /\ CleanersKnow /\ LaunchedOnce /\ WatchedOnce

(* The claim that get_active_claim_for_plan finds is live, and there is one *)
(* if any claim is live.                                                    *)
LEMMA LatestIsLive ==
    ASSUME ClaimTypes
    PROVE  /\ LatestLive \in Live \cup {NoStart}
           /\ LatestLive = NoStart <=> Live = {}
           /\ NoStart \notin Live
<1>0. NoStart \notin Live
  BY StartAssumption DEF Live
<1>1. CASE Live = {}
  BY <1>1 DEF LatestLive
<1>2. CASE Live # {}
  <2> DEFINE T == {Len(claimed) - i : i \in {j \in 1 .. Len(claimed) : claimed[j] \in Live}}
  <2>1. Len(claimed) \in Nat /\ DOMAIN claimed = 1 .. Len(claimed)
    BY DEF ClaimTypes
  <2>2. PICK s \in Starts : s \in Live /\ Contains(claimed, s)
    BY <1>2 DEF ClaimTypes, Live
  <2>3. T \subseteq Nat /\ T # {}
    BY <2>1, <2>2 DEF Contains
  <2>4. IsWellFoundedOn(OpToRel(<, Nat), Nat)
    BY NatLessThanWellFounded
  <2>5. PICK m \in T : \A k \in T : ~(<<k, m>> \in OpToRel(<, Nat))
    BY <2>3, <2>4, WFMin
  <2>6. \A k \in T : ~(k < m)
    BY <2>3, <2>5, Zenon DEF OpToRel
  <2>7. PICK i \in 1 .. Len(claimed) : claimed[i] \in Live /\ m = Len(claimed) - i
    BY <2>5
  <2>8. ASSUME NEW j \in 1 .. Len(claimed), claimed[j] \in Live PROVE j <= i
    <3>1. Len(claimed) - j \in T
      BY <2>8
    <3>2. ~(Len(claimed) - j < m)
      BY <2>6, <3>1
    <3> QED
      BY <2>1, <2>7, <3>2
  <2>9. \E k \in DOMAIN claimed :
           /\ claimed[k] \in Live
           /\ \A j \in DOMAIN claimed : claimed[j] \in Live => j <= k
    BY <2>1, <2>7, <2>8
  <2>10. LatestLive \in Live
    BY <1>2, <2>9 DEF LatestLive
  <2> QED
    BY <1>0, <1>2, <2>10
<1> QED
  BY <1>0, <1>1, <1>2

(* A cleanup is called by the thread of a start, or by the main thread.     *)
LEMMA PairsAre ==
    /\ \A q \in Starts : <<q, "thread">> \in Cleaners /\ <<q, "main">> \in Cleaners
    /\ \A q, r : /\ <<q, "thread">> # <<r, "main">>
                 /\ <<q, "thread">>[1] = q /\ <<q, "main">>[1] = q
                 /\ <<q, "thread">> = <<r, "thread">> => q = r
                 /\ <<q, "main">> = <<r, "main">> => q = r
    /\ \A c \in Cleaners : /\ c[1] \in Starts
                           /\ c = <<c[1], "thread">> \/ c = <<c[1], "main">>
  BY DEF Cleaners

(* One field of a cleanup is set.                                           *)
LEMMA BeginDoes ==
    ASSUME CleanupTypes, NEW s \in Starts, NEW by \in {"thread", "main"},
           BeginCleanup(s, by)
    PROVE  /\ cleanup' \in [Cleaners -> Cleaning]
           /\ cleanup'[<<s, by>>].pc = "capture"
           /\ cleanup'[<<s, by>>].by = cleanup[<<s, by>>].by
           /\ cleanup'[<<s, by>>].of = cleanup[<<s, by>>].of
           /\ \A d \in Cleaners \ {<<s, by>>} : cleanup'[d] = cleanup[d]
<1> DEFINE c == <<s, by>>
<1>1. c \in Cleaners
  BY DEF Cleaners
<1> HIDE DEF c
<1>2. cleanup' = [cleanup EXCEPT ![c].pc = "capture"]
  BY DEF BeginCleanup, c
<1>3. cleanup \in [Cleaners -> Cleaning]
  BY DEF CleanupTypes
<1>4. /\ cleanup' \in [Cleaners -> Cleaning]
      /\ cleanup'[c].pc = "capture" /\ cleanup'[c].by = cleanup[c].by
      /\ cleanup'[c].of = cleanup[c].of
      /\ \A d \in Cleaners \ {c} : cleanup'[d] = cleanup[d]
  BY <1>1, <1>2, <1>3 DEF Cleaning
<1> QED
  BY <1>4 DEF c

-----------------------------------------------------------------------------
(* What the actions do, one start at a time.                               *)

(* A request finds that the plan has no live claim, or is refused.          *)
LEMMA CheckDoes ==
    ASSUME Base, NEW s \in Starts, Check(s)
    PROVE  /\ api[s] = "idle"
           /\ api' \in [Starts -> ApiLabels]
           /\ \A q \in Starts \ {s} : api'[q] = api[q]
           /\ api'[s] \in {"claiming", "done"}
           /\ api'[s] = "claiming" => Live = {}
           /\ \/ faults' = faults
              \/ "race" \in FaultKinds /\ faults' = faults \cup {"race"}
           /\ api'[s] = "claiming" /\ "race" \notin faults' =>
                 \A t \in Starts : api[t] # "claiming"
           /\ UNCHANGED <<claims, claimed, header, commands, status, keys,
                          listener, launcher, process, watched, cleanup>>
<1>1. /\ api[s] = "idle"
      /\ \/ faults' = faults
         \/ "race" \in FaultKinds /\ faults' = faults \cup {"race"}
  BY DEF Check, ApiAt, Fault
<1>4. api'[s] = "claiming" /\ "race" \notin faults' =>
          \A t \in Starts : api[t] # "claiming"
  BY DEF Check, ApiAt, ApiGoto, Fault, Base, RunTypes
<1>2. /\ api' \in [Starts -> ApiLabels]
      /\ \A q \in Starts \ {s} : api'[q] = api[q]
      /\ api'[s] \in {"claiming", "done"}
      /\ api'[s] = "claiming" => Live = {}
  BY DEF Check, ApiGoto, Base, RunTypes, ApiLabels
<1>3. UNCHANGED <<claims, claimed, header, commands, status, keys,
                  listener, launcher, process, watched, cleanup>>
  BY DEF Check, ApiKeeps, ListenerKeeps, claiming, redis, running
<1> QED
  BY <1>1, <1>2, <1>3, <1>4

(* A claim is inserted, or claim_plan fails.                                *)
LEMMA InsertDoes ==
    ASSUME Base, NEW s \in Starts, Insert(s)
    PROVE  /\ api[s] = "claiming"
           /\ api' \in [Starts -> ApiLabels]
           /\ api'[s] = "enqueuing"
           /\ \A q \in Starts \ {s} : api'[q] = api[q]
           /\ claims' \in [Starts -> ClaimStates]
           /\ \A q \in Starts \ {s} : claims'[q] = claims[q]
           /\ \/ /\ claims'[s] = "queued" /\ claimed' = Append(claimed, s)
                 /\ header' = s /\ faults' = faults
              \/ /\ UNCHANGED <<claims, claimed, header>>
                 /\ "claim" \in FaultKinds /\ faults' = faults \cup {"claim"}
           /\ UNCHANGED <<commands, status, keys, listener, launcher, process,
                          watched, cleanup>>
<1>1. /\ api[s] = "claiming"
      /\ api' \in [Starts -> ApiLabels]
      /\ api'[s] = "enqueuing"
      /\ \A q \in Starts \ {s} : api'[q] = api[q]
  BY DEF Insert, ApiAt, ApiGoto, Base, RunTypes, ApiLabels
<1>2. /\ claims' \in [Starts -> ClaimStates]
      /\ \A q \in Starts \ {s} : claims'[q] = claims[q]
      /\ \/ /\ claims'[s] = "queued" /\ claimed' = Append(claimed, s)
            /\ header' = s /\ faults' = faults
         \/ /\ UNCHANGED <<claims, claimed, header>>
            /\ "claim" \in FaultKinds /\ faults' = faults \cup {"claim"}
  BY DEF Insert, Fault, SetClaim, claiming, Base, ClaimTypes, ClaimStates
<1>3. UNCHANGED <<commands, status, keys, listener, launcher, process,
                  watched, cleanup>>
  BY DEF Insert, ApiKeeps, ListenerKeeps, claiming, redis, running
<1> QED
  BY <1>1, <1>2, <1>3

(* The command is in the list; or it is not; or the API does not know.      *)
LEMMA EnqueueDoes ==
    ASSUME Base, NEW s \in Starts, Enqueue(s)
    PROVE  /\ api[s] = "enqueuing"
           /\ api' \in [Starts -> ApiLabels]
           /\ \A q \in Starts \ {s} : api'[q] = api[q]
           /\ \/ /\ commands' = Append(commands, s) /\ api'[s] = "enqueued"
                 /\ faults' = faults
              \/ commands' = commands /\ api'[s] = "failed" /\ faults' = faults
              \/ /\ commands' = Append(commands, s) /\ api'[s] = "failed"
                 /\ "reply" \in FaultKinds /\ faults' = faults \cup {"reply"}
           /\ UNCHANGED <<claims, claimed, header, status, keys, listener, launcher,
                          process, watched, cleanup>>
<1>1. api[s] = "enqueuing"
  BY DEF Enqueue, ApiAt
<1>2. /\ api' \in [Starts -> ApiLabels]
      /\ \A q \in Starts \ {s} : api'[q] = api[q]
      /\ \/ /\ commands' = Append(commands, s) /\ api'[s] = "enqueued"
            /\ faults' = faults
         \/ commands' = commands /\ api'[s] = "failed" /\ faults' = faults
         \/ /\ commands' = Append(commands, s) /\ api'[s] = "failed"
            /\ "reply" \in FaultKinds /\ faults' = faults \cup {"reply"}
  BY DEF Enqueue, ApiGoto, Fault, Base, RunTypes, ApiLabels
<1>3. UNCHANGED <<claims, claimed, header, status, keys, listener, launcher,
                  process, watched, cleanup>>
  BY DEF Enqueue, ApiKeeps, ListenerKeeps, claiming, redis, running
<1> QED
  BY <1>1, <1>2, <1>3

(* The API releases the claim of a start that it takes to have failed.      *)
LEMMA ApiReleasesDoes ==
    ASSUME Base, NEW s \in Starts, ApiReleases(s)
    PROVE  /\ api[s] = "failed"
           /\ api' \in [Starts -> ApiLabels]
           /\ \A q \in Starts \ {s} : api'[q] = api[q]
           /\ claims' \in [Starts -> ClaimStates]
           /\ \A q \in Starts \ {s} : claims'[q] = claims[q]
           /\ \/ claims[s] = "none" /\ api'[s] = "done" /\ claims' = claims
              \/ /\ claims[s] # "none" /\ api'[s] = "clearing"
                 /\ claims'[s] = "released"
           /\ UNCHANGED <<claimed, header, commands, status, keys, listener,
                          launcher, process, watched, cleanup, faults>>
<1>1. api[s] = "failed"
  BY DEF ApiReleases, ApiAt
<1>2. /\ api' \in [Starts -> ApiLabels]
      /\ \A q \in Starts \ {s} : api'[q] = api[q]
  BY DEF ApiReleases, ApiGoto, Base, RunTypes, ApiLabels
<1>3. /\ claims' \in [Starts -> ClaimStates]
      /\ \A q \in Starts \ {s} : claims'[q] = claims[q]
      /\ \/ claims[s] = "none" /\ api'[s] = "done" /\ claims' = claims
         \/ /\ claims[s] # "none" /\ api'[s] = "clearing"
            /\ claims'[s] = "released"
  BY DEF ApiReleases, SetClaim, ApiGoto, Base, ClaimTypes, ClaimStates,
     RunTypes, ApiLabels
<1>4. UNCHANGED <<claimed, header, commands, status, keys, listener,
                  launcher, process, watched, cleanup, faults>>
  BY DEF ApiReleases, ApiKeeps, ListenerKeeps, claiming, redis, running
<1> QED
  BY <1>1, <1>2, <1>3, <1>4

(* The API clears the header after it has released a claim.                 *)
LEMMA ApiClearsDoes ==
    ASSUME Base, NEW s \in Starts, ApiClears(s)
    PROVE  /\ api[s] = "clearing"
           /\ header' = NoStart
           /\ api' \in [Starts -> ApiLabels]
           /\ api'[s] = "done"
           /\ \A q \in Starts \ {s} : api'[q] = api[q]
           /\ UNCHANGED <<claims, claimed, commands, status, keys, listener,
                          launcher, process, watched, cleanup, faults>>
<1>1. /\ api[s] = "clearing"
      /\ header' = NoStart
      /\ api' \in [Starts -> ApiLabels]
      /\ api'[s] = "done"
      /\ \A q \in Starts \ {s} : api'[q] = api[q]
  BY DEF ApiClears, ApiAt, ApiGoto, Base, RunTypes, ApiLabels
<1>2. UNCHANGED <<claims, claimed, commands, status, keys, listener,
                  launcher, process, watched, cleanup, faults>>
  BY DEF ApiClears, ApiKeeps, ListenerKeeps, claiming, redis, running
<1> QED
  BY <1>1, <1>2

(* The API writes the first keys of a runner, or none.                      *)
LEMMA SetQueuedDoes ==
    ASSUME Base, NEW s \in Starts, SetQueued(s)
    PROVE  /\ api[s] = "enqueued"
           /\ api' \in [Starts -> ApiLabels]
           /\ api'[s] = "done"
           /\ \A q \in Starts \ {s} : api'[q] = api[q]
           /\ status' \in [Starts -> Statuses]
           /\ keys' \in [Starts -> SUBSET Keys]
           /\ \A q \in Starts : "claim" \in keys'[q] <=> "claim" \in keys[q]
           /\ UNCHANGED <<claims, claimed, header, commands, listener,
                          launcher, process, watched, cleanup, faults>>
<1>1. /\ api[s] = "enqueued"
      /\ api' \in [Starts -> ApiLabels]
      /\ api'[s] = "done"
      /\ \A q \in Starts \ {s} : api'[q] = api[q]
  BY DEF SetQueued, ApiAt, ApiGoto, Base, RunTypes, ApiLabels
<1>2. /\ status' \in [Starts -> Statuses]
      /\ keys' \in [Starts -> SUBSET Keys]
      /\ \A q \in Starts : "claim" \in keys'[q] <=> "claim" \in keys[q]
  BY DEF SetQueued, Base, KeyTypes, Keys, Statuses
<1>3. UNCHANGED <<claims, claimed, header, commands, listener, launcher,
                  process, watched, cleanup, faults>>
  BY DEF SetQueued, ApiKeeps, ListenerKeeps, claiming, redis, running
<1> QED
  BY <1>1, <1>2, <1>3

(* A correction changes the status and the membership of a runner.          *)
LEMMA CorrectDoes ==
    ASSUME Base, NEW s \in Starts, Correct(s)
    PROVE  /\ status' \in [Starts -> Statuses]
           /\ keys' \in [Starts -> SUBSET Keys]
           /\ \A q \in Starts : "claim" \in keys'[q] <=> "claim" \in keys[q]
           /\ UNCHANGED <<claims, claimed, header, api, commands, listener,
                          launcher, process, watched, cleanup, faults>>
<1>1. status' \in [Starts -> Statuses]
  BY DEF Correct, Base, KeyTypes, Statuses
<1>2. /\ keys' \in [Starts -> SUBSET Keys]
      /\ \A q \in Starts : "claim" \in keys'[q] <=> "claim" \in keys[q]
  BY DEF Correct, Base, KeyTypes, Keys
<1>3. UNCHANGED <<claims, claimed, header, api, commands, listener,
                  launcher, process, watched, cleanup, faults>>
  BY DEF Correct, ApiKeeps, ListenerKeeps, claiming, redis, running
<1> QED
  BY <1>1, <1>2, <1>3

(* An administrator releases the plan's live claim.                         *)
LEMMA AdminReleasesDoes ==
    ASSUME Base, AdminReleases
    PROVE  /\ "admin" \in FaultKinds
           /\ faults' = faults \cup {"admin"}
           /\ header' = NoStart
           /\ \E l \in Live :
                 /\ claims' \in [Starts -> ClaimStates] /\ claims'[l] = "released"
                 /\ \A q \in Starts \ {l} : claims'[q] = claims[q]
           /\ UNCHANGED <<claimed, api, commands, status, keys, listener,
                          launcher, process, watched, cleanup>>
<1>1. /\ "admin" \in FaultKinds
      /\ faults' = faults \cup {"admin"}
      /\ header' = NoStart
  BY DEF AdminReleases, Fault
<1>2. /\ \E l \in Live :
            /\ claims' \in [Starts -> ClaimStates] /\ claims'[l] = "released"
            /\ \A q \in Starts \ {l} : claims'[q] = claims[q]
  BY LatestIsLive DEF AdminReleases, SetClaim, Base, ClaimTypes, ClaimStates,
     Live
<1>3. UNCHANGED <<claimed, api, commands, status, keys, listener, launcher,
                  process, watched, cleanup>>
  BY DEF AdminReleases, ApiKeeps, ListenerKeeps, claiming, redis, running
<1> QED
  BY <1>1, <1>2, <1>3

(* The listener takes the oldest command, or refuses it.                    *)
LEMMA TakeDoes ==
    ASSUME Base, Take
    PROVE  /\ listener.up
           /\ listener.accepting = NoStart
           /\ listener.reconnecting = {}
           /\ commands # <<>>
           /\ commands' = Tail(commands)
           /\ listener'.up = listener.up
           /\ listener'.reconnecting = listener.reconnecting
           /\ listener'.accepting = NoStart \/ listener'.accepting = Head(commands)
           /\ Head(commands) \in Starts
           /\ listener' \in [up : BOOLEAN, accepting : Starts \cup {NoStart},
                               reconnecting : SUBSET Starts]
           /\ UNCHANGED <<claims, claimed, header, api, status, keys,
                          launcher, process, watched, cleanup, faults>>
<1>1. /\ listener.up
      /\ listener.accepting = NoStart
      /\ listener.reconnecting = {}
  BY DEF Take, MainIsFree
<1>2. /\ commands # <<>>
      /\ commands' = Tail(commands)
  BY DEF Take
<1>3. /\ listener'.up = listener.up
      /\ listener'.reconnecting = listener.reconnecting
      /\ listener'.accepting = NoStart \/ listener'.accepting = Head(commands)
      /\ Head(commands) \in Starts
      /\ listener' \in [up : BOOLEAN, accepting : Starts \cup {NoStart},
                          reconnecting : SUBSET Starts]
  BY HeadTailHas DEF Take, MainIsFree, Base, ListenerTypes
<1>4. UNCHANGED <<claims, claimed, header, api, status, keys, launcher,
                  process, watched, cleanup, faults>>
  BY DEF Take, ApiKeeps, ListenerKeeps, claiming, redis, running
<1> QED
  BY <1>1, <1>2, <1>3, <1>4

(* The listener starts a thread, or shows the runner there is.              *)
LEMMA AcceptDoes ==
    ASSUME Base, Accept
    PROVE  /\ listener.accepting \in Starts
           /\ listener'.up = listener.up
           /\ listener'.reconnecting = listener.reconnecting
           /\ listener'.accepting = NoStart
           /\ listener' \in [up : BOOLEAN, accepting : Starts \cup {NoStart},
                               reconnecting : SUBSET Starts]
           /\ launcher' \in [Starts -> Labels]
           /\ \A q \in Starts \ {listener.accepting} : launcher'[q] = launcher[q]
           /\ launcher'[listener.accepting] \in {launcher[listener.accepting], "preparing"}
           /\ UNCHANGED <<claims, claimed, header, api, commands, status,
                          keys, process, watched, cleanup, faults>>
<1>1. /\ listener.accepting \in Starts
      /\ listener'.up = listener.up
      /\ listener'.reconnecting = listener.reconnecting
      /\ listener'.accepting = NoStart
      /\ listener' \in [up : BOOLEAN, accepting : Starts \cup {NoStart},
                          reconnecting : SUBSET Starts]
  BY DEF Accept, Base, ListenerTypes
<1>2. /\ launcher' \in [Starts -> Labels]
      /\ \A q \in Starts \ {listener.accepting} : launcher'[q] = launcher[q]
      /\ launcher'[listener.accepting] \in {launcher[listener.accepting], "preparing"}
  BY DEF Accept, Base, RunTypes, ListenerTypes, Labels
<1>3. UNCHANGED <<claims, claimed, header, api, commands, status, keys,
                  process, watched, cleanup, faults>>
  BY DEF Accept, ApiKeeps, ListenerKeeps, claiming, redis, running
<1> QED
  BY <1>1, <1>2, <1>3

(* A launch fails before there is a process.                                *)
LEMMA LaunchFailsDoes ==
    ASSUME Base, NEW s \in Starts, LaunchFails(s)
    PROVE  /\ "launch" \in FaultKinds
           /\ faults' = faults \cup {"launch"}
           /\ launcher[s] = "preparing"
           /\ launcher' \in [Starts -> Labels]
           /\ launcher'[s] = "none"
           /\ \A q \in Starts \ {s} : launcher'[q] = launcher[q]
           /\ status' \in [Starts -> Statuses]
           /\ UNCHANGED <<claims, claimed, header, api, commands, keys,
                          listener, process, watched, cleanup>>
<1>1. /\ "launch" \in FaultKinds
      /\ faults' = faults \cup {"launch"}
  BY DEF LaunchFails, Fault
<1>2. /\ launcher[s] = "preparing"
      /\ launcher' \in [Starts -> Labels]
      /\ launcher'[s] = "none"
      /\ \A q \in Starts \ {s} : launcher'[q] = launcher[q]
  BY DEF LaunchFails, LauncherAt, LauncherGoto, Base, RunTypes, Labels
<1>3. status' \in [Starts -> Statuses]
  BY DEF LaunchFails, Base, KeyTypes, Statuses
<1>4. UNCHANGED <<claims, claimed, header, api, commands, keys, listener,
                  process, watched, cleanup>>
  BY DEF LaunchFails, ApiKeeps, ListenerKeeps, claiming, redis, running
<1> QED
  BY <1>1, <1>2, <1>3, <1>4

(* The process is there, and its stream thread.                             *)
LEMMA SpawnDoes ==
    ASSUME Base, NEW s \in Starts, Spawn(s)
    PROVE  /\ launcher[s] = "preparing"
           /\ launcher' \in [Starts -> Labels]
           /\ launcher'[s] = "spawned"
           /\ \A q \in Starts \ {s} : launcher'[q] = launcher[q]
           /\ process' \in [Starts -> {"none", "running", "exited"}]
           /\ process'[s] = "running"
           /\ \A q \in Starts \ {s} : process'[q] = process[q]
           /\ watched' = watched \cup {s}
           /\ UNCHANGED <<claims, claimed, header, api, commands, status,
                          keys, listener, cleanup, faults>>
<1>1. /\ launcher[s] = "preparing"
      /\ launcher' \in [Starts -> Labels]
      /\ launcher'[s] = "spawned"
      /\ \A q \in Starts \ {s} : launcher'[q] = launcher[q]
  BY DEF Spawn, LauncherAt, LauncherGoto, Base, RunTypes, Labels
<1>2. /\ process' \in [Starts -> {"none", "running", "exited"}]
      /\ process'[s] = "running"
      /\ \A q \in Starts \ {s} : process'[q] = process[q]
      /\ watched' = watched \cup {s}
  BY DEF Spawn, Base, RunTypes
<1>3. UNCHANGED <<claims, claimed, header, api, commands, status, keys,
                  listener, cleanup, faults>>
  BY DEF Spawn, ApiKeeps, ListenerKeeps, claiming, redis, running
<1> QED
  BY <1>1, <1>2, <1>3

(* The launching thread writes the keys of the runner.                      *)
LEMMA WriteKeysDoes ==
    ASSUME Base, NEW s \in Starts, WriteKeys(s)
    PROVE  /\ launcher[s] = "spawned"
           /\ launcher' \in [Starts -> Labels]
           /\ launcher'[s] = "listing"
           /\ \A q \in Starts \ {s} : launcher'[q] = launcher[q]
           /\ status' \in [Starts -> Statuses]
           /\ keys' \in [Starts -> SUBSET Keys]
           /\ \A q \in Starts : "claim" \in keys'[q] <=> "claim" \in keys[q]
           /\ UNCHANGED <<claims, claimed, header, api, commands, listener,
                          process, watched, cleanup, faults>>
<1>1. /\ launcher[s] = "spawned"
      /\ launcher' \in [Starts -> Labels]
      /\ launcher'[s] = "listing"
      /\ \A q \in Starts \ {s} : launcher'[q] = launcher[q]
  BY DEF WriteKeys, LauncherAt, LauncherGoto, Base, RunTypes, Labels
<1>2. status' \in [Starts -> Statuses]
  BY DEF WriteKeys, Base, KeyTypes, Statuses
<1>3. /\ keys' \in [Starts -> SUBSET Keys]
      /\ \A q \in Starts : "claim" \in keys'[q] <=> "claim" \in keys[q]
  BY DEF WriteKeys, Base, KeyTypes, Keys
<1>4. UNCHANGED <<claims, claimed, header, api, commands, listener,
                  process, watched, cleanup, faults>>
  BY DEF WriteKeys, ApiKeeps, ListenerKeeps, claiming, redis, running
<1> QED
  BY <1>1, <1>2, <1>3, <1>4

(* The launching thread lists the runner, with its claim id if it has one.  *)
LEMMA ListDoes ==
    ASSUME Base, NEW s \in Starts, List(s)
    PROVE  /\ launcher[s] = "listing"
           /\ launcher' \in [Starts -> Labels]
           /\ launcher'[s] = "activating"
           /\ \A q \in Starts \ {s} : launcher'[q] = launcher[q]
           /\ keys' \in [Starts -> SUBSET Keys]
           /\ \A q \in Starts \ {s} : keys'[q] = keys[q]
           /\ "claim" \in keys'[s] <=> "claim" \in keys[s] \/ claims[s] # "none"
           /\ UNCHANGED <<claims, claimed, header, api, commands, status,
                          listener, process, watched, cleanup, faults>>
<1>1. /\ launcher[s] = "listing"
      /\ launcher' \in [Starts -> Labels]
      /\ launcher'[s] = "activating"
      /\ \A q \in Starts \ {s} : launcher'[q] = launcher[q]
  BY DEF List, LauncherAt, LauncherGoto, Base, RunTypes, Labels
<1>2. /\ keys' \in [Starts -> SUBSET Keys]
      /\ \A q \in Starts \ {s} : keys'[q] = keys[q]
      /\ "claim" \in keys'[s] <=> "claim" \in keys[s] \/ claims[s] # "none"
  BY DEF List, Base, KeyTypes, Keys
<1>3. UNCHANGED <<claims, claimed, header, api, commands, status, listener,
                  process, watched, cleanup, faults>>
  BY DEF List, ApiKeeps, ListenerKeeps, claiming, redis, running
<1> QED
  BY <1>1, <1>2, <1>3

(* The claim is active; or that of the plan, if it was queued.              *)
LEMMA ActivateDoes ==
    ASSUME Base, NEW s \in Starts, Activate(s)
    PROVE  /\ launcher[s] = "activating"
           /\ launcher' \in [Starts -> Labels]
           /\ launcher'[s] = "done"
           /\ \A q \in Starts \ {s} : launcher'[q] = launcher[q]
           /\ claims' \in [Starts -> ClaimStates]
           /\ \A q \in Starts : claims'[q] = claims[q]
                              \/ (claims[q] # "none" /\ claims'[q] = "active" /\ (q = s \/ q \in Live))
           /\ UNCHANGED <<claimed, header, api, commands, status, keys,
                          listener, process, watched, cleanup, faults>>
<1>1. /\ launcher[s] = "activating"
      /\ launcher' \in [Starts -> Labels]
      /\ launcher'[s] = "done"
      /\ \A q \in Starts \ {s} : launcher'[q] = launcher[q]
  BY DEF Activate, LauncherAt, LauncherGoto, Base, RunTypes, Labels
<1>2. /\ claims' \in [Starts -> ClaimStates]
      /\ \A q \in Starts : claims'[q] = claims[q]
                         \/ (claims[q] # "none" /\ claims'[q] = "active" /\ (q = s \/ q \in Live))
  BY LatestIsLive DEF Activate, SetClaim, Base, ClaimTypes, ClaimStates, Live
<1>3. UNCHANGED <<claimed, header, api, commands, status, keys, listener,
                  process, watched, cleanup, faults>>
  BY DEF Activate, ApiKeeps, ListenerKeeps, claiming, redis, running
<1> QED
  BY <1>1, <1>2, <1>3

(* The process ends; if its launcher is not done, that is quick.            *)
LEMMA ExitsDoes ==
    ASSUME Base, NEW s \in Starts, Exits(s)
    PROVE  /\ process[s] = "running"
           /\ process' \in [Starts -> {"none", "running", "exited"}]
           /\ process'[s] = "exited"
           /\ \A q \in Starts \ {s} : process'[q] = process[q]
           /\ \/ launcher[s] \in {"none", "done"} /\ faults' = faults
              \/ "quick" \in FaultKinds /\ faults' = faults \cup {"quick"}
           /\ UNCHANGED <<claims, claimed, header, api, commands, status,
                          keys, listener, launcher, watched, cleanup>>
<1>1. /\ process[s] = "running"
      /\ process' \in [Starts -> {"none", "running", "exited"}]
      /\ process'[s] = "exited"
      /\ \A q \in Starts \ {s} : process'[q] = process[q]
  BY DEF Exits, Base, RunTypes
<1>2. /\ \/ launcher[s] \in {"none", "done"} /\ faults' = faults
         \/ "quick" \in FaultKinds /\ faults' = faults \cup {"quick"}
  BY DEF Exits, Fault
<1>3. UNCHANGED <<claims, claimed, header, api, commands, status, keys,
                  listener, launcher, watched, cleanup>>
  BY DEF Exits, ApiKeeps, ListenerKeeps, claiming, redis, running
<1> QED
  BY <1>1, <1>2, <1>3

(* The thread that watches a process begins its cleanup, or leaves it to    *)
(* the cleanup that has begun: only if the listener has come back.          *)
LEMMA WatcherCleansDoes ==
    ASSUME Base, NEW s \in Starts, WatcherCleans(s)
    PROVE  /\ s \in watched
           /\ process[s] = "exited"
           /\ watched' = watched \ {s}
           /\ cleanup' \in [Cleaners -> Cleaning]
           /\ \/ launcher[s] = "none" /\ cleanup' = cleanup
              \/ /\ cleanup'[<<s, "thread">>].pc = "capture"
                 /\ cleanup'[<<s, "thread">>].by = cleanup[<<s, "thread">>].by
                 /\ cleanup'[<<s, "thread">>].of = cleanup[<<s, "thread">>].of
           /\ \A d \in Cleaners \ {<<s, "thread">>} : cleanup'[d] = cleanup[d]
           /\ UNCHANGED <<claims, claimed, header, api, commands, status,
                          keys, listener, launcher, process, faults>>
<1>1. /\ s \in watched
      /\ process[s] = "exited"
      /\ watched' = watched \ {s}
  BY DEF WatcherCleans
<1>2. /\ cleanup' \in [Cleaners -> Cleaning]
      /\ \/ launcher[s] = "none" /\ cleanup' = cleanup
         \/ /\ cleanup'[<<s, "thread">>].pc = "capture"
            /\ cleanup'[<<s, "thread">>].by = cleanup[<<s, "thread">>].by
            /\ cleanup'[<<s, "thread">>].of = cleanup[<<s, "thread">>].of
      /\ \A d \in Cleaners \ {<<s, "thread">>} : cleanup'[d] = cleanup[d]
  <2>1. CASE launcher[s] = "none" /\ UNCHANGED cleanup
    BY <2>1 DEF Base, CleanupTypes
  <2>2. CASE BeginCleanup(s, "thread")
    BY <2>2, BeginDoes DEF Base
  <2> QED
    BY <2>1, <2>2 DEF WatcherCleans, LauncherAt
<1>3. UNCHANGED <<claims, claimed, header, api, commands, status, keys,
                  listener, launcher, process, faults>>
  BY DEF WatcherCleans, ApiKeeps, ListenerKeeps, claiming, redis, running
<1> QED
  BY <1>1, <1>2, <1>3

(* The main thread begins to clean up after a runner.                       *)
LEMMA MainCleansDoes ==
    ASSUME Base, NEW s \in Starts, MainCleans(s)
    PROVE  /\ listener.up
           /\ listener.accepting = NoStart /\ listener.reconnecting = {}
           /\ \A q \in Starts : cleanup[<<q, "main">>] = NotCleaning
           /\ cleanup' \in [Cleaners -> Cleaning]
           /\ cleanup'[<<s, "main">>].pc = "capture"
           /\ cleanup'[<<s, "main">>].by = cleanup[<<s, "main">>].by
           /\ cleanup'[<<s, "main">>].of = cleanup[<<s, "main">>].of
           /\ \A d \in Cleaners \ {<<s, "main">>} : cleanup'[d] = cleanup[d]
           /\ \/ launcher[s] \in {"none", "done"} /\ faults' = faults
              \/ "early" \in FaultKinds /\ faults' = faults \cup {"early"}
           /\ UNCHANGED <<claims, claimed, header, api, commands, status,
                          keys, listener, launcher, watched>>
<1>1. /\ listener.up
      /\ listener.accepting = NoStart /\ listener.reconnecting = {}
      /\ \A q \in Starts : cleanup[<<q, "main">>] = NotCleaning
  BY DEF MainCleans, MainIsFree
<1>2. /\ cleanup' \in [Cleaners -> Cleaning]
      /\ cleanup'[<<s, "main">>].pc = "capture"
      /\ cleanup'[<<s, "main">>].by = cleanup[<<s, "main">>].by
      /\ cleanup'[<<s, "main">>].of = cleanup[<<s, "main">>].of
      /\ \A d \in Cleaners \ {<<s, "main">>} : cleanup'[d] = cleanup[d]
  BY BeginDoes DEF MainCleans, Base
<1>3. \/ launcher[s] \in {"none", "done"} /\ faults' = faults
      \/ "early" \in FaultKinds /\ faults' = faults \cup {"early"}
  BY DEF MainCleans, Fault
<1>4. UNCHANGED <<claims, claimed, header, api, commands, status, keys,
                  listener, launcher, watched>>
  BY DEF MainCleans, claiming, redis
<1> QED
  BY <1>1, <1>2, <1>3, <1>4

(* It does for a stop command, which kills the process, and for a heartbeat *)
(* that finds it dead.                                                      *)
Ends(s) == Stop(s) \/ HeartbeatCleans(s)

LEMMA EndsDoes ==
    ASSUME Base, NEW s \in Starts, Ends(s)
    PROVE  /\ process[s] \in {"running", "exited"}
           /\ process' \in [Starts -> {"none", "running", "exited"}]
           /\ process'[s] = "exited"
           /\ \A q \in Starts \ {s} : process'[q] = process[q]
           /\ listener.up
           /\ listener.accepting = NoStart /\ listener.reconnecting = {}
           /\ \A q \in Starts : cleanup[<<q, "main">>] = NotCleaning
           /\ cleanup' \in [Cleaners -> Cleaning]
           /\ cleanup'[<<s, "main">>].pc = "capture"
           /\ cleanup'[<<s, "main">>].by = cleanup[<<s, "main">>].by
           /\ cleanup'[<<s, "main">>].of = cleanup[<<s, "main">>].of
           /\ \A d \in Cleaners \ {<<s, "main">>} : cleanup'[d] = cleanup[d]
           /\ \/ launcher[s] \in {"none", "done"} /\ faults' = faults
              \/ "early" \in FaultKinds /\ faults' = faults \cup {"early"}
           /\ UNCHANGED <<claims, claimed, header, api, commands, status,
                          keys, listener, launcher, watched>>
<1>1. MainCleans(s)
  BY DEF Ends, Stop, HeartbeatCleans
<1>2. /\ process[s] \in {"running", "exited"}
      /\ process' \in [Starts -> {"none", "running", "exited"}]
      /\ process'[s] = "exited"
      /\ \A q \in Starts \ {s} : process'[q] = process[q]
  BY DEF Ends, Stop, HeartbeatCleans, Base, RunTypes
<1> QED
  BY <1>1, <1>2, MainCleansDoes

(* A cleanup notes what is known of the claim.                              *)
LEMMA CaptureDoes ==
    ASSUME Base, NEW c \in Cleaners, Capture(c)
    PROVE  /\ cleanup[c].pc = "capture"
           /\ c[1] \in Starts
           /\ cleanup' \in [Cleaners -> Cleaning]
           /\ cleanup'[c].pc = "release"
           /\ cleanup'[c].of = cleanup[c].of
           /\ cleanup'[c].by = "claim" <=> "claim" \in keys[c[1]]
           /\ \A d \in Cleaners \ {c} : cleanup'[d] = cleanup[d]
           /\ status' \in [Starts -> Statuses]
           /\ keys' \in [Starts -> SUBSET Keys]
           /\ \A q \in Starts : "claim" \in keys'[q] <=> "claim" \in keys[q]
           /\ UNCHANGED <<claims, claimed, header, api, commands, listener,
                          launcher, process, watched, faults>>
<1>1. cleanup[c].pc = "capture"
  BY DEF Capture, CleanupAt
<1>2. /\ c[1] \in Starts
      /\ cleanup' \in [Cleaners -> Cleaning]
      /\ cleanup'[c].pc = "release"
      /\ cleanup'[c].of = cleanup[c].of
      /\ cleanup'[c].by = "claim" <=> "claim" \in keys[c[1]]
      /\ \A d \in Cleaners \ {c} : cleanup'[d] = cleanup[d]
  BY DEF Capture, Base, CleanupTypes, Cleaning, Cleaners
<1>3. status' \in [Starts -> Statuses]
  BY DEF Capture, Base, KeyTypes, Statuses, Cleaners
<1>4. /\ keys' \in [Starts -> SUBSET Keys]
      /\ \A q \in Starts : "claim" \in keys'[q] <=> "claim" \in keys[q]
  BY DEF Capture, Base, KeyTypes, Keys, Cleaners
<1>5. UNCHANGED <<claims, claimed, header, api, commands, listener,
                  launcher, process, watched, faults>>
  BY DEF Capture, ApiKeeps, ListenerKeeps, claiming, redis, running
<1> QED
  BY <1>1, <1>2, <1>3, <1>4, <1>5

(* What a cleanup releases: by claim id the runner's own claim, else a live *)
(* one.                                                                     *)
LEMMA ReleasableIs ==
    ASSUME Base, NEW c \in Cleaners
    PROVE  /\ Releasable(c) \in Starts \cup {NoStart}
           /\ Releasable(c) # NoStart => claims[Releasable(c)] # "none"
           /\ cleanup[c].by = "claim" => Releasable(c) = c[1]
           /\ cleanup[c].by # "claim" => Releasable(c) \in Live \cup {NoStart}
<1>1. /\ LatestLive \in Live \cup {NoStart} /\ NoStart \notin Live
      /\ LatestLive = NoStart <=> Live = {}
  BY LatestIsLive DEF Base
<1>2. c[1] \in Starts /\ Live \subseteq Starts
  BY DEF Cleaners, Live
<1>3. \A q \in Live : claims[q] # "none"
  BY DEF Live
<1>4. cleanup[c].by = "claim" => claims[c[1]] # "none"
  BY <1>2 DEF Base, ClaimsFirst, CleanersKnow
<1>5. cleanup[c].by = "claim" => Releasable(c) = c[1]
  BY DEF Releasable
<1>6. LatestOf(c[1]) \in Live \cup {NoStart}
  BY DEF LatestOf
<1>7. cleanup[c].by # "claim" => Releasable(c) \in Live \cup {NoStart}
  BY <1>1, <1>6 DEF Releasable
<1> QED
  BY <1>1, <1>2, <1>3, <1>4, <1>5, <1>7

(* A cleanup releases a claim, or finds none.                               *)
LEMMA ReleaseDoes ==
    ASSUME Base, NEW c \in Cleaners, Release(c)
    PROVE  /\ cleanup[c].pc = "release"
           /\ c[1] \in Starts
           /\ claims' \in [Starts -> ClaimStates]
           /\ \A q \in Starts \ {Releasable(c)} : claims'[q] = claims[q]
           /\ Releasable(c) # NoStart => claims'[Releasable(c)] = "released"
           /\ \A q \in Starts : claims'[q] = "none" <=> claims[q] = "none"
           /\ cleanup' \in [Cleaners -> Cleaning]
           /\ \A d \in Cleaners \ {c} : cleanup'[d] = cleanup[d]
           /\ Releasable(c) = NoStart => cleanup'[c] = NotCleaning
           /\ Releasable(c) # NoStart =>
                 /\ cleanup'[c].pc = "clear" /\ cleanup'[c].by = cleanup[c].by
                 /\ cleanup'[c].of = Releasable(c)
           /\ UNCHANGED <<claimed, header, api, commands, status, keys,
                          listener, launcher, process, watched, faults>>
<1>1. cleanup[c].pc = "release"
  BY DEF Release, CleanupAt
<1>2. /\ c[1] \in Starts
      /\ claims' \in [Starts -> ClaimStates]
      /\ \A q \in Starts \ {Releasable(c)} : claims'[q] = claims[q]
      /\ Releasable(c) # NoStart => claims'[Releasable(c)] = "released"
      /\ \A q \in Starts : claims'[q] = "none" <=> claims[q] = "none"
  BY ReleasableIs, StartAssumption DEF Release, SetClaim, Base, ClaimTypes,
     ClaimStates, Cleaners
<1>3. /\ cleanup' \in [Cleaners -> Cleaning]
      /\ \A d \in Cleaners \ {c} : cleanup'[d] = cleanup[d]
      /\ Releasable(c) = NoStart => cleanup'[c] = NotCleaning
      /\ Releasable(c) # NoStart =>
            /\ cleanup'[c].pc = "clear" /\ cleanup'[c].by = cleanup[c].by
            /\ cleanup'[c].of = Releasable(c)
  BY ReleasableIs DEF Release, NotCleaning, Base, CleanupTypes, Cleaning
<1>4. UNCHANGED <<claimed, header, api, commands, status, keys, listener,
                  launcher, process, watched, faults>>
  BY DEF Release, ApiKeeps, ListenerKeeps, claiming, redis, running
<1> QED
  BY <1>1, <1>2, <1>3, <1>4

(* A cleanup clears the header, and ends.                                   *)
LEMMA ClearHeaderDoes ==
    ASSUME Base, NEW c \in Cleaners, ClearHeader(c)
    PROVE  /\ cleanup[c].pc = "clear"
           /\ header' = NoStart
           /\ cleanup' \in [Cleaners -> Cleaning]
           /\ cleanup'[c] = NotCleaning
           /\ \A d \in Cleaners \ {c} : cleanup'[d] = cleanup[d]
           /\ UNCHANGED <<claims, claimed, api, commands, status, keys,
                          listener, launcher, process, watched, faults>>
<1>1. /\ cleanup[c].pc = "clear"
      /\ header' = NoStart
  BY DEF ClearHeader, CleanupAt
<1>2. /\ cleanup' \in [Cleaners -> Cleaning]
      /\ cleanup'[c] = NotCleaning
      /\ \A d \in Cleaners \ {c} : cleanup'[d] = cleanup[d]
  BY DEF ClearHeader, NotCleaning, Base, CleanupTypes, Cleaning
<1>3. UNCHANGED <<claims, claimed, api, commands, status, keys, listener,
                  launcher, process, watched, faults>>
  BY DEF ClearHeader, ApiKeeps, ListenerKeeps, claiming, redis, running
<1> QED
  BY <1>1, <1>2, <1>3

(* The listener dies with all its threads.                                  *)
LEMMA ListenerDiesDoes ==
    ASSUME Base, ListenerDies
    PROVE  /\ \E kind \in {"crash", "torn"} :
                 /\ kind \in FaultKinds /\ faults' = faults \cup {kind}
           /\ "torn" \notin faults' =>
                 \A s \in Starts : launcher[s] \notin {"spawned", "listing"}
           /\ {"crash", "torn"} \cap faults = {}
           /\ listener.up
           /\ ~listener'.up
           /\ listener'.accepting = NoStart
           /\ listener'.reconnecting = {}
           /\ listener' \in [up : BOOLEAN, accepting : Starts \cup {NoStart},
                               reconnecting : SUBSET Starts]
           /\ launcher' \in [Starts -> Labels]
           /\ \A q \in Starts : launcher'[q] = "none"
           /\ watched' = {}
           /\ cleanup' \in [Cleaners -> Cleaning]
           /\ \A c \in Cleaners : cleanup'[c] = NotCleaning
           /\ UNCHANGED <<claims, claimed, header, api, commands, status,
                          keys, process>>
<1>1. /\ \E kind \in {"crash", "torn"} :
            /\ kind \in FaultKinds /\ faults' = faults \cup {kind}
      /\ "torn" \notin faults' =>
            \A s \in Starts : launcher[s] \notin {"spawned", "listing"}
      /\ {"crash", "torn"} \cap faults = {}
  BY DEF ListenerDies, Fault
<1>2. /\ listener.up
      /\ ~listener'.up
      /\ listener'.accepting = NoStart
      /\ listener'.reconnecting = {}
      /\ listener' \in [up : BOOLEAN, accepting : Starts \cup {NoStart},
                          reconnecting : SUBSET Starts]
  BY DEF ListenerDies, Down
<1>3. /\ launcher' \in [Starts -> Labels]
      /\ \A q \in Starts : launcher'[q] = "none"
      /\ watched' = {}
  BY DEF ListenerDies, Labels
<1>4. /\ cleanup' \in [Cleaners -> Cleaning]
      /\ \A c \in Cleaners : cleanup'[c] = NotCleaning
  BY DEF ListenerDies, NotCleaning, Cleaning
<1>5. UNCHANGED <<claims, claimed, header, api, commands, status, keys,
                  process>>
  BY DEF ListenerDies, ApiKeeps, ListenerKeeps, claiming, redis, running
<1> QED
  BY <1>1, <1>2, <1>3, <1>4, <1>5

(* The listener is started again.                                           *)
LEMMA RestartDoes ==
    ASSUME Base, Restart
    PROVE  /\ ~listener.up
           /\ listener'.up
           /\ listener'.accepting = NoStart
           /\ listener'.reconnecting = Starts
           /\ listener' \in [up : BOOLEAN, accepting : Starts \cup {NoStart},
                               reconnecting : SUBSET Starts]
           /\ UNCHANGED <<claims, claimed, header, api, commands, status,
                          keys, launcher, process, watched, cleanup, faults>>
<1>1. /\ ~listener.up
      /\ listener'.up
      /\ listener'.accepting = NoStart
      /\ listener'.reconnecting = Starts
      /\ listener' \in [up : BOOLEAN, accepting : Starts \cup {NoStart},
                          reconnecting : SUBSET Starts]
  BY DEF Restart, Down
<1>2. UNCHANGED <<claims, claimed, header, api, commands, status, keys,
                  launcher, process, watched, cleanup, faults>>
  BY DEF Restart, ApiKeeps, ListenerKeeps, claiming, redis, running
<1> QED
  BY <1>1, <1>2

(* The listener looks at a runner after it has been started again.          *)
LEMMA ReconnectDoes ==
    ASSUME Base, NEW s \in Starts, Reconnect(s)
    PROVE  /\ s \in listener.reconnecting
           /\ listener'.up = listener.up
           /\ listener'.accepting = listener.accepting
           /\ listener'.reconnecting = listener.reconnecting \ {s}
           /\ listener' \in [up : BOOLEAN, accepting : Starts \cup {NoStart},
                               reconnecting : SUBSET Starts]
           /\ watched' = watched \/ (watched' = watched \cup {s} /\ process[s] = "running")
           /\ \A q \in Starts : cleanup[<<q, "main">>] = NotCleaning
           /\ cleanup' \in [Cleaners -> Cleaning]
           /\ \A d \in Cleaners \ {<<s, "main">>} : cleanup'[d] = cleanup[d]
           /\ \/ cleanup' = cleanup
              \/ /\ cleanup'[<<s, "main">>].pc = "capture"
                 /\ cleanup'[<<s, "main">>].by = cleanup[<<s, "main">>].by
                 /\ cleanup'[<<s, "main">>].of = cleanup[<<s, "main">>].of
           /\ UNCHANGED <<claims, claimed, header, api, commands, status,
                          keys, launcher, process, faults>>
<1>1. /\ s \in listener.reconnecting
      /\ listener'.up = listener.up
      /\ listener'.accepting = listener.accepting
      /\ listener'.reconnecting = listener.reconnecting \ {s}
      /\ listener' \in [up : BOOLEAN, accepting : Starts \cup {NoStart},
                          reconnecting : SUBSET Starts]
  BY DEF Reconnect, Base, ListenerTypes
<1>2. watched' = watched \/ (watched' = watched \cup {s} /\ process[s] = "running")
  BY DEF Reconnect
<1>3. \A q \in Starts : cleanup[<<q, "main">>] = NotCleaning
  BY DEF Reconnect
<1>4. /\ cleanup' \in [Cleaners -> Cleaning]
      /\ \A d \in Cleaners \ {<<s, "main">>} : cleanup'[d] = cleanup[d]
      /\ \/ cleanup' = cleanup
         \/ /\ cleanup'[<<s, "main">>].pc = "capture"
            /\ cleanup'[<<s, "main">>].by = cleanup[<<s, "main">>].by
            /\ cleanup'[<<s, "main">>].of = cleanup[<<s, "main">>].of
  <2>1. CASE UNCHANGED cleanup
    BY <2>1 DEF Base, CleanupTypes
  <2>2. CASE BeginCleanup(s, "main")
    BY <2>2, BeginDoes DEF Base
  <2> QED
    BY <2>1, <2>2 DEF Reconnect
<1>5. UNCHANGED <<claims, claimed, header, api, commands, status, keys,
                  launcher, process, faults>>
  BY DEF Reconnect, ApiKeeps, ListenerKeeps, claiming, redis, running
<1> QED
  BY <1>1, <1>2, <1>3, <1>4, <1>5

-----------------------------------------------------------------------------
(* Base is an invariant.                                                   *)

(* Check keeps Base.                                                        *)
LEMMA CheckKeepsBase ==
    ASSUME Base, NEW s \in Starts, Check(s)
    PROVE  Base'
<1>b. /\ ClaimTypes /\ KeyTypes /\ ListenerTypes /\ RunTypes /\ CleanupTypes
      /\ FaultTypes /\ ClaimsFirst /\ CleanersKnow /\ LaunchedOnce /\ WatchedOnce
  BY DEF Base
<1>u. UNCHANGED <<claims, claimed, header, commands, status, keys, listener,
                  launcher, process, watched, cleanup>>
  BY CheckDoes
<1>1. RunTypes'
  BY <1>b, CheckDoes DEF RunTypes
<1>2. ClaimsFirst'
  BY <1>b, CheckDoes DEF ClaimsFirst
<1>3. LaunchedOnce'
  BY <1>b, CheckDoes DEF LaunchedOnce, Untouched, Unlisted
<1>4. FaultTypes'
  BY <1>b, CheckDoes DEF FaultTypes
<1>5. /\ ClaimTypes' /\ KeyTypes' /\ ListenerTypes'
      /\ CleanupTypes' /\ CleanersKnow' /\ WatchedOnce'
  BY <1>b, <1>u DEF ClaimTypes, KeyTypes, ListenerTypes, CleanupTypes,
     CleanersKnow, WatchedOnce, Idle, Away
<1> QED
  BY <1>1, <1>2, <1>3, <1>4, <1>5 DEF Base

(* Insert keeps Base.                                                       *)
LEMMA InsertKeepsBase ==
    ASSUME Base, NEW s \in Starts, Insert(s)
    PROVE  Base'
<1>b. /\ ClaimTypes /\ KeyTypes /\ ListenerTypes /\ RunTypes /\ CleanupTypes
      /\ FaultTypes /\ ClaimsFirst /\ CleanersKnow /\ LaunchedOnce /\ WatchedOnce
  BY DEF Base
<1>u. UNCHANGED <<commands, status, keys, listener, launcher, process,
                  watched, cleanup>>
  BY InsertDoes
<1>1. ClaimTypes'
  <2>1. CASE claims'[s] = "queued" /\ claimed' = Append(claimed,
         s) /\ header' = s
    BY <1>b, <2>1, InsertDoes, AppendHas DEF ClaimTypes, ClaimsFirst
  <2>2. CASE UNCHANGED <<claims, claimed, header>>
    BY <1>b, <2>2 DEF ClaimTypes
  <2> QED
    BY <2>1, <2>2, InsertDoes
<1>2. RunTypes'
  BY <1>b, InsertDoes DEF RunTypes
<1>3. FaultTypes'
  BY <1>b, InsertDoes DEF FaultTypes
<1>4. ClaimsFirst'
  BY <1>b, InsertDoes DEF ClaimsFirst
<1>5. LaunchedOnce'
  BY <1>b, InsertDoes DEF LaunchedOnce, Untouched, Unlisted
<1>6. /\ KeyTypes' /\ ListenerTypes'
      /\ CleanupTypes' /\ CleanersKnow' /\ WatchedOnce'
  BY <1>b, <1>u DEF KeyTypes, ListenerTypes, CleanupTypes, CleanersKnow,
     WatchedOnce, Idle, Away
<1> QED
  BY <1>1, <1>2, <1>3, <1>4, <1>5, <1>6 DEF Base

(* Enqueue keeps Base.                                                      *)
LEMMA EnqueueKeepsBase ==
    ASSUME Base, NEW s \in Starts, Enqueue(s)
    PROVE  Base'
<1>b. /\ ClaimTypes /\ KeyTypes /\ ListenerTypes /\ RunTypes /\ CleanupTypes
      /\ FaultTypes /\ ClaimsFirst /\ CleanersKnow /\ LaunchedOnce /\ WatchedOnce
  BY DEF Base
<1>u. UNCHANGED <<claims, claimed, header, status, keys, listener, launcher,
                  process, watched, cleanup>>
  BY EnqueueDoes
<1>1. FaultTypes'
  BY <1>b, EnqueueDoes DEF FaultTypes
<1>2. ListenerTypes'
  <2>1. CASE commands' = Append(commands, s)
    BY <1>b, <1>u, <2>1, AppendHas DEF ListenerTypes
  <2>2. CASE commands' = commands
    BY <1>b, <1>u, <2>2 DEF ListenerTypes
  <2> QED
    BY <2>1, <2>2, EnqueueDoes
<1>3. RunTypes'
  BY <1>b, EnqueueDoes DEF RunTypes
<1>4. ClaimsFirst'
  BY <1>b, EnqueueDoes DEF ClaimsFirst
<1>5. LaunchedOnce'
  <2>1. /\ Unlisted(s) /\ commands \in Seq(Starts)
        /\ \A q \in Starts \ {s} : api'[q] = api[q]
        /\ faults \subseteq faults'
    BY <1>b, EnqueueDoes DEF ListenerTypes, Unlisted
  <2>2. CASE commands' = Append(commands, s) /\ ~Unlisted(s)'
    <3>1. /\ ~Contains(commands, s)
          /\ \A y : Contains(commands', y) <=> Contains(commands, y) \/ y = s
      BY <1>b, <2>1, <2>2, AppendHas DEF LaunchedOnce
    <3>2. Distinct(commands')
      BY <1>b, <2>1, <2>2, <3>1, AppendDistinct DEF LaunchedOnce
    <3>3. \A q \in Starts \ {s} : Unlisted(q)' => Unlisted(q)
      BY <2>1 DEF Unlisted
    <3> QED
      BY <1>b, <1>u, <2>1, <2>2, <3>1, <3>2, <3>3 DEF LaunchedOnce, Untouched
  <2>3. CASE commands' = commands
    BY <1>b, <1>u, <2>1, <2>3 DEF LaunchedOnce, Untouched, Unlisted
  <2> QED
    BY <2>2, <2>3, EnqueueDoes DEF Unlisted
<1>6. /\ ClaimTypes' /\ KeyTypes' /\ CleanupTypes'
      /\ CleanersKnow' /\ WatchedOnce'
  BY <1>b, <1>u DEF ClaimTypes, KeyTypes, CleanupTypes, CleanersKnow,
     WatchedOnce, Idle, Away
<1> QED
  BY <1>1, <1>2, <1>3, <1>4, <1>5, <1>6 DEF Base

(* ApiReleases keeps Base.                                                  *)
LEMMA ApiReleasesKeepsBase ==
    ASSUME Base, NEW s \in Starts, ApiReleases(s)
    PROVE  Base'
<1>b. /\ ClaimTypes /\ KeyTypes /\ ListenerTypes /\ RunTypes /\ CleanupTypes
      /\ FaultTypes /\ ClaimsFirst /\ CleanersKnow /\ LaunchedOnce /\ WatchedOnce
  BY DEF Base
<1>u. UNCHANGED <<claimed, header, commands, status, keys, listener, launcher,
                  process, watched, cleanup, faults>>
  BY ApiReleasesDoes
<1>1. ClaimTypes'
  BY <1>b, ApiReleasesDoes DEF ClaimTypes
<1>2. RunTypes'
  BY <1>b, ApiReleasesDoes DEF RunTypes
<1>3. ClaimsFirst'
  BY <1>b, ApiReleasesDoes DEF ClaimsFirst
<1>4. LaunchedOnce'
  BY <1>b, ApiReleasesDoes DEF LaunchedOnce, Untouched, Unlisted
<1>5. /\ KeyTypes' /\ ListenerTypes' /\ CleanupTypes'
      /\ FaultTypes' /\ CleanersKnow' /\ WatchedOnce'
  BY <1>b, <1>u DEF KeyTypes, ListenerTypes, CleanupTypes, FaultTypes,
     CleanersKnow, WatchedOnce, Idle, Away
<1> QED
  BY <1>1, <1>2, <1>3, <1>4, <1>5 DEF Base

(* ApiClears keeps Base.                                                    *)
LEMMA ApiClearsKeepsBase ==
    ASSUME Base, NEW s \in Starts, ApiClears(s)
    PROVE  Base'
<1>b. /\ ClaimTypes /\ KeyTypes /\ ListenerTypes /\ RunTypes /\ CleanupTypes
      /\ FaultTypes /\ ClaimsFirst /\ CleanersKnow /\ LaunchedOnce /\ WatchedOnce
  BY DEF Base
<1>u. UNCHANGED <<claims, claimed, commands, status, keys, listener, launcher,
                  process, watched, cleanup, faults>>
  BY ApiClearsDoes
<1>1. ClaimTypes'
  BY <1>b, ApiClearsDoes DEF ClaimTypes
<1>2. RunTypes'
  BY <1>b, ApiClearsDoes DEF RunTypes
<1>3. ClaimsFirst'
  BY <1>b, ApiClearsDoes DEF ClaimsFirst
<1>4. LaunchedOnce'
  BY <1>b, ApiClearsDoes DEF LaunchedOnce, Untouched, Unlisted
<1>5. /\ KeyTypes' /\ ListenerTypes' /\ CleanupTypes'
      /\ FaultTypes' /\ CleanersKnow' /\ WatchedOnce'
  BY <1>b, <1>u DEF KeyTypes, ListenerTypes, CleanupTypes, FaultTypes,
     CleanersKnow, WatchedOnce, Idle, Away
<1> QED
  BY <1>1, <1>2, <1>3, <1>4, <1>5 DEF Base

(* SetQueued keeps Base.                                                    *)
LEMMA SetQueuedKeepsBase ==
    ASSUME Base, NEW s \in Starts, SetQueued(s)
    PROVE  Base'
<1>b. /\ ClaimTypes /\ KeyTypes /\ ListenerTypes /\ RunTypes /\ CleanupTypes
      /\ FaultTypes /\ ClaimsFirst /\ CleanersKnow /\ LaunchedOnce /\ WatchedOnce
  BY DEF Base
<1>u. UNCHANGED <<claims, claimed, header, commands, listener, launcher,
                  process, watched, cleanup, faults>>
  BY SetQueuedDoes
<1>1. KeyTypes'
  BY <1>b, SetQueuedDoes DEF KeyTypes
<1>2. RunTypes'
  BY <1>b, SetQueuedDoes DEF RunTypes
<1>3. ClaimsFirst'
  BY <1>b, SetQueuedDoes DEF ClaimsFirst
<1>4. CleanersKnow'
  BY <1>b, SetQueuedDoes, PairsAre DEF CleanersKnow
<1>5. LaunchedOnce'
  BY <1>b, SetQueuedDoes DEF LaunchedOnce, Untouched, Unlisted
<1>6. /\ ClaimTypes' /\ ListenerTypes'
      /\ CleanupTypes' /\ FaultTypes' /\ WatchedOnce'
  BY <1>b, <1>u DEF ClaimTypes, ListenerTypes, CleanupTypes, FaultTypes,
     WatchedOnce, Idle, Away
<1> QED
  BY <1>1, <1>2, <1>3, <1>4, <1>5, <1>6 DEF Base

(* Correct keeps Base.                                                      *)
LEMMA CorrectKeepsBase ==
    ASSUME Base, NEW s \in Starts, Correct(s)
    PROVE  Base'
<1>b. /\ ClaimTypes /\ KeyTypes /\ ListenerTypes /\ RunTypes /\ CleanupTypes
      /\ FaultTypes /\ ClaimsFirst /\ CleanersKnow /\ LaunchedOnce /\ WatchedOnce
  BY DEF Base
<1>u. UNCHANGED <<claims, claimed, header, api, commands, listener, launcher,
                  process, watched, cleanup, faults>>
  BY CorrectDoes
<1>1. KeyTypes'
  BY <1>b, CorrectDoes DEF KeyTypes
<1>2. ClaimsFirst'
  BY <1>b, CorrectDoes DEF ClaimsFirst
<1>3. CleanersKnow'
  BY <1>b, CorrectDoes, PairsAre DEF CleanersKnow
<1>4. /\ ClaimTypes' /\ ListenerTypes' /\ RunTypes'
      /\ CleanupTypes' /\ FaultTypes' /\ LaunchedOnce' /\ WatchedOnce'
  BY <1>b, <1>u DEF ClaimTypes, ListenerTypes, RunTypes, CleanupTypes,
     FaultTypes, LaunchedOnce, WatchedOnce, Untouched, Unlisted, Idle, Away
<1> QED
  BY <1>1, <1>2, <1>3, <1>4 DEF Base

(* AdminReleases keeps Base.                                                *)
LEMMA AdminReleasesKeepsBase ==
    ASSUME Base, AdminReleases
    PROVE  Base'
<1>b. /\ ClaimTypes /\ KeyTypes /\ ListenerTypes /\ RunTypes /\ CleanupTypes
      /\ FaultTypes /\ ClaimsFirst /\ CleanersKnow /\ LaunchedOnce /\ WatchedOnce
  BY DEF Base
<1>u. UNCHANGED <<claimed, api, commands, status, keys, listener, launcher,
                  process, watched, cleanup>>
  BY AdminReleasesDoes
<1>1. ClaimTypes'
  BY <1>b, AdminReleasesDoes DEF ClaimTypes, Live
<1>2. FaultTypes'
  BY <1>b, AdminReleasesDoes DEF FaultTypes
<1>3. ClaimsFirst'
  BY <1>b, AdminReleasesDoes DEF ClaimsFirst, Live
<1>4. /\ KeyTypes' /\ ListenerTypes' /\ RunTypes'
      /\ CleanupTypes' /\ CleanersKnow' /\ LaunchedOnce' /\ WatchedOnce'
  <2>1. faults \subseteq faults'
    BY AdminReleasesDoes
  <2> QED
    BY <1>b, <1>u, <2>1 DEF KeyTypes, ListenerTypes, RunTypes, CleanupTypes,
       CleanersKnow, LaunchedOnce, WatchedOnce, Untouched, Unlisted, Idle, Away
<1> QED
  BY <1>1, <1>2, <1>3, <1>4 DEF Base

(* Take keeps Base.                                                         *)
LEMMA TakeKeepsBase ==
    ASSUME Base, Take
    PROVE  Base'
<1>b. /\ ClaimTypes /\ KeyTypes /\ ListenerTypes /\ RunTypes /\ CleanupTypes
      /\ FaultTypes /\ ClaimsFirst /\ CleanersKnow /\ LaunchedOnce /\ WatchedOnce
  BY DEF Base
<1>u. UNCHANGED <<claims, claimed, header, api, status, keys, launcher,
                  process, watched, cleanup, faults>>
  BY TakeDoes
<1>1. ListenerTypes'
  BY <1>b, TakeDoes, HeadTailHas DEF ListenerTypes
<1>2. LaunchedOnce'
  <2>1. /\ commands \in Seq(Starts) /\ commands # <<>> /\ commands' = Tail(commands)
        /\ listener.accepting = NoStart
        /\ listener'.accepting = NoStart \/ listener'.accepting = Head(commands)
        /\ NoStart \notin Starts
    BY <1>b, TakeDoes, StartAssumption DEF ListenerTypes
  <2>2. /\ Head(commands) \in Starts
        /\ \A y : Contains(commands, y) <=> Contains(commands', y) \/ y = Head(commands)
    BY <2>1, HeadTailHas
  <2>3. Distinct(commands') /\ ~Contains(commands', Head(commands))
    BY <1>b, <2>1, TailDistinct DEF LaunchedOnce
  <2> QED
    BY <1>b, <1>u, <2>1, <2>2, <2>3 DEF LaunchedOnce, Untouched, Unlisted
<1>3. WatchedOnce'
  BY <1>b, TakeDoes DEF WatchedOnce, Idle, Away
<1>4. /\ ClaimTypes' /\ KeyTypes' /\ RunTypes'
      /\ CleanupTypes' /\ FaultTypes' /\ ClaimsFirst' /\ CleanersKnow'
  BY <1>b, <1>u DEF ClaimTypes, KeyTypes, RunTypes, CleanupTypes, FaultTypes,
     ClaimsFirst, CleanersKnow
<1> QED
  BY <1>1, <1>2, <1>3, <1>4 DEF Base

(* Accept keeps Base.                                                       *)
LEMMA AcceptKeepsBase ==
    ASSUME Base, Accept
    PROVE  Base'
<1>b. /\ ClaimTypes /\ KeyTypes /\ ListenerTypes /\ RunTypes /\ CleanupTypes
      /\ FaultTypes /\ ClaimsFirst /\ CleanersKnow /\ LaunchedOnce /\ WatchedOnce
  BY DEF Base
<1>u. UNCHANGED <<claims, claimed, header, api, commands, status, keys,
                  process, watched, cleanup, faults>>
  BY AcceptDoes
<1>1. ListenerTypes'
  BY <1>b, AcceptDoes DEF ListenerTypes
<1>2. RunTypes'
  BY <1>b, AcceptDoes DEF RunTypes
<1>3. LaunchedOnce'
  BY <1>b, AcceptDoes, StartAssumption DEF LaunchedOnce, Untouched, Unlisted
<1>4. WatchedOnce'
  <2>1. /\ listener.accepting \in Starts /\ listener'.up = listener.up
        /\ listener'.reconnecting = listener.reconnecting
        /\ listener'.accepting = NoStart /\ NoStart \notin Starts
    BY AcceptDoes, StartAssumption
  <2>2. ~Away /\ ~Away'
    BY <1>b, <2>1 DEF WatchedOnce, Away
  <2> QED
    BY <1>b, <1>u, <2>1, <2>2 DEF WatchedOnce, Idle
<1>5. /\ ClaimTypes' /\ KeyTypes' /\ CleanupTypes'
      /\ FaultTypes' /\ ClaimsFirst' /\ CleanersKnow'
  BY <1>b, <1>u DEF ClaimTypes, KeyTypes, CleanupTypes, FaultTypes,
     ClaimsFirst, CleanersKnow
<1> QED
  BY <1>1, <1>2, <1>3, <1>4, <1>5 DEF Base

(* LaunchFails keeps Base.                                                  *)
LEMMA LaunchFailsKeepsBase ==
    ASSUME Base, NEW s \in Starts, LaunchFails(s)
    PROVE  Base'
<1>b. /\ ClaimTypes /\ KeyTypes /\ ListenerTypes /\ RunTypes /\ CleanupTypes
      /\ FaultTypes /\ ClaimsFirst /\ CleanersKnow /\ LaunchedOnce /\ WatchedOnce
  BY DEF Base
<1>u. UNCHANGED <<claims, claimed, header, api, commands, keys, listener,
                  process, watched, cleanup>>
  BY LaunchFailsDoes
<1>1. KeyTypes'
  BY <1>b, LaunchFailsDoes DEF KeyTypes
<1>2. RunTypes'
  BY <1>b, LaunchFailsDoes DEF RunTypes
<1>3. FaultTypes'
  BY <1>b, LaunchFailsDoes DEF FaultTypes
<1>4. LaunchedOnce'
  BY <1>b, LaunchFailsDoes DEF LaunchedOnce, Untouched, Unlisted
<1>5. WatchedOnce'
  BY <1>b, LaunchFailsDoes DEF WatchedOnce, Idle, Away
<1>6. /\ ClaimTypes' /\ ListenerTypes'
      /\ CleanupTypes' /\ ClaimsFirst' /\ CleanersKnow'
  BY <1>b, <1>u DEF ClaimTypes, ListenerTypes, CleanupTypes, ClaimsFirst,
     CleanersKnow
<1> QED
  BY <1>1, <1>2, <1>3, <1>4, <1>5, <1>6 DEF Base

(* Spawn keeps Base.                                                        *)
LEMMA SpawnKeepsBase ==
    ASSUME Base, NEW s \in Starts, Spawn(s)
    PROVE  Base'
<1>b. /\ ClaimTypes /\ KeyTypes /\ ListenerTypes /\ RunTypes /\ CleanupTypes
      /\ FaultTypes /\ ClaimsFirst /\ CleanersKnow /\ LaunchedOnce /\ WatchedOnce
  BY DEF Base
<1>u. UNCHANGED <<claims, claimed, header, api, commands, status, keys,
                  listener, cleanup, faults>>
  BY SpawnDoes
<1>1. RunTypes'
  BY <1>b, SpawnDoes DEF RunTypes
<1>2. CleanersKnow'
  BY <1>b, SpawnDoes, PairsAre DEF CleanersKnow
<1>3. LaunchedOnce'
  BY <1>b, SpawnDoes DEF LaunchedOnce, Untouched, Unlisted
<1>4. WatchedOnce'
  <2>1. /\ launcher[s] = "preparing" /\ process[s] = "none"
        /\ process'[s] = "running" /\ watched' = watched \cup {s}
        /\ \A q \in Starts \ {s} : process'[q] = process[q]
    BY <1>b, SpawnDoes DEF LaunchedOnce
  <2>2. ~Away /\ ~Away' /\ Idle(s, "thread")
    BY <1>b, <1>u, <2>1 DEF WatchedOnce, Away
  <2> QED
    BY <1>b, <1>u, <2>1, <2>2 DEF WatchedOnce, Idle, Away
<1>5. /\ ClaimTypes' /\ KeyTypes' /\ ListenerTypes'
      /\ CleanupTypes' /\ FaultTypes' /\ ClaimsFirst'
  BY <1>b, <1>u DEF ClaimTypes, KeyTypes, ListenerTypes, CleanupTypes,
     FaultTypes, ClaimsFirst
<1> QED
  BY <1>1, <1>2, <1>3, <1>4, <1>5 DEF Base

(* WriteKeys keeps Base.                                                    *)
LEMMA WriteKeysKeepsBase ==
    ASSUME Base, NEW s \in Starts, WriteKeys(s)
    PROVE  Base'
<1>b. /\ ClaimTypes /\ KeyTypes /\ ListenerTypes /\ RunTypes /\ CleanupTypes
      /\ FaultTypes /\ ClaimsFirst /\ CleanersKnow /\ LaunchedOnce /\ WatchedOnce
  BY DEF Base
<1>u. UNCHANGED <<claims, claimed, header, api, commands, listener, process,
                  watched, cleanup, faults>>
  BY WriteKeysDoes
<1>1. KeyTypes'
  BY <1>b, WriteKeysDoes DEF KeyTypes
<1>2. RunTypes'
  BY <1>b, WriteKeysDoes DEF RunTypes
<1>3. ClaimsFirst'
  BY <1>b, WriteKeysDoes DEF ClaimsFirst
<1>4. CleanersKnow'
  BY <1>b, WriteKeysDoes, PairsAre DEF CleanersKnow
<1>5. LaunchedOnce'
  BY <1>b, WriteKeysDoes DEF LaunchedOnce, Untouched, Unlisted
<1>6. WatchedOnce'
  BY <1>b, WriteKeysDoes DEF WatchedOnce, Idle, Away
<1>7. ClaimTypes' /\ ListenerTypes' /\ CleanupTypes' /\ FaultTypes'
  BY <1>b, <1>u DEF ClaimTypes, ListenerTypes, CleanupTypes, FaultTypes
<1> QED
  BY <1>1, <1>2, <1>3, <1>4, <1>5, <1>6, <1>7 DEF Base

(* List keeps Base.                                                         *)
LEMMA ListKeepsBase ==
    ASSUME Base, NEW s \in Starts, List(s)
    PROVE  Base'
<1>b. /\ ClaimTypes /\ KeyTypes /\ ListenerTypes /\ RunTypes /\ CleanupTypes
      /\ FaultTypes /\ ClaimsFirst /\ CleanersKnow /\ LaunchedOnce /\ WatchedOnce
  BY DEF Base
<1>u. UNCHANGED <<claims, claimed, header, api, commands, status, listener,
                  process, watched, cleanup, faults>>
  BY ListDoes
<1>1. KeyTypes'
  BY <1>b, ListDoes DEF KeyTypes
<1>2. RunTypes'
  BY <1>b, ListDoes DEF RunTypes
<1>3. ClaimsFirst'
  BY <1>b, ListDoes DEF ClaimsFirst
<1>4. CleanersKnow'
  BY <1>b, ListDoes, PairsAre DEF CleanersKnow
<1>5. LaunchedOnce'
  BY <1>b, ListDoes DEF LaunchedOnce, Untouched, Unlisted
<1>6. WatchedOnce'
  BY <1>b, ListDoes DEF WatchedOnce, Idle, Away
<1>7. ClaimTypes' /\ ListenerTypes' /\ CleanupTypes' /\ FaultTypes'
  BY <1>b, <1>u DEF ClaimTypes, ListenerTypes, CleanupTypes, FaultTypes
<1> QED
  BY <1>1, <1>2, <1>3, <1>4, <1>5, <1>6, <1>7 DEF Base

(* Activate keeps Base.                                                     *)
LEMMA ActivateKeepsBase ==
    ASSUME Base, NEW s \in Starts, Activate(s)
    PROVE  Base'
<1>b. /\ ClaimTypes /\ KeyTypes /\ ListenerTypes /\ RunTypes /\ CleanupTypes
      /\ FaultTypes /\ ClaimsFirst /\ CleanersKnow /\ LaunchedOnce /\ WatchedOnce
  BY DEF Base
<1>u. UNCHANGED <<claimed, header, api, commands, status, keys, listener,
                  process, watched, cleanup, faults>>
  BY ActivateDoes
<1>1. ClaimTypes'
  BY <1>b, ActivateDoes DEF ClaimTypes
<1>2. RunTypes'
  BY <1>b, ActivateDoes DEF RunTypes
<1>3. ClaimsFirst'
  BY <1>b, ActivateDoes DEF ClaimsFirst
<1>4. LaunchedOnce'
  BY <1>b, ActivateDoes DEF LaunchedOnce, Untouched, Unlisted
<1>5. WatchedOnce'
  BY <1>b, ActivateDoes DEF WatchedOnce, Idle, Away
<1>6. /\ KeyTypes' /\ ListenerTypes'
      /\ CleanupTypes' /\ FaultTypes' /\ CleanersKnow'
  BY <1>b, <1>u DEF KeyTypes, ListenerTypes, CleanupTypes, FaultTypes,
     CleanersKnow
<1> QED
  BY <1>1, <1>2, <1>3, <1>4, <1>5, <1>6 DEF Base

(* Exits keeps Base.                                                        *)
LEMMA ExitsKeepsBase ==
    ASSUME Base, NEW s \in Starts, Exits(s)
    PROVE  Base'
<1>b. /\ ClaimTypes /\ KeyTypes /\ ListenerTypes /\ RunTypes /\ CleanupTypes
      /\ FaultTypes /\ ClaimsFirst /\ CleanersKnow /\ LaunchedOnce /\ WatchedOnce
  BY DEF Base
<1>u. UNCHANGED <<claims, claimed, header, api, commands, status, keys,
                  listener, launcher, watched, cleanup>>
  BY ExitsDoes
<1>1. RunTypes'
  BY <1>b, ExitsDoes DEF RunTypes
<1>2. FaultTypes'
  BY <1>b, ExitsDoes DEF FaultTypes
<1>3. LaunchedOnce'
  BY <1>b, ExitsDoes DEF LaunchedOnce, Untouched, Unlisted
<1>4. WatchedOnce'
  BY <1>b, ExitsDoes DEF WatchedOnce, Idle, Away
<1>5. /\ ClaimTypes' /\ KeyTypes' /\ ListenerTypes'
      /\ CleanupTypes' /\ ClaimsFirst' /\ CleanersKnow'
  BY <1>b, <1>u DEF ClaimTypes, KeyTypes, ListenerTypes, CleanupTypes,
     ClaimsFirst, CleanersKnow
<1> QED
  BY <1>1, <1>2, <1>3, <1>4, <1>5 DEF Base

(* WatcherCleans keeps Base.                                                *)
LEMMA WatcherCleansKeepsBase ==
    ASSUME Base, NEW s \in Starts, WatcherCleans(s)
    PROVE  Base'
<1>b. /\ ClaimTypes /\ KeyTypes /\ ListenerTypes /\ RunTypes /\ CleanupTypes
      /\ FaultTypes /\ ClaimsFirst /\ CleanersKnow /\ LaunchedOnce /\ WatchedOnce
  BY DEF Base
<1>u. UNCHANGED <<claims, claimed, header, api, commands, status, keys,
                  listener, launcher, process, faults>>
  BY WatcherCleansDoes
<1>1. RunTypes'
  BY <1>b, WatcherCleansDoes DEF RunTypes
<1>2. CleanupTypes'
  BY <1>b, WatcherCleansDoes DEF CleanupTypes
<1>3. CleanersKnow'
  <2>1. \A d \in Cleaners \ {<<s, "thread">>} : cleanup'[d] = cleanup[d]
    BY WatcherCleansDoes
  <2>2. /\ cleanup[<<s, "thread">>].pc = "idle" /\ <<s, "thread">> \in Cleaners
    BY <1>b, WatcherCleansDoes, PairsAre DEF WatchedOnce, Idle
  <2>3. CASE UNCHANGED cleanup
    BY <1>b, <1>u, <2>3 DEF CleanersKnow
  <2>4. CASE /\ cleanup'[<<s, "thread">>].pc = "capture"
             /\ cleanup'[<<s, "thread">>].by = cleanup[<<s, "thread">>].by
             /\ cleanup'[<<s, "thread">>].of = cleanup[<<s, "thread">>].of
    BY <1>b, <1>u, <2>1, <2>2, <2>4 DEF CleanersKnow
  <2> QED
    BY <2>3, <2>4, WatcherCleansDoes
<1>4. WatchedOnce'
  <2>1. /\ s \in watched /\ process[s] = "exited" /\ watched' = watched \ {s}
        /\ \A d \in Cleaners \ {<<s, "thread">>} : cleanup'[d] = cleanup[d]
    BY WatcherCleansDoes
  <2>2. ASSUME NEW q \in Starts \ {s} PROVE Idle(q, "thread")' = Idle(q, "thread")
    BY <2>1, PairsAre DEF Idle
  <2>3. ASSUME NEW q \in Starts PROVE Idle(q, "main")' = Idle(q, "main")
    BY <2>1, PairsAre DEF Idle
  <2>4. listener.up /\ s \notin listener.reconnecting
    BY <1>b, <2>1 DEF WatchedOnce
  <2> HIDE DEF Idle
  <2> QED
    BY <1>b, <1>u, <2>1, <2>2, <2>3, <2>4 DEF WatchedOnce, Away
<1>5. /\ ClaimTypes' /\ KeyTypes' /\ ListenerTypes'
      /\ FaultTypes' /\ ClaimsFirst' /\ LaunchedOnce'
  BY <1>b, <1>u DEF ClaimTypes, KeyTypes, ListenerTypes, FaultTypes,
     ClaimsFirst, LaunchedOnce, Untouched, Unlisted
<1> QED
  BY <1>1, <1>2, <1>3, <1>4, <1>5 DEF Base

(* A cleanup by the main thread keeps Base.                                 *)
LEMMA EndsKeepsBase ==
    ASSUME Base, NEW s \in Starts, Ends(s)
    PROVE  Base'
<1>b. /\ ClaimTypes /\ KeyTypes /\ ListenerTypes /\ RunTypes /\ CleanupTypes
      /\ FaultTypes /\ ClaimsFirst /\ CleanersKnow /\ LaunchedOnce /\ WatchedOnce
  BY DEF Base
<1>u. UNCHANGED <<claims, claimed, header, api, commands, status, keys,
                  listener, launcher, watched>>
  BY EndsDoes
<1>1. RunTypes'
  BY <1>b, EndsDoes DEF RunTypes
<1>2. CleanupTypes'
  BY <1>b, EndsDoes DEF CleanupTypes
<1>3. CleanersKnow'
  <2>1. /\ cleanup'[<<s, "main">>].pc = "capture"
        /\ cleanup'[<<s, "main">>].by = cleanup[<<s, "main">>].by
        /\ cleanup'[<<s, "main">>].of = cleanup[<<s, "main">>].of
        /\ \A d \in Cleaners \ {<<s, "main">>} : cleanup'[d] = cleanup[d]
    BY EndsDoes
  <2>2. cleanup[<<s, "main">>] = NotCleaning /\ <<s, "main">> \in Cleaners
    BY EndsDoes, PairsAre
  <2> QED
    BY <1>b, <1>u, <2>1, <2>2, StartAssumption DEF CleanersKnow, NotCleaning
<1>4. LaunchedOnce'
  <2>1. /\ process[s] # "none" /\ process'[s] = "exited" /\ faults \subseteq faults'
        /\ \A q \in Starts \ {s} : process'[q] = process[q]
    BY EndsDoes
  <2> QED
    BY <1>b, <1>u, <2>1 DEF LaunchedOnce, Untouched, Unlisted
<1>5. WatchedOnce'
  <2>1. /\ listener.up /\ process'[s] = "exited"
        /\ \A q \in Starts \ {s} : process'[q] = process[q]
        /\ \A d \in Cleaners \ {<<s, "main">>} : cleanup'[d] = cleanup[d]
        /\ process[s] # "none"
    BY EndsDoes
  <2>2. ASSUME NEW q \in Starts PROVE Idle(q, "thread")' = Idle(q, "thread")
    BY <2>1, PairsAre DEF Idle
  <2> HIDE DEF Idle
  <2> QED
    BY <1>b, <1>u, <2>1, <2>2 DEF WatchedOnce, Away
<1>6. FaultTypes'
  <2>1. \/ faults' = faults
        \/ "early" \in FaultKinds /\ faults' = faults \cup {"early"}
    BY EndsDoes
  <2> QED
    BY <1>b, <2>1 DEF FaultTypes
<1>7. ClaimTypes' /\ KeyTypes' /\ ListenerTypes' /\ ClaimsFirst'
  BY <1>b, <1>u DEF ClaimTypes, KeyTypes, ListenerTypes, ClaimsFirst
<1> QED
  BY <1>1, <1>2, <1>3, <1>4, <1>5, <1>6, <1>7 DEF Base

(* Capture keeps Base.                                                      *)
LEMMA CaptureKeepsBase ==
    ASSUME Base, NEW c \in Cleaners, Capture(c)
    PROVE  Base'
<1>b. /\ ClaimTypes /\ KeyTypes /\ ListenerTypes /\ RunTypes /\ CleanupTypes
      /\ FaultTypes /\ ClaimsFirst /\ CleanersKnow /\ LaunchedOnce /\ WatchedOnce
  BY DEF Base
<1>u. UNCHANGED <<claims, claimed, header, api, commands, listener, launcher,
                  process, watched, faults>>
  BY CaptureDoes
<1>1. KeyTypes'
  BY <1>b, CaptureDoes DEF KeyTypes
<1>2. CleanupTypes'
  BY <1>b, CaptureDoes DEF CleanupTypes
<1>3. ClaimsFirst'
  BY <1>b, CaptureDoes DEF ClaimsFirst
<1>4. CleanersKnow'
  BY <1>b, CaptureDoes, StartAssumption, PairsAre DEF CleanersKnow, NotCleaning
<1>5. WatchedOnce'
  BY <1>b, CaptureDoes, PairsAre DEF WatchedOnce, Idle, Away, NotCleaning,
     CleanersKnow
<1>6. /\ ClaimTypes' /\ ListenerTypes'
      /\ RunTypes' /\ FaultTypes' /\ LaunchedOnce'
  BY <1>b, <1>u DEF ClaimTypes, ListenerTypes, RunTypes, FaultTypes,
     LaunchedOnce, Untouched, Unlisted
<1> QED
  BY <1>1, <1>2, <1>3, <1>4, <1>5, <1>6 DEF Base

(* Release keeps Base.                                                      *)
LEMMA ReleaseKeepsBase ==
    ASSUME Base, NEW c \in Cleaners, Release(c)
    PROVE  Base'
<1>b. /\ ClaimTypes /\ KeyTypes /\ ListenerTypes /\ RunTypes /\ CleanupTypes
      /\ FaultTypes /\ ClaimsFirst /\ CleanersKnow /\ LaunchedOnce /\ WatchedOnce
  BY DEF Base
<1>u. UNCHANGED <<claimed, header, api, commands, status, keys, listener,
                  launcher, process, watched, faults>>
  BY ReleaseDoes
<1>1. ClaimTypes'
  BY <1>b, ReleaseDoes DEF ClaimTypes
<1>2. CleanupTypes'
  BY <1>b, ReleaseDoes DEF CleanupTypes
<1>3. ClaimsFirst'
  BY <1>b, ReleaseDoes DEF ClaimsFirst
<1>4. CleanersKnow'
  <2>1. /\ \A d \in Cleaners \ {c} : cleanup'[d] = cleanup[d]
        /\ Releasable(c) = NoStart => cleanup'[c] = NotCleaning
        /\ Releasable(c) # NoStart =>
              /\ cleanup'[c].pc = "clear" /\ cleanup'[c].by = cleanup[c].by
              /\ cleanup'[c].of = Releasable(c)
    BY ReleaseDoes
  <2>2. Releasable(c) \in Starts \cup {NoStart}
    BY ReleasableIs
  <2> HIDE DEF Releasable
  <2> QED
    BY <1>b, <1>u, <2>1, <2>2 DEF CleanersKnow, NotCleaning
<1>5. WatchedOnce'
  BY <1>b, ReleaseDoes, PairsAre DEF WatchedOnce, Idle, Away, NotCleaning,
     CleanersKnow
<1>6. /\ KeyTypes' /\ ListenerTypes'
      /\ RunTypes' /\ FaultTypes' /\ LaunchedOnce'
  BY <1>b, <1>u DEF KeyTypes, ListenerTypes, RunTypes, FaultTypes,
     LaunchedOnce, Untouched, Unlisted
<1> QED
  BY <1>1, <1>2, <1>3, <1>4, <1>5, <1>6 DEF Base

(* ClearHeader keeps Base.                                                  *)
LEMMA ClearHeaderKeepsBase ==
    ASSUME Base, NEW c \in Cleaners, ClearHeader(c)
    PROVE  Base'
<1>b. /\ ClaimTypes /\ KeyTypes /\ ListenerTypes /\ RunTypes /\ CleanupTypes
      /\ FaultTypes /\ ClaimsFirst /\ CleanersKnow /\ LaunchedOnce /\ WatchedOnce
  BY DEF Base
<1>u. UNCHANGED <<claims, claimed, api, commands, status, keys, listener,
                  launcher, process, watched, faults>>
  BY ClearHeaderDoes
<1>1. ClaimTypes'
  BY <1>b, ClearHeaderDoes DEF ClaimTypes
<1>2. CleanupTypes'
  BY <1>b, ClearHeaderDoes DEF CleanupTypes
<1>3. CleanersKnow'
  BY <1>b, ClearHeaderDoes, StartAssumption, PairsAre DEF CleanersKnow,
     NotCleaning
<1>4. WatchedOnce'
  BY <1>b, ClearHeaderDoes, PairsAre DEF WatchedOnce, Idle, Away, NotCleaning,
     CleanersKnow
<1>5. /\ KeyTypes' /\ ListenerTypes' /\ RunTypes'
      /\ FaultTypes' /\ ClaimsFirst' /\ LaunchedOnce'
  BY <1>b, <1>u DEF KeyTypes, ListenerTypes, RunTypes, FaultTypes,
     ClaimsFirst, LaunchedOnce, Untouched, Unlisted
<1> QED
  BY <1>1, <1>2, <1>3, <1>4, <1>5 DEF Base

(* ListenerDies keeps Base.                                                 *)
LEMMA ListenerDiesKeepsBase ==
    ASSUME Base, ListenerDies
    PROVE  Base'
<1>b. /\ ClaimTypes /\ KeyTypes /\ ListenerTypes /\ RunTypes /\ CleanupTypes
      /\ FaultTypes /\ ClaimsFirst /\ CleanersKnow /\ LaunchedOnce /\ WatchedOnce
  BY DEF Base
<1>u. UNCHANGED <<claims, claimed, header, api, commands, status, keys,
                  process>>
  BY ListenerDiesDoes
<1>1. ListenerTypes'
  BY <1>b, ListenerDiesDoes DEF ListenerTypes
<1>2. RunTypes'
  BY <1>b, ListenerDiesDoes DEF RunTypes
<1>3. CleanupTypes'
  BY <1>b, ListenerDiesDoes DEF CleanupTypes
<1>4. FaultTypes'
  BY <1>b, ListenerDiesDoes DEF FaultTypes
<1>5. CleanersKnow'
  BY <1>b, ListenerDiesDoes, StartAssumption, PairsAre DEF CleanersKnow,
     NotCleaning, WatchedOnce, Idle
<1>6. LaunchedOnce'
  BY <1>b, ListenerDiesDoes, StartAssumption DEF LaunchedOnce, Untouched, Unlisted
<1>7. WatchedOnce'
  BY <1>b, ListenerDiesDoes, PairsAre DEF WatchedOnce, Idle, Away,
     NotCleaning, CleanersKnow
<1>8. ClaimTypes' /\ KeyTypes' /\ ClaimsFirst'
  BY <1>b, <1>u DEF ClaimTypes, KeyTypes, ClaimsFirst
<1> QED
  BY <1>1, <1>2, <1>3, <1>4, <1>5, <1>6, <1>7, <1>8 DEF Base

(* Restart keeps Base.                                                      *)
LEMMA RestartKeepsBase ==
    ASSUME Base, Restart
    PROVE  Base'
<1>b. /\ ClaimTypes /\ KeyTypes /\ ListenerTypes /\ RunTypes /\ CleanupTypes
      /\ FaultTypes /\ ClaimsFirst /\ CleanersKnow /\ LaunchedOnce /\ WatchedOnce
  BY DEF Base
<1>u. UNCHANGED <<claims, claimed, header, api, commands, status, keys,
                  launcher, process, watched, cleanup, faults>>
  BY RestartDoes
<1>1. ListenerTypes'
  BY <1>b, RestartDoes DEF ListenerTypes
<1>2. LaunchedOnce'
  BY <1>b, RestartDoes, StartAssumption DEF LaunchedOnce, Untouched, Unlisted
<1>3. WatchedOnce'
  BY <1>b, RestartDoes DEF WatchedOnce, Idle, Away
<1>4. /\ ClaimTypes' /\ KeyTypes' /\ RunTypes'
      /\ CleanupTypes' /\ FaultTypes' /\ ClaimsFirst' /\ CleanersKnow'
  BY <1>b, <1>u DEF ClaimTypes, KeyTypes, RunTypes, CleanupTypes, FaultTypes,
     ClaimsFirst, CleanersKnow
<1> QED
  BY <1>1, <1>2, <1>3, <1>4 DEF Base

(* Reconnect keeps Base.                                                    *)
LEMMA ReconnectKeepsBase ==
    ASSUME Base, NEW s \in Starts, Reconnect(s)
    PROVE  Base'
<1>b. /\ ClaimTypes /\ KeyTypes /\ ListenerTypes /\ RunTypes /\ CleanupTypes
      /\ FaultTypes /\ ClaimsFirst /\ CleanersKnow /\ LaunchedOnce /\ WatchedOnce
  BY DEF Base
<1>u. UNCHANGED <<claims, claimed, header, api, commands, status, keys,
                  launcher, process, faults>>
  BY ReconnectDoes
<1>1. ListenerTypes'
  BY <1>b, ReconnectDoes DEF ListenerTypes
<1>2. RunTypes'
  <2>1. watched' \subseteq watched \cup {s}
    BY ReconnectDoes
  <2> QED
    BY <1>b, <1>u, <2>1 DEF RunTypes
<1>3. CleanupTypes'
  BY <1>b, ReconnectDoes DEF CleanupTypes
<1>4. CleanersKnow'
  <2>1. /\ \A d \in Cleaners \ {<<s, "main">>} : cleanup'[d] = cleanup[d]
        /\ \/ cleanup' = cleanup
           \/ /\ cleanup'[<<s, "main">>].pc = "capture"
              /\ cleanup'[<<s, "main">>].by = cleanup[<<s, "main">>].by
              /\ cleanup'[<<s, "main">>].of = cleanup[<<s, "main">>].of
    BY ReconnectDoes
  <2>2. cleanup[<<s, "main">>] = NotCleaning /\ <<s, "main">> \in Cleaners
    BY ReconnectDoes, PairsAre
  <2> QED
    BY <1>b, <1>u, <2>1, <2>2, StartAssumption DEF CleanersKnow, NotCleaning
<1>5. LaunchedOnce'
  <2>1. listener'.accepting = listener.accepting
    BY ReconnectDoes
  <2> QED
    BY <1>b, <1>u, <2>1 DEF LaunchedOnce, Untouched, Unlisted
<1>6. WatchedOnce'
  <2>1. /\ s \in listener.reconnecting /\ listener'.up = listener.up
        /\ listener'.accepting = listener.accepting
        /\ listener'.reconnecting = listener.reconnecting \ {s}
    BY ReconnectDoes
  <2>2. /\ watched' \subseteq watched \cup {s}
        /\ s \in watched' => s \in watched \/ process[s] = "running"
        /\ \A d \in Cleaners \ {<<s, "main">>} : cleanup'[d] = cleanup[d]
    BY ReconnectDoes
  <2>3. ASSUME NEW q \in Starts PROVE Idle(q, "thread")' = Idle(q, "thread")
    BY <2>2, PairsAre DEF Idle
  <2>4. listener.up /\ Away
    BY <1>b, <2>1 DEF WatchedOnce, Away
  <2>5. Away' => Away
    BY <2>4
  <2> HIDE DEF Idle, Away
  <2> QED
    BY <1>b, <1>u, <2>1, <2>2, <2>3, <2>4, <2>5 DEF WatchedOnce
<1>7. ClaimTypes' /\ KeyTypes' /\ FaultTypes' /\ ClaimsFirst'
  BY <1>b, <1>u DEF ClaimTypes, KeyTypes, FaultTypes, ClaimsFirst
<1> QED
  BY <1>1, <1>2, <1>3, <1>4, <1>5, <1>6, <1>7 DEF Base

(* Base holds before there is any start.                                    *)
LEMMA BaseInit == Init => Base
<1> SUFFICES ASSUME Init PROVE Base
  OBVIOUS
<1>1. ClaimTypes /\ KeyTypes /\ RunTypes /\ FaultTypes
  BY EmptyHas DEF Init, ClaimTypes, KeyTypes, RunTypes, FaultTypes,
     ClaimStates,
     Statuses, ApiLabels, Labels
<1>2. ListenerTypes /\ listener.up /\ listener.accepting = NoStart
      /\ listener.reconnecting = {}
  <2>1. listener = [up |-> TRUE, accepting |-> NoStart, reconnecting |-> {}]
    BY DEF Init, Down
  <2>2. commands = <<>>
    BY DEF Init
  <2> QED
    BY <2>1, <2>2 DEF ListenerTypes
<1>3. \A c \in Cleaners : cleanup[c] = NotCleaning
  BY DEF Init
<1>4. CleanupTypes /\ NotCleaning.pc = "idle" /\ NotCleaning.by = "none"
      /\ NotCleaning.of = NoStart
  BY DEF Init, CleanupTypes, Cleaning, NotCleaning
<1>5. ClaimsFirst
  BY DEF Init, ClaimsFirst
<1>6. CleanersKnow
  BY <1>3, <1>4 DEF CleanersKnow
<1>7. LaunchedOnce
  <2>1. commands = <<>> /\ Distinct(commands)
    BY DEF Init, Distinct
  <2> HIDE DEF Distinct
  <2> QED
    BY <1>2, <2>1, EmptyHas, StartAssumption DEF Init, LaunchedOnce, Untouched, Unlisted
<1>8. WatchedOnce
  BY <1>2, <1>3, <1>4, PairsAre DEF Init, WatchedOnce, Idle, Away
<1> QED
  BY <1>1, <1>2, <1>4, <1>5, <1>6, <1>7, <1>8 DEF Base

(* Every step keeps Base.                                                   *)
LEMMA BaseStep == Base /\ [Next]_vars => Base'
<1> SUFFICES ASSUME Base, [Next]_vars PROVE Base'
  OBVIOUS
<1>1. CASE ListenerStep
  BY <1>1, TakeKeepsBase, AcceptKeepsBase, RestartKeepsBase, ReconnectKeepsBase
     DEF ListenerStep
<1>2. CASE ListenerDies
  BY <1>2, ListenerDiesKeepsBase
<1>3. ASSUME NEW s \in Starts, ApiStep(s) PROVE Base'
  BY <1>3, CheckKeepsBase, InsertKeepsBase, EnqueueKeepsBase,
     ApiReleasesKeepsBase, ApiClearsKeepsBase, SetQueuedKeepsBase DEF ApiStep
<1>4. ASSUME NEW s \in Starts, LauncherStep(s) PROVE Base'
  BY <1>4, SpawnKeepsBase, WriteKeysKeepsBase, ListKeepsBase, ActivateKeepsBase
     DEF LauncherStep
<1>5. ASSUME NEW s \in Starts,
             Correct(s) \/ LaunchFails(s) \/ Exits(s) \/ WatcherCleans(s) \/ Ends(s)
      PROVE  Base'
  BY <1>5, CorrectKeepsBase, LaunchFailsKeepsBase, ExitsKeepsBase,
     WatcherCleansKeepsBase, EndsKeepsBase
<1>6. ASSUME NEW c \in Cleaners, CleanupStep(c) PROVE Base'
  BY <1>6, CaptureKeepsBase, ReleaseKeepsBase, ClearHeaderKeepsBase
     DEF CleanupStep
<1>7. CASE AdminReleases
  BY <1>7, AdminReleasesKeepsBase
<1>8. CASE UNCHANGED vars
  <2>1. UNCHANGED <<claims, claimed, header, api, commands, status, keys,
                    listener,
                    launcher, process, watched, cleanup, faults>>
    BY <1>8 DEF vars, claiming, redis, running
  <2> QED
    BY <2>1 DEF Base, ClaimTypes, KeyTypes, ListenerTypes, RunTypes,
       CleanupTypes,
       FaultTypes, ClaimsFirst, CleanersKnow, LaunchedOnce, WatchedOnce, Untouched, Unlisted,
       Idle, Away
<1> QED
  BY <1>1, <1>2, <1>3, <1>4, <1>5, <1>6, <1>7, <1>8 DEF Next, Ends, Finished

(* In every state a start has at most one command, launch and process, and  *)
(* a claim behind all that is done about a claim.                           *)
THEOREM BaseInvariant == Spec => []Base
  BY BaseInit, BaseStep, PTL DEF Spec

(* Who holds a claim, and who is registered.                                *)
RegisterTypes == holder \in [Starts -> Starts] /\ registered \subseteq Starts

LEMMA RegisterStep == RegisterTypes /\ [Next]_vars => RegisterTypes'
<1> SUFFICES ASSUME RegisterTypes, [Next]_vars PROVE RegisterTypes'
  OBVIOUS
<1> USE DEF RegisterTypes
<1>1. CASE UNCHANGED <<holder, registered>>
  BY <1>1
<1>2. ASSUME NEW s \in Starts, ApiStep(s) PROVE RegisterTypes'
  BY <1>1, <1>2 DEF ApiStep, Check, Insert, Enqueue, ApiReleases, ApiClears,
     SetQueued, ApiKeeps, claiming, running
<1>3. ASSUME NEW s \in Starts, Spawn(s) \/ Reconnect(s) PROVE RegisterTypes'
  BY <1>3 DEF Spawn, Reconnect, claiming
<1>4. ASSUME NEW s \in Starts,
             \/ WriteKeys(s) \/ List(s) \/ Correct(s) \/ LaunchFails(s)
             \/ Exits(s) \/ WatcherCleans(s) \/ Ends(s)
      PROVE  RegisterTypes'
  BY <1>1, <1>4 DEF WriteKeys, List, Correct, LaunchFails, Exits, WatcherCleans,
     Ends, Stop, HeartbeatCleans, MainCleans, claiming, running
<1>5. ASSUME NEW s \in Starts, Activate(s) PROVE RegisterTypes'
  <2>1. registered' = registered
    BY <1>5 DEF Activate, running
  <2>2. \/ holder' = holder \/ \E claim : holder' = [holder EXCEPT ![claim] = s]
    BY <1>5 DEF Activate
  <2> QED
    BY <2>1, <2>2
<1>6. ASSUME NEW c \in Cleaners, CleanupStep(c) PROVE RegisterTypes'
  BY <1>6 DEF CleanupStep, Capture, Release, ClearHeader, claiming, running
<1>7. CASE Take \/ Accept \/ Restart \/ ListenerDies \/ AdminReleases
  BY <1>7 DEF Take, Accept, Restart, ListenerDies, AdminReleases, claiming, running
<1>8. CASE UNCHANGED vars
  BY <1>1, <1>8 DEF vars, claiming, running
<1> QED
  BY <1>2, <1>3, <1>4, <1>5, <1>6, <1>7, <1>8
     DEF Next, Ends, ListenerStep, LauncherStep, Finished

(* Every variable keeps its type.                                           *)
THEOREM TypeCorrect == Spec => []TypeOK
<1>1. Init => RegisterTypes
  BY DEF Init, RegisterTypes
<1>2. Base /\ RegisterTypes => TypeOK
  BY DEF Base, RegisterTypes, TypeOK, ClaimTypes, KeyTypes, ListenerTypes,
     RunTypes, CleanupTypes, FaultTypes, ClaimStates, ApiLabels, Statuses,
     Labels, Cleaning
<1> QED
  BY <1>1, <1>2, RegisterStep, BaseInvariant, PTL DEF Spec

-----------------------------------------------------------------------------
(* The header of the plan.                                                 *)

(* Somebody is about to clear the header that names this claim.             *)
Clearing(h) == \/ api[h] = "clearing"
               \/ \E c \in Cleaners : cleanup[c].pc = "clear" /\ cleanup[c].of = h

NoCrash == {"crash", "torn"} \cap faults = {}

Tidy == /\ NoCrash
        /\ header # NoStart /\ claims[header] = "released"
        => Clearing(header)

(* Who is about to clear the header goes on to do so, whatever else begins  *)
(* or ends meanwhile.                                                       *)
LEMMA ClearingStays ==
    ASSUME Base, Next, NoCrash', NEW h \in Starts, Clearing(h),
           header' # NoStart
    PROVE  Clearing(h)'
<1>b. RunTypes /\ CleanupTypes /\ CleanersKnow /\ WatchedOnce
  BY DEF Base
<1>1. ASSUME UNCHANGED <<api, cleanup>> PROVE Clearing(h)'
  BY <1>1 DEF Clearing
<1>2. ASSUME NEW s \in Starts, api[s] # "clearing", UNCHANGED cleanup,
             \A q \in Starts \ {s} : api'[q] = api[q]
      PROVE  Clearing(h)'
  BY <1>2 DEF Clearing
<1>3. ASSUME NEW d \in Cleaners, cleanup[d].pc # "clear", UNCHANGED api,
             \A c \in Cleaners \ {d} : cleanup'[c] = cleanup[c]
      PROVE  Clearing(h)'
  BY <1>3 DEF Clearing
<1>4. ASSUME NEW s \in Starts, ApiStep(s) PROVE Clearing(h)'
  <2>1. CASE Check(s)
    BY <1>2, <2>1, CheckDoes
  <2>2. CASE Insert(s)
    BY <1>2, <2>2, InsertDoes
  <2>3. CASE Enqueue(s)
    BY <1>2, <2>3, EnqueueDoes
  <2>4. CASE ApiClears(s)
    BY <2>4, ApiClearsDoes
  <2>5. CASE SetQueued(s)
    BY <1>2, <2>5, SetQueuedDoes
  <2>6. CASE ApiReleases(s)
    BY <1>2, <2>6, ApiReleasesDoes
  <2> QED
    BY <1>4, <2>1, <2>2, <2>3, <2>4, <2>5, <2>6 DEF ApiStep
<1>5. ASSUME NEW s \in Starts, WatcherCleans(s) PROVE Clearing(h)'
  <2>1. cleanup[<<s, "thread">>].pc = "idle" /\ <<s, "thread">> \in Cleaners
    BY <1>b, <1>5, WatcherCleansDoes, PairsAre DEF WatchedOnce, Idle
  <2> QED
    BY <1>3, <1>5, <2>1, WatcherCleansDoes
<1>6. ASSUME NEW s \in Starts, Ends(s) \/ Reconnect(s) PROVE Clearing(h)'
  <2>1. cleanup[<<s, "main">>] = NotCleaning
    BY <1>6, EndsDoes, ReconnectDoes
  <2>2. cleanup[<<s, "main">>].pc # "clear" /\ <<s, "main">> \in Cleaners
    <3>1. NotCleaning.pc = "idle"
      BY DEF NotCleaning
    <3> QED
      BY <2>1, <3>1, PairsAre
  <2>3. CASE Ends(s)
    BY <1>3, <2>2, <2>3, EndsDoes
  <2>4. CASE Reconnect(s)
    <3>1. /\ UNCHANGED api
          /\ \A c \in Cleaners \ {<<s, "main">>} : cleanup'[c] = cleanup[c]
      BY <2>4, ReconnectDoes
    <3> QED
      BY <1>3, <2>2, <3>1
  <2> QED
    BY <1>6, <2>3, <2>4
<1>7. ASSUME NEW c \in Cleaners, CleanupStep(c) PROVE Clearing(h)'
  BY <1>3, <1>7, CaptureDoes, ReleaseDoes, ClearHeaderDoes DEF CleanupStep
<1>8. CASE ListenerDies
  BY <1>8, ListenerDiesDoes DEF NoCrash
<1>9. CASE Take \/ Accept \/ Restart
  BY <1>1, <1>9, TakeDoes, AcceptDoes, RestartDoes
<1>10. ASSUME NEW s \in Starts,
              Correct(s) \/ LauncherStep(s) \/ LaunchFails(s) \/ Exits(s)
       PROVE  Clearing(h)'
  BY <1>1, <1>10, CorrectDoes, SpawnDoes, WriteKeysDoes, ListDoes,
     ActivateDoes,
     LaunchFailsDoes, ExitsDoes DEF LauncherStep
<1>11. CASE AdminReleases
  BY <1>11, AdminReleasesDoes
<1>12. CASE Finished
  BY <1>1, <1>12 DEF Finished, vars
<1> QED
  BY <1>4, <1>5, <1>6, <1>7, <1>8, <1>9, <1>10, <1>11, <1>12 DEF Next, Ends,
     ListenerStep

(* Who releases a claim clears the header next.                             *)
LEMMA ReleasedIsCleared ==
    ASSUME Base, Next, NEW h \in Starts,
           claims[h] # "released", claims'[h] = "released"
    PROVE  Clearing(h)' \/ header' = NoStart
<1>1. ASSUME UNCHANGED claims PROVE FALSE
  BY <1>1
<1>2. ASSUME NEW s \in Starts, ApiStep(s) PROVE Clearing(h)'
  <2>1. CASE Insert(s)
    <3>1. claims'[s] = "queued" \/ claims' = claims
      BY <2>1, InsertDoes
    <3> QED
      BY <2>1, <3>1, InsertDoes
  <2>2. CASE ApiReleases(s)
    <3>1. claims' # claims
      OBVIOUS
    <3>2. api'[s] = "clearing" /\ \A q \in Starts \ {s} : claims'[q] = claims[q]
      BY <2>2, <3>1, ApiReleasesDoes
    <3> QED
      BY <3>2 DEF Clearing
  <2> QED
    BY <1>1, <1>2, <2>1, <2>2, CheckDoes, EnqueueDoes, ApiClearsDoes, SetQueuedDoes
       DEF ApiStep
<1>3. ASSUME NEW c \in Cleaners, CleanupStep(c) PROVE Clearing(h)'
  <2>1. Release(c)
    BY <1>1, <1>3, CaptureDoes, ClearHeaderDoes DEF CleanupStep
  <2>2. h = Releasable(c) /\ Releasable(c) # NoStart
    BY <2>1, ReleaseDoes, StartAssumption
  <2>3. cleanup'[c].pc = "clear" /\ cleanup'[c].of = Releasable(c)
    BY <2>1, <2>2, ReleaseDoes
  <2> QED
    BY <2>2, <2>3 DEF Clearing
<1>4. ASSUME NEW s \in Starts, Activate(s) PROVE FALSE
  <2>1. claims'[h] = claims[h] \/ claims'[h] = "active"
    BY <1>4, ActivateDoes
  <2> QED
    BY <2>1
<1>5. CASE AdminReleases
  BY <1>5, AdminReleasesDoes
<1>6. CASE ListenerStep \/ ListenerDies
  BY <1>1, <1>6, TakeDoes, AcceptDoes, RestartDoes, ReconnectDoes,
     ListenerDiesDoes
     DEF ListenerStep
<1>7. ASSUME NEW s \in Starts,
             \/ Correct(s) \/ Spawn(s) \/ WriteKeys(s) \/ List(s)
             \/ LaunchFails(s) \/ Exits(s) \/ WatcherCleans(s) \/ Ends(s)
      PROVE  FALSE
  BY <1>1, <1>7, CorrectDoes, SpawnDoes, WriteKeysDoes, ListDoes,
     LaunchFailsDoes,
     ExitsDoes, WatcherCleansDoes, EndsDoes
<1>8. CASE Finished
  BY <1>1, <1>8 DEF Finished, vars, claiming
<1> QED
  BY <1>2, <1>3, <1>4, <1>5, <1>6, <1>7, <1>8 DEF Next, Ends, LauncherStep

(* A header that is written names a claim that is queued.                   *)
LEMMA HeaderIsWritten ==
    ASSUME Base, Next, header' # header, header' # NoStart
    PROVE  claims'[header'] = "queued"
<1>1. ASSUME UNCHANGED header PROVE FALSE
  BY <1>1
<1>2. ASSUME NEW s \in Starts, ApiStep(s) PROVE claims'[header'] = "queued"
  BY <1>1, <1>2, CheckDoes, InsertDoes, EnqueueDoes, ApiClearsDoes, ApiReleasesDoes,
     SetQueuedDoes
     DEF ApiStep
<1>3. ASSUME NEW c \in Cleaners, CleanupStep(c) PROVE FALSE
  BY <1>1, <1>3, CaptureDoes, ReleaseDoes, ClearHeaderDoes DEF CleanupStep
<1>4. CASE AdminReleases
  BY <1>4, AdminReleasesDoes
<1>5. CASE ListenerStep \/ ListenerDies
  BY <1>1, <1>5, TakeDoes, AcceptDoes, RestartDoes, ReconnectDoes,
     ListenerDiesDoes
     DEF ListenerStep
<1>6. ASSUME NEW s \in Starts,
             \/ Correct(s) \/ LauncherStep(s)
             \/ LaunchFails(s) \/ Exits(s) \/ WatcherCleans(s) \/ Ends(s)
      PROVE  FALSE
  BY <1>1, <1>6, CorrectDoes, SpawnDoes, WriteKeysDoes, ListDoes, ActivateDoes,
     LaunchFailsDoes, ExitsDoes, WatcherCleansDoes, EndsDoes DEF LauncherStep
<1>7. CASE Finished
  BY <1>1, <1>7 DEF Finished, vars, claiming
<1> QED
  BY <1>2, <1>3, <1>4, <1>5, <1>6, <1>7 DEF Next, Ends

(* Faults are not forgotten.                                                *)
LEMMA FaultsGrow == ASSUME Base, Next PROVE faults \subseteq faults'
<1>1. ASSUME NEW s \in Starts, ApiStep(s) PROVE faults \subseteq faults'
  BY <1>1, CheckDoes, InsertDoes, EnqueueDoes, ApiClearsDoes, ApiReleasesDoes, SetQueuedDoes
     DEF ApiStep
<1>2. ASSUME NEW c \in Cleaners, CleanupStep(c) PROVE faults \subseteq faults'
  BY <1>2, CaptureDoes, ReleaseDoes, ClearHeaderDoes DEF CleanupStep
<1>3. CASE AdminReleases
  BY <1>3, AdminReleasesDoes
<1>4. CASE ListenerStep \/ ListenerDies
  BY <1>4, TakeDoes, AcceptDoes, RestartDoes, ReconnectDoes, ListenerDiesDoes
     DEF ListenerStep
<1>5. ASSUME NEW s \in Starts,
             \/ Correct(s) \/ LauncherStep(s)
             \/ LaunchFails(s) \/ Exits(s) \/ WatcherCleans(s) \/ Ends(s)
      PROVE  faults \subseteq faults'
  BY <1>5, CorrectDoes, SpawnDoes, WriteKeysDoes, ListDoes, ActivateDoes,
     LaunchFailsDoes, ExitsDoes, WatcherCleansDoes, EndsDoes DEF LauncherStep
<1>6. CASE Finished
  BY <1>6 DEF Finished, vars
<1> QED
  BY <1>1, <1>2, <1>3, <1>4, <1>5, <1>6 DEF Next, Ends

(* As long as the listener does not crash, the header names a released      *)
(* claim only while somebody is about to clear it, whoever else starts,     *)
(* stops or releases meanwhile.                                             *)
THEOREM HeadersDoNotDangle == Spec => []HeaderIsNotDangling
<1>1. Init => Tidy
  BY DEF Init, Tidy
<1>2. Base /\ Base' /\ Tidy /\ [Next]_vars => Tidy'
  <2>1. CASE Next
    <3> SUFFICES ASSUME Base, Base', Tidy, NoCrash',
                        header' # NoStart, claims'[header'] = "released"
                 PROVE  Clearing(header)'
      BY DEF Tidy
    <3>1. header' = header
      BY <2>1, HeaderIsWritten
    <3>2. NoCrash
      BY <2>1, FaultsGrow DEF NoCrash
    <3>3. PICK h \in Starts : h = header
      BY <3>1 DEF Base, ClaimTypes
    <3>4. Clearing(h)'
      <4>1. CASE claims[h] = "released"
        BY <2>1, <3>1, <3>2, <3>3, <4>1, ClearingStays DEF Tidy
      <4>2. CASE claims[h] # "released"
        BY <2>1, <3>1, <3>3, <4>2, ReleasedIsCleared
      <4> QED
        BY <4>1, <4>2
    <3> QED
      BY <3>1, <3>3, <3>4 DEF Clearing
  <2>2. CASE UNCHANGED vars
    BY <2>2 DEF Tidy, NoCrash, Clearing, vars, claiming
  <2> QED
    BY <2>1, <2>2
<1>3. Tidy => HeaderIsNotDangling
  BY DEF Tidy, NoCrash, Clearing, HeaderIsNotDangling, ApiAt, CleanupAt
<1> QED
  BY <1>1, <1>2, <1>3, BaseInvariant, PTL DEF Spec

-----------------------------------------------------------------------------
(* Who has a live claim.                                                    *)

(* A listener that has not crashed has launched every process that there    *)
(* is, and its main thread cleans up after those that have ended.           *)
Launched(s) ==
    /\ launcher[s] \in {"none", "preparing"} => process[s] = "none"
    /\ ~Idle(s, "main") =>
          /\ process[s] = "exited"
          /\ launcher[s] = "done" \/ "early" \in faults
    /\ process[s] = "exited" /\ {"quick", "early"} \cap faults = {} =>
          launcher[s] = "done"

UpOnce ==
    NoCrash =>
        /\ listener.up /\ listener.reconnecting = {}
        /\ \A s \in Starts : Launched(s)

(* The faults under which claims are trusted.                               *)
Calm == \/ faults \subseteq {"launch", "race"}
        \/ faults \subseteq {"launch", "quick"}

(* The cleanup that follows the end of a process has not released yet.      *)
FirstLife(s) ==
    \/ process[s] # "exited" \/ s \in watched
    \/ cleanup[<<s, "thread">>].pc \in {"capture", "release"}

(* A start that goes on needs a claim.                                      *)
Needs(s) ==
    \/ api[s] = "enqueuing" \/ Contains(commands, s) \/ listener.accepting = s
    \/ launcher[s] \notin {"none", "done"} /\ FirstLife(s)
    \/ process[s] = "running"

(* It has one; and its cleanup goes by the claim id, or releases a claim    *)
(* of a start whose process was quick.                                      *)
Named(s) ==
    /\ Needs(s) => s \in Live
    /\ launcher[s] # "none" => claims[s] # "none"
    /\ launcher[s] \in {"activating", "done"} => "claim" \in keys[s]
    /\ s \in watched \/ cleanup[<<s, "thread">>].pc = "capture" =>
          s \in Live \/ "claim" \in keys[s]
    /\ cleanup[<<s, "main">>].pc = "release" => cleanup[<<s, "main">>].by = "claim"
    /\ cleanup[<<s, "thread">>].pc = "release" /\ cleanup[<<s, "thread">>].by # "claim"
          => /\ s \in Live /\ "quick" \in faults
             /\ s \notin registered /\ Idle(s, "main")

(* Without a race one start at a time is between the check for a live claim *)
(* and the release of its own.                                              *)
Counts(s) == api[s] = "claiming" \/ (s \in Live /\ FirstLife(s))
Single == "race" \notin faults => \A s, t \in Starts : Counts(s) /\ Counts(t) => s = t

AllNamed == \A s \in Starts : Named(s)
Trusted == Calm => AllNamed /\ Single

(* Calm was calm before.                                                    *)
LEMMA CalmBefore ==
    ASSUME Base, Next, Calm'
    PROVE  Calm /\ NoCrash' /\ NoCrash
           /\ "claim" \notin faults' /\ "admin" \notin faults'
           /\ "reply" \notin faults' /\ "early" \notin faults'
           /\ ("quick" \in faults' => "race" \notin faults')
  BY FaultsGrow DEF Calm, NoCrash

(* What Base and UpOnce say of one start.                                   *)
LEMMA OfOne ==
    ASSUME Base, UpOnce, NoCrash, NEW q \in Starts
    PROVE  /\ listener.up /\ listener.reconnecting = {}
           /\ Contains(commands, q) =>
                 listener.accepting # q /\ launcher[q] = "none" /\ process[q] = "none"
           /\ listener.accepting = q => launcher[q] = "none" /\ process[q] = "none"
           /\ \/ api[q] \in {"idle", "claiming", "enqueuing"}
              \/ api[q] = "failed" /\ "reply" \notin faults
              => /\ ~Contains(commands, q) /\ listener.accepting # q
                 /\ launcher[q] = "none" /\ process[q] = "none"
           /\ launcher[q] \in {"none", "preparing"} <=> process[q] = "none"
           /\ q \in watched => /\ process[q] # "none"
                               /\ cleanup[<<q, "thread">>].pc = "idle"
           /\ cleanup[<<q, "thread">>].pc # "idle" => process[q] = "exited"
           /\ cleanup[<<q, "main">>].pc # "idle" =>
                 /\ process[q] = "exited"
                 /\ launcher[q] = "done" \/ "early" \in faults
           /\ process[q] = "exited" /\ {"quick", "early"} \cap faults = {} =>
                 launcher[q] = "done"
           /\ api[q] \in {"idle", "claiming"} => claims[q] = "none"
<1>1. UpOnce /\ LaunchedOnce /\ WatchedOnce /\ ClaimsFirst /\ RunTypes
  BY DEF Base
<1> QED
  BY <1>1 DEF UpOnce, Launched, LaunchedOnce, WatchedOnce, ClaimsFirst,
     Untouched, Unlisted,
     Idle

(* What a claim has to do with being live.                                  *)
LEMMA LiveIs ==
    \A q \in Starts : /\ q \in Live <=> claims[q] \in {"queued", "active"}
                      /\ (q \in Live)' <=> claims'[q] \in {"queued", "active"}
  BY DEF Live

(* A start that a step leaves alone stays named.                            *)
LEMMA AloneStaysNamed ==
    ASSUME NEW q \in Starts, Named(q), faults \subseteq faults',
           api'[q] = api[q] \/ api'[q] # "enqueuing",
           Contains(commands', q) => Contains(commands, q),
           listener'.accepting = q =>
               listener.accepting = q \/ Contains(commands, q),
           launcher'[q] = launcher[q], process'[q] = process[q],
           q \in watched' <=> q \in watched,
           cleanup'[<<q, "thread">>] = cleanup[<<q, "thread">>],
           cleanup'[<<q, "main">>] = cleanup[<<q, "main">>],
           cleanup[<<q, "thread">>].pc # "idle" /\ q \in registered' => q \in registered,
           claims'[q] = claims[q] \/ (claims[q] # "none" /\ claims'[q] = "active"),
           "claim" \in keys[q] => "claim" \in keys'[q]
    PROVE  Named(q)'
<1>1. (q \in Live) => (q \in Live)'
  BY LiveIs
<1>2. claims[q] # "none" => claims'[q] # "none"
  OBVIOUS
<1>3. Needs(q)' => Needs(q)
  BY DEF Needs, FirstLife
<1> HIDE DEF Live
<1> QED
  BY <1>1, <1>2, <1>3 DEF Named, Idle

(* UpOnce holds as long as the listener does not crash.                     *)
LEMMA UpOnceStep ==
    ASSUME Base, Next, UpOnce
    PROVE  UpOnce'
<1> SUFFICES ASSUME NoCrash' PROVE UpOnce'
  BY DEF UpOnce
<1>c. NoCrash /\ faults \subseteq faults'
  BY FaultsGrow DEF NoCrash
<1>z. listener.up /\ listener.reconnecting = {} /\ \A q \in Starts : Launched(q)
  BY <1>c DEF UpOnce
<1>y. listener'.up /\ listener'.reconnecting = {}
  <2>1. ASSUME UNCHANGED listener PROVE listener'.up /\ listener'.reconnecting = {}
    BY <1>z, <2>1
  <2>2. CASE ListenerStep \/ ListenerDies
    BY <1>z, <2>2, TakeDoes, AcceptDoes, RestartDoes, ReconnectDoes,
       ListenerDiesDoes
       DEF ListenerStep, NoCrash
  <2>3. ASSUME NEW s \in Starts, ApiStep(s) \/ Correct(s) \/ LauncherStep(s)
        PROVE  UNCHANGED listener
    BY <2>3, CheckDoes, InsertDoes, EnqueueDoes, ApiClearsDoes, ApiReleasesDoes, SetQueuedDoes,
       CorrectDoes, SpawnDoes, WriteKeysDoes, ListDoes, ActivateDoes
       DEF ApiStep, LauncherStep
  <2>4. ASSUME NEW s \in Starts,
               LaunchFails(s) \/ Exits(s) \/ WatcherCleans(s) \/ Ends(s)
        PROVE  UNCHANGED listener
    BY <2>4, LaunchFailsDoes, ExitsDoes, WatcherCleansDoes, EndsDoes
  <2>5. ASSUME NEW c \in Cleaners, CleanupStep(c) PROVE UNCHANGED listener
    BY <2>5, CaptureDoes, ReleaseDoes, ClearHeaderDoes DEF CleanupStep
  <2>6. CASE AdminReleases
    BY <2>1, <2>6, AdminReleasesDoes
  <2>7. CASE Finished
    BY <2>1, <2>7 DEF Finished, vars
  <2> QED
    BY <2>1, <2>2, <2>3, <2>4, <2>5, <2>6, <2>7 DEF Next, Ends
<1> SUFFICES ASSUME NEW q \in Starts PROVE Launched(q)'
  BY <1>y DEF UpOnce
<1>u. Launched(q)
  BY <1>z
<1>o. LaunchedOnce /\ WatchedOnce
  BY DEF Base
<1>1. ASSUME NEW s \in Starts, ApiStep(s) \/ Correct(s)
      PROVE  Launched(q)'
  <2>1. UNCHANGED <<listener, launcher, process, cleanup, faults>>
        \/ UNCHANGED <<listener, launcher, process, cleanup>>
    BY <1>1, CheckDoes, InsertDoes, EnqueueDoes, ApiClearsDoes, ApiReleasesDoes, SetQueuedDoes,
       CorrectDoes DEF ApiStep
  <2> QED
    BY <1>c, <1>u, <2>1 DEF Idle, Launched
<1>2. CASE Take
  BY <1>2, <1>u, TakeDoes DEF Idle, Launched
<1>3. CASE Accept
  <2>1. \A r \in Starts : listener.accepting = r =>
            launcher[r] = "none" /\ process[r] = "none"
    BY <1>o DEF LaunchedOnce, Untouched, Unlisted
  <2>2. listener'.up = listener.up /\ listener'.reconnecting = listener.reconnecting
        /\ listener.accepting \in Starts
        /\ UNCHANGED <<process, cleanup, faults>>
    BY <1>3, AcceptDoes
  <2>3. CASE q # listener.accepting
    <3>1. launcher'[q] = launcher[q]
      BY <1>3, <2>3, AcceptDoes
    <3> QED
      BY <1>u, <2>2, <3>1 DEF Idle, Launched
  <2>4. CASE q = listener.accepting
    <3>1. launcher'[q] \in {"none", "preparing"} /\ process[q] = "none"
      BY <1>3, <2>1, <2>4, AcceptDoes
    <3> QED
      BY <1>u, <2>2, <3>1 DEF Idle, Launched
  <2> QED
    BY <2>3, <2>4
<1>4. CASE Restart \/ \E s \in Starts : Reconnect(s)
  BY <1>4, <1>z, RestartDoes, ReconnectDoes
<1>5. CASE ListenerDies
  BY <1>5, ListenerDiesDoes DEF NoCrash
<1>6. ASSUME NEW s \in Starts, LaunchFails(s) \/ LauncherStep(s)
      PROVE  Launched(q)'
  <2>1. CASE LaunchFails(s)
    <3>1. process[s] = "none" /\ launcher[s] = "preparing"
      BY <1>o, <2>1, LaunchFailsDoes DEF LaunchedOnce
    <3> QED
      BY <1>c, <1>u, <2>1, <3>1, LaunchFailsDoes DEF Idle, Launched
  <2>2. CASE Spawn(s)
    <3>1. process[s] = "none" /\ launcher[s] = "preparing"
      BY <1>o, <2>2, SpawnDoes DEF LaunchedOnce
    <3> QED
      BY <1>u, <2>2, <3>1, SpawnDoes DEF Idle, Launched
  <2>3. CASE WriteKeys(s)
    BY <1>u, <2>3, WriteKeysDoes DEF Idle, Launched
  <2>4. CASE List(s)
    BY <1>u, <2>4, ListDoes DEF Idle, Launched
  <2>5. CASE Activate(s)
    BY <1>u, <2>5, ActivateDoes DEF Idle, Launched
  <2> QED
    BY <1>6, <2>1, <2>2, <2>3, <2>4, <2>5 DEF LauncherStep
<1>7. ASSUME NEW s \in Starts, Exits(s)
      PROVE  Launched(q)'
  <2>1. /\ process[s] = "running" /\ process'[s] = "exited"
        /\ \A r \in Starts \ {s} : process'[r] = process[r]
        /\ UNCHANGED <<listener, launcher, cleanup>>
    BY <1>7, ExitsDoes
  <2>2. launcher[s] \in {"none", "done"} \/ "quick" \in faults'
    BY <1>7, ExitsDoes
  <2> QED
    BY <1>c, <1>u, <2>1, <2>2 DEF Idle, Launched
<1>8. ASSUME NEW s \in Starts, WatcherCleans(s)
      PROVE  Launched(q)'
  <2>1. UNCHANGED <<listener, launcher, process, faults>>
    BY <1>8, WatcherCleansDoes
  <2>2. cleanup'[<<q, "main">>] = cleanup[<<q, "main">>]
    BY <1>8, WatcherCleansDoes, PairsAre
  <2> QED
    BY <1>u, <2>1, <2>2 DEF Idle, Launched
<1>9. ASSUME NEW s \in Starts, Ends(s)
      PROVE  Launched(q)'
  <2>1. /\ process[s] # "none" /\ process'[s] = "exited"
        /\ launcher[s] \in {"none", "done"} \/ "early" \in faults'
        /\ \A r \in Starts \ {s} : process'[r] = process[r]
        /\ UNCHANGED <<listener, launcher>>
    BY <1>9, EndsDoes
  <2>2. launcher[s] \notin {"none", "preparing"}
    BY <1>z, <2>1 DEF Launched
  <2>3. q # s => cleanup'[<<q, "main">>] = cleanup[<<q, "main">>]
    <3>1. \A d \in Cleaners \ {<<s, "main">>} : cleanup'[d] = cleanup[d]
      BY <1>9, EndsDoes
    <3> QED
      BY <3>1, PairsAre
  <2>4. CASE q = s
    BY <2>1, <2>2, <2>4 DEF Launched
  <2>5. CASE q # s
    BY <1>c, <1>u, <2>1, <2>3, <2>5 DEF Idle, Launched
  <2> QED
    BY <2>4, <2>5
<1>10. ASSUME NEW c \in Cleaners, CleanupStep(c)
       PROVE  Launched(q)'
  <2>1. UNCHANGED <<listener, launcher, process, faults>>
    BY <1>10, CaptureDoes, ReleaseDoes, ClearHeaderDoes DEF CleanupStep
  <2>2. Idle(q, "main") => Idle(q, "main")'
    <3>1. cleanup[c].pc # "idle" /\ \A d \in Cleaners \ {c} : cleanup'[d] = cleanup[d]
      BY <1>10, CaptureDoes, ReleaseDoes, ClearHeaderDoes DEF CleanupStep
    <3> QED
      BY <3>1, PairsAre DEF Idle, Launched
  <2> HIDE DEF Idle
  <2> QED
    BY <1>u, <2>1, <2>2 DEF Launched
<1>11. CASE AdminReleases
  BY <1>11, <1>c, <1>u, AdminReleasesDoes DEF Idle, Launched
<1>12. CASE Finished
  BY <1>12, <1>u DEF Finished, vars, running, Idle, Launched
<1> QED
  BY <1>1, <1>2, <1>3, <1>4, <1>5, <1>6, <1>7, <1>8, <1>9, <1>10, <1>11, <1>12
     DEF Next, Ends, ListenerStep

(* A runner that has been struck off is not registered again.               *)
LEMMA StaysStruckOff ==
    ASSUME Base, Next, UpOnce, NoCrash', NEW q \in Starts,
           cleanup[<<q, "thread">>].pc # "idle"
    PROVE  q \in registered' => q \in registered
<1>c. NoCrash
  BY FaultsGrow DEF NoCrash
<1>1. /\ launcher[q] # "preparing" /\ listener.reconnecting = {} /\ listener.up
  BY <1>c, OfOne
<1>2. CASE ListenerDies
  BY <1>2 DEF ListenerDies
<1>3. CASE ListenerStep
  BY <1>1, <1>3 DEF ListenerStep, Take, Accept, Restart, Reconnect, running
<1>4. ASSUME NEW s \in Starts, ApiStep(s) PROVE UNCHANGED registered
  BY <1>4 DEF ApiStep, Check, Insert, Enqueue, SetQueued, ApiReleases, ApiClears,
     ApiKeeps, running
<1>5. ASSUME NEW s \in Starts, Correct(s) \/ LaunchFails(s) \/ WriteKeys(s)
                               \/ List(s) \/ Activate(s)
      PROVE  UNCHANGED registered
  BY <1>5 DEF Correct, LaunchFails, WriteKeys, List, Activate, running
<1>6. ASSUME NEW s \in Starts, Spawn(s) PROVE registered' = registered \/ q # s
  BY <1>1, <1>6, SpawnDoes
<1>7. ASSUME NEW s \in Starts, Exits(s) \/ WatcherCleans(s) \/ Ends(s)
      PROVE  UNCHANGED registered
  BY <1>7 DEF Exits, WatcherCleans, Ends, Stop, HeartbeatCleans, MainCleans
<1>8. ASSUME NEW c \in Cleaners, CleanupStep(c) PROVE registered' \subseteq registered
  BY <1>8 DEF CleanupStep, Capture, Release, ClearHeader, running
<1>9. CASE AdminReleases \/ Finished
  BY <1>9 DEF AdminReleases, Finished, vars, running
<1>10. ASSUME NEW s \in Starts, Spawn(s) PROVE q \in registered' => q \in registered
  BY <1>6, <1>10 DEF Spawn
<1> QED
  BY <1>2, <1>3, <1>4, <1>5, <1>7, <1>8, <1>9, <1>10 DEF Next, Ends, LauncherStep

(* The API keeps every start named.                                         *)
LEMMA ApiKeepsNamed ==
    ASSUME Base, Next, UpOnce, Calm, Calm', AllNamed, NEW q \in Starts,
           NEW s \in Starts, ApiStep(s) \/ Correct(s)
    PROVE  Named(q)'
<1>n. Named(q) /\ Named(s) /\ faults \subseteq faults'
  BY FaultsGrow DEF AllNamed
<1>c. NoCrash /\ NoCrash' /\ "claim" \notin faults' /\ "reply" \notin faults
  BY CalmBefore, FaultsGrow
<1>r. cleanup[<<q, "thread">>].pc # "idle" /\ q \in registered' => q \in registered
  BY <1>c, StaysStruckOff
<1>1. CASE Check(s)
  <2>1. api'[q] = api[q] \/ api'[q] # "enqueuing"
    BY <1>1, CheckDoes
  <2>2. UNCHANGED <<claims, commands, keys, listener, launcher, process,
                    watched,
                    cleanup>>
    BY <1>1, CheckDoes
  <2> QED
    BY <1>n, <1>r, <2>1, <2>2, AloneStaysNamed
<1>2. CASE Insert(s)
  <2>1. UNCHANGED <<commands, keys, listener, launcher, process, watched,
                    cleanup>>
    BY <1>2, InsertDoes
  <2>2. CASE q # s
    <3>1. api'[q] = api[q] /\ claims'[q] = claims[q]
      BY <1>2, <2>2, InsertDoes
    <3> QED
      BY <1>n, <1>r, <2>1, <3>1, AloneStaysNamed
  <2>3. CASE q = s
    <3>1. api[q] = "claiming" /\ claims'[q] = "queued"
      BY <1>2, <1>c, <2>3, InsertDoes
    <3>2. (q \in Live)'
      BY <3>1, LiveIs
    <3>3. launcher[q] = "none" /\ process[q] = "none"
      BY <1>c, <3>1, OfOne
    <3>4. cleanup[<<q, "thread">>].pc = "idle" /\ cleanup[<<q, "main">>].pc = "idle"
      BY <1>c, <3>3, OfOne
    <3> HIDE DEF Live
    <3> QED
      BY <2>1, <3>2, <3>3, <3>4 DEF Named
  <2> QED
    BY <2>2, <2>3
<1>3. CASE Enqueue(s)
  <2>1. UNCHANGED <<keys, listener, launcher, process, watched, cleanup>>
        /\ api[s] = "enqueuing"
    BY <1>3, EnqueueDoes
  <2>2. CASE q # s
    <3>1. api'[q] = api[q] /\ claims'[q] = claims[q]
      BY <1>3, <2>2, EnqueueDoes
    <3>2. Contains(commands', q) => Contains(commands, q)
      <4>1. commands' = commands \/ commands' = Append(commands, s)
        BY <1>3, EnqueueDoes
      <4>2. commands \in Seq(Starts)
        BY DEF Base, ListenerTypes
      <4>3. Contains(Append(commands, s), q) => Contains(commands, q)
        BY <2>2, <4>2, AppendHas
      <4> QED
        BY <4>1, <4>3
    <3> QED
      BY <1>n, <1>r, <2>1, <3>1, <3>2, AloneStaysNamed
  <2>3. CASE q = s
    <3>1. q \in Live
      BY <1>n, <2>1, <2>3 DEF Named, Needs
    <3>3. /\ launcher[q] = "none" /\ process[q] = "none"
          /\ ~Contains(commands, q) /\ listener.accepting # q
      BY <1>c, <2>1, <2>3, OfOne
    <3>4. /\ cleanup[<<q, "thread">>].pc = "idle"
          /\ cleanup[<<q, "main">>].pc = "idle" /\ q \notin watched
      BY <1>c, <3>3, OfOne
    <3>5. (q \in Live)' /\ claims'[q] # "none"
      BY <1>3, <3>1, LiveIs, EnqueueDoes
    <3> HIDE DEF Live
    <3> QED
      BY <2>1, <3>3, <3>4, <3>5 DEF Named
  <2> QED
    BY <2>2, <2>3
<1>4. CASE ApiClears(s)
  <2>1. api'[q] = api[q] \/ api'[q] # "enqueuing"
    BY <1>4, ApiClearsDoes
  <2>2. UNCHANGED <<claims, commands, keys, listener, launcher, process,
                    watched,
                    cleanup>>
    BY <1>4, ApiClearsDoes
  <2> QED
    BY <1>n, <1>r, <2>1, <2>2, AloneStaysNamed
<1>5. CASE SetQueued(s)
  <2>1. api'[q] = api[q] \/ api'[q] # "enqueuing"
    BY <1>5, SetQueuedDoes
  <2>2. UNCHANGED <<claims, commands, listener, launcher, process, watched,
                    cleanup>>
        /\ ("claim" \in keys[q] => "claim" \in keys'[q])
    BY <1>5, SetQueuedDoes
  <2> QED
    BY <1>n, <1>r, <2>1, <2>2, AloneStaysNamed
<1>6. CASE Correct(s)
  <2>1. UNCHANGED <<claims, api, commands, listener, launcher, process,
                    watched,
                    cleanup>>
        /\ ("claim" \in keys[q] => "claim" \in keys'[q])
    BY <1>6, CorrectDoes
  <2> QED
    BY <1>n, <1>r, <2>1, AloneStaysNamed
<1>7. CASE ApiReleases(s)
  <2>1. UNCHANGED <<commands, keys, listener, launcher, process, watched, cleanup>>
        /\ api[s] = "failed"
    BY <1>7, ApiReleasesDoes
  <2>2. CASE q # s
    <3>1. api'[q] = api[q] /\ claims'[q] = claims[q]
      BY <1>7, <2>2, ApiReleasesDoes
    <3> QED
      BY <1>n, <1>r, <2>1, <3>1, AloneStaysNamed
  <2>3. CASE q = s
    <3>1. /\ launcher[q] = "none" /\ process[q] = "none"
          /\ ~Contains(commands, q) /\ listener.accepting # q
      BY <1>c, <2>1, <2>3, OfOne
    <3>2. /\ cleanup[<<q, "thread">>].pc = "idle"
          /\ cleanup[<<q, "main">>].pc = "idle" /\ q \notin watched
      BY <1>c, <3>1, OfOne
    <3>3. api'[q] # "enqueuing"
      BY <1>7, <2>3, ApiReleasesDoes
    <3> QED
      BY <2>1, <3>1, <3>2, <3>3 DEF Named, Needs
  <2> QED
    BY <2>2, <2>3
<1> QED
  BY <1>1, <1>2, <1>3, <1>4, <1>5, <1>6, <1>7 DEF ApiStep

(* The listener's main thread keeps every start named when it takes a       *)
(* command.                                                                 *)
LEMMA MainKeepsNamed ==
    ASSUME Base, Next, UpOnce, Calm, Calm', AllNamed, NEW q \in Starts,
           Take \/ Accept
    PROVE  Named(q)'
<1>n. Named(q) /\ faults \subseteq faults'
  BY FaultsGrow DEF AllNamed
<1>c. NoCrash /\ NoCrash'
  BY CalmBefore
<1>r. cleanup[<<q, "thread">>].pc # "idle" /\ q \in registered' => q \in registered
  BY <1>c, StaysStruckOff
<1>1. CASE Take
  <2>1. UNCHANGED <<claims, api, keys, launcher, process, watched, cleanup>>
    BY <1>1, TakeDoes
  <2>2. /\ commands # <<>> /\ commands' = Tail(commands)
        /\ listener'.accepting = NoStart \/ listener'.accepting = Head(commands)
    BY <1>1, TakeDoes
  <2>3. commands \in Seq(Starts) /\ q # NoStart
    BY StartAssumption DEF Base, ListenerTypes
  <2>4. \A y : Contains(commands, y) <=> Contains(Tail(commands), y) \/ y = Head(commands)
    BY <2>2, <2>3, HeadTailHas
  <2>5. /\ Contains(commands', q) => Contains(commands, q)
        /\ listener'.accepting = q => Contains(commands, q)
    BY <2>2, <2>3, <2>4
  <2> QED
    BY <1>n, <1>r, <2>1, <2>5, AloneStaysNamed
<1>2. CASE Accept
  <2>1. /\ UNCHANGED <<claims, api, commands, keys, process, watched, cleanup>>
        /\ listener'.accepting = NoStart /\ q # NoStart
    BY <1>2, AcceptDoes, StartAssumption
  <2>2. CASE q # listener.accepting
    <3>1. launcher'[q] = launcher[q]
      BY <1>2, <2>2, AcceptDoes
    <3> QED
      BY <1>n, <1>r, <2>1, <3>1, AloneStaysNamed
  <2>3. CASE q = listener.accepting
    <3>1. q \in Live
      BY <1>n, <2>3 DEF Named, Needs
    <3>2. (q \in Live)' /\ claims'[q] # "none"
      BY <2>1, <3>1, LiveIs
    <3>3. launcher[q] = "none" /\ process[q] = "none"
      BY <1>c, <2>3, OfOne
    <3>4. cleanup[<<q, "thread">>].pc = "idle" /\ cleanup[<<q, "main">>].pc = "idle"
      BY <1>c, <3>3, OfOne
    <3>5. launcher'[q] \in {"none", "preparing"}
      BY <1>2, <2>3, <3>3, AcceptDoes
    <3> HIDE DEF Live
    <3> QED
      BY <2>1, <3>2, <3>4, <3>5 DEF Named
  <2> QED
    BY <2>2, <2>3
<1> QED
  BY <1>1, <1>2

(* The thread that launches a runner keeps every start named.               *)
LEMMA LauncherKeepsNamed ==
    ASSUME Base, Next, UpOnce, Calm, Calm', AllNamed, NEW q \in Starts,
           NEW s \in Starts, LaunchFails(s) \/ LauncherStep(s)
    PROVE  Named(q)'
<1>n. Named(q) /\ faults \subseteq faults'
  BY FaultsGrow DEF AllNamed
<1>c. NoCrash /\ NoCrash'
  BY CalmBefore
<1>r. cleanup[<<q, "thread">>].pc # "idle" /\ q \in registered' => q \in registered
  BY <1>c, StaysStruckOff
<1>1. CASE LaunchFails(s)
  <2>1. UNCHANGED <<claims, api, commands, keys, listener, process, watched,
                    cleanup>>
    BY <1>1, LaunchFailsDoes
  <2>2. CASE q # s
    <3>1. launcher'[q] = launcher[q]
      BY <1>1, <2>2, LaunchFailsDoes
    <3> QED
      BY <1>n, <1>r, <2>1, <3>1, AloneStaysNamed
  <2>3. CASE q = s
    <3>1. launcher[q] = "preparing" /\ launcher'[q] = "none"
      BY <1>1, <2>3, LaunchFailsDoes
    <3>2. Needs(q)' => Needs(q)
      BY <2>1, <3>1 DEF Needs, FirstLife
    <3>3. (q \in Live) => (q \in Live)'
      BY <2>1, LiveIs
    <3> HIDE DEF Live
    <3> QED
      BY <1>n, <1>r, <2>1, <3>1, <3>2, <3>3 DEF Named, Idle
  <2> QED
    BY <2>2, <2>3
<1>2. CASE Spawn(s)
  <2>1. UNCHANGED <<claims, api, commands, keys, listener, cleanup, faults>>
    BY <1>2, SpawnDoes
  <2>2. CASE q # s
    <3>1. /\ launcher'[q] = launcher[q] /\ process'[q] = process[q]
          /\ q \in watched' <=> q \in watched
      BY <1>2, <2>2, SpawnDoes
    <3> QED
      BY <1>n, <1>r, <2>1, <3>1, AloneStaysNamed
  <2>3. CASE q = s
    <3>1. launcher[q] = "preparing" /\ launcher'[q] = "spawned"
      BY <1>2, <2>3, SpawnDoes
    <3>2. process[q] = "none"
      BY <1>c, <3>1, OfOne
    <3>3. q \in Live
      BY <1>n, <3>1, <3>2 DEF Named, Needs, FirstLife
    <3>4. (q \in Live)' /\ claims'[q] # "none"
      BY <2>1, <3>3, LiveIs
    <3>5. cleanup[<<q, "thread">>].pc = "idle" /\ cleanup[<<q, "main">>].pc = "idle"
      BY <1>c, <3>2, OfOne
    <3> HIDE DEF Live
    <3> QED
      BY <2>1, <3>1, <3>4, <3>5 DEF Named
  <2> QED
    BY <2>2, <2>3
<1>3. CASE WriteKeys(s)
  <2>1. UNCHANGED <<claims, api, commands, listener, process, watched,
                    cleanup, faults>>
        /\ ("claim" \in keys[q] <=> "claim" \in keys'[q])
    BY <1>3, WriteKeysDoes
  <2>2. CASE q # s
    <3>1. launcher'[q] = launcher[q]
      BY <1>3, <2>2, WriteKeysDoes
    <3> QED
      BY <1>n, <1>r, <2>1, <3>1, AloneStaysNamed
  <2>3. CASE q = s
    <3>1. launcher[q] = "spawned" /\ launcher'[q] = "listing"
      BY <1>3, <2>3, WriteKeysDoes
    <3>2. Needs(q)' => Needs(q)
      BY <2>1, <3>1 DEF Needs, FirstLife
    <3>3. (q \in Live) => (q \in Live)'
      BY <2>1, LiveIs
    <3> HIDE DEF Live
    <3> QED
      BY <1>n, <1>r, <2>1, <3>1, <3>2, <3>3 DEF Named, Idle
  <2> QED
    BY <2>2, <2>3
<1>4. CASE List(s)
  <2>1. UNCHANGED <<claims, api, commands, listener, process, watched,
                    cleanup, faults>>
    BY <1>4, ListDoes
  <2>2. CASE q # s
    <3>1. launcher'[q] = launcher[q] /\ keys'[q] = keys[q]
      BY <1>4, <2>2, ListDoes
    <3> QED
      BY <1>n, <1>r, <2>1, <3>1, AloneStaysNamed
  <2>3. CASE q = s
    <3>1. launcher[q] = "listing" /\ launcher'[q] = "activating"
      BY <1>4, <2>3, ListDoes
    <3>2. claims[q] # "none"
      BY <1>n, <1>r, <3>1 DEF Named
    <3>3. "claim" \in keys'[q]
      BY <1>4, <2>3, <3>2, ListDoes
    <3>4. Needs(q)' => Needs(q)
      BY <2>1, <3>1 DEF Needs, FirstLife
    <3>5. (q \in Live) => (q \in Live)'
      BY <2>1, LiveIs
    <3> HIDE DEF Live
    <3> QED
      BY <1>n, <1>r, <2>1, <3>1, <3>2, <3>3, <3>4, <3>5 DEF Named, Idle
  <2> QED
    BY <2>2, <2>3
<1>5. CASE Activate(s)
  <2>1. UNCHANGED <<api, commands, keys, listener, process, watched, cleanup,
                    faults>>
    BY <1>5, ActivateDoes
  <2>2. claims'[q] = claims[q] \/ (claims[q] # "none" /\ claims'[q] = "active")
    BY <1>5, ActivateDoes
  <2>3. CASE q # s
    <3>1. launcher'[q] = launcher[q]
      BY <1>5, <2>3, ActivateDoes
    <3> QED
      BY <1>n, <1>r, <2>1, <2>2, <3>1, AloneStaysNamed
  <2>4. CASE q = s
    <3>1. launcher[q] = "activating" /\ launcher'[q] = "done"
      BY <1>5, <2>4, ActivateDoes
    <3>2. Needs(q)' => Needs(q)
      BY <2>1, <3>1 DEF Needs, FirstLife
    <3>3. (q \in Live) => (q \in Live)'
      BY <2>2, LiveIs
    <3>4. claims[q] # "none" => claims'[q] # "none"
      BY <2>2
    <3> HIDE DEF Live
    <3> QED
      BY <1>n, <1>r, <2>1, <3>1, <3>2, <3>3, <3>4 DEF Named, Idle
  <2> QED
    BY <2>3, <2>4
<1> QED
  BY <1>1, <1>2, <1>3, <1>4, <1>5 DEF LauncherStep

(* The end of a process keeps every start named.                            *)
LEMMA EndKeepsNamed ==
    ASSUME Base, Next, UpOnce, Calm, Calm', AllNamed, NEW q \in Starts,
           NEW s \in Starts, Exits(s) \/ WatcherCleans(s) \/ Ends(s)
    PROVE  Named(q)'
<1>n. Named(q) /\ faults \subseteq faults'
  BY FaultsGrow DEF AllNamed
<1>c. NoCrash /\ NoCrash'
  BY CalmBefore
<1>r. cleanup[<<q, "thread">>].pc # "idle" /\ q \in registered' => q \in registered
  BY <1>c, StaysStruckOff
<1>1. CASE Exits(s)
  <2>1. UNCHANGED <<claims, api, commands, keys, listener, launcher, watched,
                    cleanup>>
    BY <1>1, ExitsDoes
  <2>2. CASE q # s
    <3>1. process'[q] = process[q]
      BY <1>1, <2>2, ExitsDoes
    <3> QED
      BY <1>n, <1>r, <2>1, <3>1, AloneStaysNamed
  <2>3. CASE q = s
    <3>1. process[q] = "running" /\ process'[q] = "exited"
      BY <1>1, <2>3, ExitsDoes
    <3>2. Needs(q)' => Needs(q)
      BY <2>1, <3>1 DEF Needs, FirstLife
    <3>3. (q \in Live) => (q \in Live)'
      BY <2>1, LiveIs
    <3> HIDE DEF Live
    <3> QED
      BY <1>n, <1>r, <2>1, <3>2, <3>3 DEF Named, Idle
  <2> QED
    BY <2>2, <2>3
<1>2. CASE WatcherCleans(s)
  <2>1. UNCHANGED <<claims, api, commands, keys, listener, launcher, process,
                    faults>>
    BY <1>2, WatcherCleansDoes
  <2>2. \A d \in Cleaners \ {<<s, "thread">>} : cleanup'[d] = cleanup[d]
    BY <1>2, WatcherCleansDoes
  <2>3. cleanup'[<<q, "main">>] = cleanup[<<q, "main">>]
    BY <2>2, PairsAre
  <2>4. CASE q # s
    <3>1. cleanup'[<<q, "thread">>] = cleanup[<<q, "thread">>]
      BY <2>2, <2>4, PairsAre
    <3>2. q \in watched' <=> q \in watched
      BY <1>2, <2>4, WatcherCleansDoes
    <3> QED
      BY <1>n, <1>r, <2>1, <2>3, <3>1, <3>2, AloneStaysNamed
  <2>5. CASE q = s
    <3>0. process[q] = "exited"
      BY <1>2, <2>5, WatcherCleansDoes
    <3>1. /\ q \in watched /\ cleanup'[<<q, "thread">>].pc = "capture"
          /\ watched' = watched \ {q}
      BY <1>2, <1>c, <2>5, <3>0, WatcherCleansDoes, OfOne
    <3>2. Needs(q)' => Needs(q)
      BY <2>1, <3>1 DEF Needs, FirstLife
    <3>3. (q \in Live) => (q \in Live)'
      BY <2>1, LiveIs
    <3> HIDE DEF Live
    <3> QED
      BY <1>n, <1>r, <2>1, <2>3, <3>1, <3>2, <3>3 DEF Named, Idle
  <2> QED
    BY <2>4, <2>5
<1>3. CASE Ends(s)
  <2>1. UNCHANGED <<claims, api, commands, keys, listener, launcher, watched>>
    BY <1>3, EndsDoes
  <2>2. \A d \in Cleaners \ {<<s, "main">>} : cleanup'[d] = cleanup[d]
    BY <1>3, EndsDoes
  <2>3. cleanup'[<<q, "thread">>] = cleanup[<<q, "thread">>]
    BY <2>2, PairsAre
  <2>4. CASE q # s
    <3>1. cleanup'[<<q, "main">>] = cleanup[<<q, "main">>]
      BY <2>2, <2>4, PairsAre
    <3>2. \A r \in Starts \ {s} : process'[r] = process[r]
      BY <1>3, EndsDoes
    <3>3. process'[q] = process[q]
      BY <2>4, <3>2
    <3> QED
      BY <1>n, <1>r, <2>1, <2>3, <3>1, <3>3, AloneStaysNamed
  <2>5. CASE q = s
    <3>1. /\ cleanup'[<<q, "main">>].pc = "capture"
          /\ process'[q] = "exited" /\ launcher[q] \in {"none", "done"}
      <4>1. "early" \notin faults'
        BY CalmBefore
      <4> QED
        BY <1>3, <2>5, <4>1, EndsDoes
    <3>2. Needs(q)' => Needs(q)
      BY <2>1, <3>1 DEF Needs, FirstLife
    <3>3. (q \in Live) => (q \in Live)'
      BY <2>1, LiveIs
    <3>4. q \in registered
      BY <1>3, <2>5 DEF Ends, Stop, HeartbeatCleans, MainCleans
    <3>5. ~(/\ cleanup[<<q, "thread">>].pc = "release"
            /\ cleanup[<<q, "thread">>].by # "claim")
      BY <1>n, <3>4 DEF Named
    <3> HIDE DEF Live
    <3> QED
      BY <1>n, <2>1, <2>3, <3>1, <3>2, <3>3, <3>5 DEF Named
  <2> QED
    BY <2>4, <2>5
<1> QED
  BY <1>1, <1>2, <1>3

(* What a cleanup captures keeps every start named: the main thread finds   *)
(* a claim id, and so does the thread of a process that was not quick.      *)
LEMMA CaptureKeepsNamed ==
    ASSUME Base, Next, UpOnce, Calm, Calm', AllNamed, NEW q \in Starts,
           NEW c \in Cleaners, Capture(c)
    PROVE  Named(q)'
<1>n. /\ Named(q) /\ NoCrash /\ NoCrash'
      /\ "early" \notin faults /\ "reply" \notin faults
  BY CalmBefore, FaultsGrow DEF AllNamed
<1>r. cleanup[<<q, "thread">>].pc # "idle" /\ q \in registered' => q \in registered
  BY <1>n, StaysStruckOff
<1>1. UNCHANGED <<claims, api, commands, listener, launcher, process, watched,
                  faults>>
      /\ ("claim" \in keys[q] <=> "claim" \in keys'[q])
  BY CaptureDoes
<1>2. /\ cleanup[c].pc = "capture" /\ cleanup'[c].pc = "release"
      /\ cleanup'[c].by = "claim" <=> "claim" \in keys[c[1]]
      /\ \A d \in Cleaners \ {c} : cleanup'[d] = cleanup[d]
  BY CaptureDoes
<1>3. (q \in Live) => (q \in Live)'
  BY <1>1, LiveIs
<1>4. CASE c # <<q, "thread">> /\ c # <<q, "main">>
  <2>1. /\ cleanup'[<<q, "thread">>] = cleanup[<<q, "thread">>]
        /\ cleanup'[<<q, "main">>] = cleanup[<<q, "main">>]
    BY <1>2, <1>4, PairsAre
  <2> QED
    BY <1>n, <1>r, <1>1, <2>1, AloneStaysNamed
<1>5. CASE c = <<q, "thread">>
  <2>1. cleanup'[<<q, "main">>] = cleanup[<<q, "main">>] /\ c[1] = q
    BY <1>2, <1>5, PairsAre
  <2>5. q \notin registered'
    BY <2>1 DEF Capture
  <2>2. /\ process[q] = "exited" /\ q \notin watched
        /\ "claim" \notin keys[q] => launcher[q] # "done"
    BY <1>n, <1>2, <1>5, OfOne DEF Named
  <2>3. "claim" \notin keys[q] =>
            q \in Live /\ cleanup[<<q, "main">>].pc = "idle" /\ "quick" \in faults
    BY <1>n, <1>2, <1>5, <2>2, OfOne DEF Named
  <2>4. Needs(q)' => Needs(q)
    BY <1>1, <1>2, <1>5 DEF Needs, FirstLife
  <2> HIDE DEF Live
  <2> QED
    BY <1>n, <1>1, <1>2, <1>3, <1>5, <2>1, <2>2, <2>3, <2>4, <2>5 DEF Named, Idle
<1>6. CASE c = <<q, "main">>
  <2>1. cleanup'[<<q, "thread">>] = cleanup[<<q, "thread">>] /\ c[1] = q
    BY <1>2, <1>6, PairsAre
  <2>2. launcher[q] = "done"
    BY <1>n, <1>2, <1>6, OfOne
  <2>3. "claim" \in keys[q]
    BY <1>n, <2>2 DEF Named
  <2>4. Needs(q)' => Needs(q)
    BY <1>1, <2>1 DEF Needs, FirstLife
  <2> HIDE DEF Live
  <2> QED
    BY <1>n, <1>r, <1>1, <1>2, <1>3, <1>6, <2>1, <2>3, <2>4 DEF Named, Idle
<1> QED
  BY <1>4, <1>5, <1>6

(* The claim that a cleanup releases is its own; or that of a start whose   *)
(* cleanup is over, and whose claim was activated after that.               *)
LEMMA ReleasesDead ==
    ASSUME Base, Calm, AllNamed, Single,
           NEW c \in Cleaners, cleanup[c].pc = "release",
           Releasable(c) # NoStart, Releasable(c) # c[1]
    PROVE  /\ c = <<c[1], "thread">> /\ cleanup[c].by # "claim"
           /\ ~FirstLife(Releasable(c))
<1>1. Releasable(c) \in Live /\ cleanup[c].by # "claim"
  BY ReleasableIs
<1>2. c[1] \in Starts /\ Releasable(c) \in Starts
  BY <1>1, PairsAre DEF Live
<1>3. Named(c[1])
  BY <1>2 DEF AllNamed
<1>4. c = <<c[1], "thread">>
  BY <1>1, <1>3, PairsAre DEF Named
<1>5. c[1] \in Live /\ "quick" \in faults
  BY <1>1, <1>3, <1>4 DEF Named
<1>6. "race" \notin faults
  BY <1>5 DEF Calm
<1>7. FirstLife(c[1])
  BY <1>4 DEF FirstLife
<1>8. Counts(c[1])
  BY <1>5, <1>7 DEF Counts
<1>9. ~Counts(Releasable(c))
  BY <1>2, <1>6, <1>8 DEF Single
<1> QED
  BY <1>1, <1>4, <1>9 DEF Counts

(* A release keeps every start named.                                       *)
LEMMA ReleaseKeepsNamed ==
    ASSUME Base, Next, UpOnce, Calm, Calm', AllNamed, Single, NEW q \in Starts,
           NEW c \in Cleaners, Release(c)
    PROVE  Named(q)'
<1> DEFINE x == Releasable(c)
<1>n. /\ Named(q) /\ NoCrash /\ NoCrash' /\ NoStart \notin Starts
      /\ "early" \notin faults /\ "reply" \notin faults
  BY CalmBefore, FaultsGrow, StartAssumption DEF AllNamed
<1>r. cleanup[<<q, "thread">>].pc # "idle" /\ q \in registered' => q \in registered
  BY <1>n, StaysStruckOff
<1>1. UNCHANGED <<api, commands, keys, listener, launcher, process, watched,
                  faults>>
  BY ReleaseDoes
<1>2. /\ cleanup[c].pc = "release" /\ cleanup'[c].pc \in {"idle", "clear"}
      /\ \A d \in Cleaners \ {c} : cleanup'[d] = cleanup[d]
  <2>1. NotCleaning.pc = "idle"
    BY DEF NotCleaning
  <2> QED
    BY <2>1, ReleaseDoes
<1>3. /\ q # x => claims'[q] = claims[q]
      /\ claims[q] # "none" => claims'[q] # "none"
  BY ReleaseDoes
<1>4. x = q => ~FirstLife(q) \/ c[1] = q
  BY <1>n, <1>2, ReleasesDead
<1> HIDE DEF x
<1>5. CASE c # <<q, "thread">> /\ c # <<q, "main">>
  <2>1. /\ cleanup'[<<q, "thread">>] = cleanup[<<q, "thread">>]
        /\ cleanup'[<<q, "main">>] = cleanup[<<q, "main">>]
    BY <1>2, <1>5, PairsAre
  <2>2. CASE q # x
    BY <1>n, <1>r, <1>1, <1>3, <2>1, <2>2, AloneStaysNamed
  <2>3. CASE q = x
    <3>1. ~FirstLife(q)
      BY <1>4, <1>5, <2>3, PairsAre
    <3>2. /\ process[q] = "exited" /\ q \notin watched
          /\ cleanup[<<q, "thread">>].pc \notin {"capture", "release"}
      BY <3>1 DEF FirstLife
    <3>3. ~Needs(q)'
      BY <1>n, <1>1, <2>1, <3>2, OfOne DEF Needs, FirstLife
    <3> QED
      BY <1>n, <1>1, <1>3, <2>1, <3>2, <3>3 DEF Named
  <2> QED
    BY <2>2, <2>3
<1>6. CASE c = <<q, "thread">>
  <2>1. cleanup'[<<q, "main">>] = cleanup[<<q, "main">>]
    BY <1>2, <1>6, PairsAre
  <2>2. process[q] = "exited" /\ q \notin watched
    BY <1>n, <1>2, <1>6, OfOne
  <2>3. ~Needs(q)'
    BY <1>n, <1>1, <1>2, <1>6, <2>2, OfOne DEF Needs, FirstLife
  <2> QED
    BY <1>n, <1>1, <1>2, <1>3, <1>6, <2>1, <2>2, <2>3 DEF Named
<1>7. CASE c = <<q, "main">>
  <2>1. cleanup'[<<q, "thread">>] = cleanup[<<q, "thread">>]
    BY <1>2, <1>7, PairsAre
  <2>2. process[q] = "exited" /\ launcher[q] = "done" /\ "claim" \in keys[q]
    BY <1>n, <1>2, <1>7, OfOne DEF Named
  <2>3. ~Needs(q)'
    BY <1>n, <1>1, <2>2, OfOne DEF Needs
  <2>4. ~(cleanup[<<q, "thread">>].pc = "release" /\ cleanup[<<q, "thread">>].by # "claim")
    BY <1>n, <1>r, <1>2, <1>7 DEF Named, Idle
  <2> QED
    BY <1>n, <1>1, <1>2, <1>3, <1>7, <2>1, <2>2, <2>3, <2>4 DEF Named
<1> QED
  BY <1>5, <1>6, <1>7

(* The end of a cleanup keeps every start named.                            *)
LEMMA ClearHeaderKeepsNamed ==
    ASSUME Base, Next, UpOnce, Calm, Calm', AllNamed, NEW q \in Starts,
           NEW c \in Cleaners, ClearHeader(c)
    PROVE  Named(q)'
<1>n. Named(q) /\ NoCrash'
  BY CalmBefore DEF AllNamed
<1>r. cleanup[<<q, "thread">>].pc # "idle" /\ q \in registered' => q \in registered
  BY <1>n, StaysStruckOff
<1>1. UNCHANGED <<claims, api, commands, keys, listener, launcher, process,
                  watched,
                  faults>>
  BY ClearHeaderDoes
<1>2. /\ cleanup[c].pc = "clear" /\ cleanup'[c].pc = "idle"
      /\ \A d \in Cleaners \ {c} : cleanup'[d] = cleanup[d]
  <2>1. NotCleaning.pc = "idle"
    BY DEF NotCleaning
  <2> QED
    BY <2>1, ClearHeaderDoes
<1>3. (q \in Live) => (q \in Live)'
  BY <1>1, LiveIs
<1>4. /\ cleanup'[<<q, "thread">>] = cleanup[<<q, "thread">>]
         \/ /\ cleanup[<<q, "thread">>].pc = "clear"
            /\ cleanup'[<<q, "thread">>].pc = "idle"
      /\ cleanup'[<<q, "main">>] = cleanup[<<q, "main">>]
         \/ /\ cleanup[<<q, "main">>].pc = "clear"
            /\ cleanup'[<<q, "main">>].pc = "idle"
  BY <1>2, PairsAre
<1>5. Needs(q)' => Needs(q)
  BY <1>1, <1>4 DEF Needs, FirstLife
<1> HIDE DEF Live
<1> QED
  BY <1>n, <1>r, <1>1, <1>3, <1>4, <1>5 DEF Named, Idle

(* Every step keeps every start named.                                      *)
LEMMA AllNamedStep ==
    ASSUME Base, Next, UpOnce, Calm, Calm', AllNamed, Single
    PROVE  AllNamed'
<1> SUFFICES ASSUME NEW q \in Starts PROVE Named(q)'
  BY DEF AllNamed
<1>1. ASSUME NEW s \in Starts, ApiStep(s) \/ Correct(s) PROVE Named(q)'
  BY <1>1, ApiKeepsNamed
<1>2. CASE Take \/ Accept
  BY <1>2, MainKeepsNamed
<1>3. CASE Restart \/ \E s \in Starts : Reconnect(s)
  <2>1. listener.up /\ listener.reconnecting = {}
    BY CalmBefore DEF UpOnce
  <2> QED
    BY <1>3, <2>1, RestartDoes, ReconnectDoes
<1>4. CASE ListenerDies
  BY <1>4, ListenerDiesDoes, CalmBefore DEF NoCrash
<1>5. ASSUME NEW s \in Starts, LaunchFails(s) \/ LauncherStep(s) PROVE Named(q)'
  BY <1>5, LauncherKeepsNamed
<1>6. ASSUME NEW s \in Starts, Exits(s) \/ WatcherCleans(s) \/ Ends(s)
      PROVE  Named(q)'
  BY <1>6, EndKeepsNamed
<1>7. ASSUME NEW c \in Cleaners, CleanupStep(c) PROVE Named(q)'
  BY <1>7, CaptureKeepsNamed, ReleaseKeepsNamed, ClearHeaderKeepsNamed
     DEF CleanupStep
<1>8. CASE AdminReleases
  BY <1>8, AdminReleasesDoes, CalmBefore
<1>9. CASE Finished
  <2>1. UNCHANGED <<claims, api, commands, keys, listener, launcher, process,
                    watched,
                    cleanup, registered, faults>>
    BY <1>9 DEF Finished, vars, claiming, redis, running
  <2>2. Named(q) /\ faults \subseteq faults'
    BY <2>1 DEF AllNamed
  <2> QED
    BY <2>1, <2>2, AloneStaysNamed
<1> QED
  BY <1>1, <1>2, <1>3, <1>4, <1>5, <1>6, <1>7, <1>8, <1>9 DEF Next, Ends,
     ListenerStep

(* The life of a process does not begin anew.                               *)
LEMMA FirstLifeEnds ==
    ASSUME Base, Next, UpOnce, Calm', NEW q \in Starts, FirstLife(q)'
    PROVE  FirstLife(q)
<1>c. NoCrash /\ NoCrash'
  BY CalmBefore
<1>1. ASSUME UNCHANGED <<process, watched, cleanup>> PROVE FirstLife(q)
  BY <1>1 DEF FirstLife
<1>2. CASE ListenerStep \/ ListenerDies
  <2>1. listener.up /\ listener.reconnecting = {}
    BY <1>c DEF UpOnce
  <2> QED
    BY <1>1, <1>2, <1>c, <2>1, TakeDoes, AcceptDoes, RestartDoes,
       ReconnectDoes,
       ListenerDiesDoes DEF ListenerStep, NoCrash
<1>3. ASSUME NEW s \in Starts, ApiStep(s) \/ Correct(s) \/ LaunchFails(s)
      PROVE  FirstLife(q)
  BY <1>1, <1>3, CheckDoes, InsertDoes, EnqueueDoes, ApiClearsDoes, ApiReleasesDoes,
     SetQueuedDoes,
     CorrectDoes, LaunchFailsDoes DEF ApiStep
<1>4. ASSUME NEW s \in Starts, LauncherStep(s) PROVE FirstLife(q)
  <2>1. CASE Spawn(s)
    <3>1. process[s] = "none"
      BY <1>c, <2>1, SpawnDoes, OfOne
    <3>2. /\ \A r \in Starts \ {s} : process'[r] = process[r]
          /\ watched' = watched \cup {s} /\ UNCHANGED cleanup
      BY <2>1, SpawnDoes
    <3> QED
      BY <3>1, <3>2 DEF FirstLife
  <2> QED
    BY <1>1, <1>4, <2>1, WriteKeysDoes, ListDoes, ActivateDoes DEF LauncherStep
<1>5. ASSUME NEW s \in Starts, Exits(s) PROVE FirstLife(q)
  <2>1. /\ process[s] = "running" /\ UNCHANGED <<watched, cleanup>>
        /\ \A r \in Starts \ {s} : process'[r] = process[r]
    BY <1>5, ExitsDoes
  <2> QED
    BY <2>1 DEF FirstLife
<1>6. ASSUME NEW s \in Starts, WatcherCleans(s) PROVE FirstLife(q)
  <2>1. /\ s \in watched /\ watched' = watched \ {s} /\ UNCHANGED process
        /\ \A d \in Cleaners \ {<<s, "thread">>} : cleanup'[d] = cleanup[d]
    BY <1>6, WatcherCleansDoes
  <2>2. q # s => cleanup'[<<q, "thread">>] = cleanup[<<q, "thread">>]
    BY <2>1, PairsAre
  <2> QED
    BY <2>1, <2>2 DEF FirstLife
<1>7. ASSUME NEW s \in Starts, Ends(s) PROVE FirstLife(q)
  <2>1. /\ UNCHANGED watched /\ process'[s] = "exited"
        /\ \A r \in Starts \ {s} : process'[r] = process[r]
    BY <1>7, EndsDoes
  <2>2. \A d \in Cleaners \ {<<s, "main">>} : cleanup'[d] = cleanup[d]
    BY <1>7, EndsDoes
  <2>3. cleanup'[<<q, "thread">>] = cleanup[<<q, "thread">>]
    BY <2>2, PairsAre
  <2> QED
    BY <2>1, <2>3 DEF FirstLife
<1>8. ASSUME NEW c \in Cleaners, CleanupStep(c) PROVE FirstLife(q)
  <2>1. UNCHANGED <<process, watched>>
    BY <1>8, CaptureDoes, ReleaseDoes, ClearHeaderDoes DEF CleanupStep
  <2>2. \A d \in Cleaners \ {c} : cleanup'[d] = cleanup[d]
    BY <1>8, CaptureDoes, ReleaseDoes, ClearHeaderDoes DEF CleanupStep
  <2>3. cleanup[c].pc \in {"capture", "release"}
        \/ cleanup'[c].pc \notin {"capture", "release"}
    <3>1. NotCleaning.pc = "idle"
      BY DEF NotCleaning
    <3> QED
      BY <1>8, <3>1, CaptureDoes, ReleaseDoes, ClearHeaderDoes DEF CleanupStep
  <2>4. cleanup'[<<q, "thread">>].pc \in {"capture", "release"} =>
            cleanup[<<q, "thread">>].pc \in {"capture", "release"}
    BY <2>2, <2>3, PairsAre
  <2> QED
    BY <2>1, <2>4 DEF FirstLife
<1>9. CASE AdminReleases
  BY <1>1, <1>9, AdminReleasesDoes
<1>10. CASE Finished
  BY <1>1, <1>10 DEF Finished, vars, running
<1> QED
  BY <1>2, <1>3, <1>4, <1>5, <1>6, <1>7, <1>8, <1>9, <1>10 DEF Next, Ends

(* Nobody comes to count but a request that finds no live claim.            *)
LEMMA CountsBefore ==
    ASSUME Base, Next, UpOnce, Calm, Calm', AllNamed, NEW q \in Starts, Counts(q)'
    PROVE  Counts(q) \/ Check(q)
<1>c. NoCrash /\ "claim" \notin faults' /\ "admin" \notin faults'
  BY CalmBefore
<1>f. FirstLife(q)' => FirstLife(q)
  BY FirstLifeEnds
<1>n. Named(q)
  BY DEF AllNamed
<1>l. /\ q \in Live <=> claims[q] \in {"queued", "active"}
      /\ (q \in Live)' <=> claims'[q] \in {"queued", "active"}
  BY LiveIs
<1> HIDE DEF Live
<1>0. ASSUME api'[q] = "claiming" => api[q] = "claiming",
             claims'[q] \in {"queued", "active"} => claims[q] \in {"queued", "active"}
      PROVE  Counts(q)
  BY <1>0, <1>f, <1>l DEF Counts
<1>1. ASSUME NEW s \in Starts, ApiStep(s) PROVE Counts(q) \/ Check(q)
  <2>1. CASE Check(s)
    BY <1>0, <2>1, CheckDoes
  <2>2. CASE Insert(s)
    <3>1. api[s] = "claiming"
          /\ \A r \in Starts \ {s} : api'[r] = api[r] /\ claims'[r] = claims[r]
      BY <2>2, InsertDoes
    <3>2. CASE q = s
      BY <3>1, <3>2 DEF Counts
    <3>3. CASE q # s
      BY <1>0, <3>1, <3>3
    <3> QED
      BY <3>2, <3>3
  <2>3. CASE Enqueue(s)
    BY <1>0, <2>3, EnqueueDoes
  <2>6. CASE ApiReleases(s)
    <3>1. \A r \in Starts \ {s} : api'[r] = api[r] /\ claims'[r] = claims[r]
      BY <2>6, ApiReleasesDoes
    <3>2. api'[s] # "claiming" /\ (claims'[s] = claims[s] \/ claims'[s] = "released")
      BY <2>6, ApiReleasesDoes
    <3> QED
      BY <1>0, <3>1, <3>2
  <2>4. CASE ApiClears(s)
    BY <1>0, <2>4, ApiClearsDoes
  <2>5. CASE SetQueued(s)
    BY <1>0, <2>5, SetQueuedDoes
  <2> QED
    BY <1>1, <2>1, <2>2, <2>3, <2>4, <2>5, <2>6 DEF ApiStep
<1>2. ASSUME NEW s \in Starts, Activate(s) PROVE Counts(q)
  <2>1. UNCHANGED <<api, process, watched, cleanup>>
        /\ (claims'[q] = claims[q] \/ q = s \/ q \in Live)
    BY <1>2, ActivateDoes
  <2>2. CASE q = s
    <3>1. launcher[q] = "activating"
      BY <1>2, <2>2, ActivateDoes
    <3>2. FirstLife(q) => q \in Live
      BY <1>n, <3>1 DEF Named, Needs
    <3> QED
      BY <1>f, <2>1, <3>2 DEF Counts
  <2>3. CASE q # s
    BY <1>0, <1>l, <2>1, <2>3
  <2> QED
    BY <2>2, <2>3
<1>3. ASSUME UNCHANGED <<api, claims>> PROVE Counts(q)
  BY <1>0, <1>3
<1>4. CASE ListenerStep \/ ListenerDies
  BY <1>3, <1>4, TakeDoes, AcceptDoes, RestartDoes, ReconnectDoes,
     ListenerDiesDoes
     DEF ListenerStep
<1>5. ASSUME NEW s \in Starts,
             \/ Correct(s) \/ Spawn(s) \/ WriteKeys(s) \/ List(s)
             \/ LaunchFails(s) \/ Exits(s) \/ WatcherCleans(s) \/ Ends(s)
      PROVE  Counts(q)
  BY <1>3, <1>5, CorrectDoes, SpawnDoes, WriteKeysDoes, ListDoes,
     LaunchFailsDoes,
     ExitsDoes, WatcherCleansDoes, EndsDoes
<1>6. ASSUME NEW c \in Cleaners, CleanupStep(c) PROVE Counts(q)
  <2>1. CASE Release(c)
    <3>1. UNCHANGED api /\ (claims'[q] = claims[q] \/ claims'[q] = "released")
      BY <2>1, ReleaseDoes, StartAssumption
    <3> QED
      BY <1>0, <3>1
  <2> QED
    BY <1>3, <1>6, <2>1, CaptureDoes, ClearHeaderDoes DEF CleanupStep
<1>7. CASE AdminReleases
  BY <1>c, <1>7, AdminReleasesDoes
<1>8. CASE Finished
  BY <1>3, <1>8 DEF Finished, vars, claiming
<1> QED
  BY <1>1, <1>2, <1>4, <1>5, <1>6, <1>7, <1>8 DEF Next, Ends, LauncherStep

(* Without a race nobody looks for a live claim while another start is      *)
(* between the look and the insert.                                         *)
LEMMA SingleStep ==
    ASSUME Base, Next, UpOnce, Calm, Calm', AllNamed, Single
    PROVE  Single'
<1> SUFFICES ASSUME "race" \notin faults', NEW q \in Starts, NEW t \in Starts,
                    Counts(q)', Counts(t)', q # t
             PROVE  FALSE
  BY DEF Single
<1>1. ASSUME NEW s \in Starts, NEW r \in Starts, s # r, Counts(s)', Counts(r)',
             Check(s)
      PROVE  FALSE
  <2>1. /\ api[s] = "idle" /\ UNCHANGED claims
        /\ api'[s] = "claiming" => Live = {}
        /\ \A o \in Starts \ {s} : api'[o] = api[o]
    BY <1>1, CheckDoes
  <2>2. api'[s] = "claiming" => \A o \in Starts : api[o] # "claiming"
    BY <1>1, CheckDoes
  <2>3. api'[s] = "claiming"
    <3>1. claims[s] = "none" /\ claims'[s] = claims[s]
      BY <2>1 DEF Base, ClaimsFirst
    <3>2. (s \notin Live)'
      BY <3>1, LiveIs
    <3> HIDE DEF Live
    <3> QED
      BY <1>1, <3>2 DEF Counts
  <2>4. api'[r] # "claiming"
    BY <1>1, <2>1, <2>2, <2>3
  <2>5. Live' = Live
    BY <2>1 DEF Live
  <2>6. r \in Live
    BY <1>1, <2>4, <2>5 DEF Counts
  <2>7. s \notin Live
    <3>1. claims[s] = "none"
      BY <2>1 DEF Base, ClaimsFirst
    <3> QED
      BY <3>1 DEF Live
  <2> HIDE DEF Live
  <2> QED
    BY <1>1, <2>1, <2>5, <2>6, <2>7 DEF Counts
<1>2. Counts(q) /\ Counts(t)
  BY <1>1, CountsBefore
<1>3. "race" \notin faults
  BY FaultsGrow
<1> QED
  BY <1>2, <1>3 DEF Single

(* Trusted is an invariant, together with Base and UpOnce.                  *)
LEMMA TrustedInvariant == Spec => [](Base /\ UpOnce /\ Trusted)
<1>1. Init => UpOnce /\ Trusted
  <2> SUFFICES ASSUME Init PROVE UpOnce /\ Trusted
    OBVIOUS
  <2>1. Base
    BY BaseInit
  <2>2. /\ listener.up /\ listener.reconnecting = {} /\ listener.accepting = NoStart
        /\ \A c \in Cleaners : cleanup[c].pc = "idle"
    BY DEF Init, Down, NotCleaning
  <2>3. /\ commands = <<>> /\ watched = {}
        /\ \A s \in Starts : /\ api[s] = "idle" /\ claims[s] = "none"
                             /\ launcher[s] = "none" /\ process[s] = "none"
    BY DEF Init
  <2>4. Live = {}
    BY <2>3 DEF Live
  <2>5. \A s \in Starts : Idle(s, "main") /\ Idle(s, "thread")
    BY <2>2, PairsAre DEF Idle
  <2>6. UpOnce
    BY <2>2, <2>3, <2>5 DEF UpOnce, Launched
  <2>7. \A s \in Starts : ~Needs(s)
    BY <2>2, <2>3, EmptyHas, StartAssumption DEF Needs
  <2>8. AllNamed
    BY <2>3, <2>5, <2>7 DEF AllNamed, Named, Idle
  <2>9. Single
    BY <2>3, <2>4 DEF Single, Counts
  <2> QED
    BY <2>6, <2>8, <2>9 DEF Trusted
<1>2. Base /\ UpOnce /\ Trusted /\ [Next]_vars => (UpOnce /\ Trusted)'
  <2>1. CASE Next
    <3> SUFFICES ASSUME Base, UpOnce, Trusted PROVE UpOnce' /\ Trusted'
      OBVIOUS
    <3>1. ASSUME Calm' PROVE AllNamed' /\ Single'
      <4>1. Calm /\ AllNamed /\ Single
        BY <2>1, <3>1, CalmBefore DEF Trusted
      <4> QED
        BY <2>1, <3>1, <4>1, AllNamedStep, SingleStep
    <3> QED
      BY <2>1, <3>1, UpOnceStep DEF Trusted
  <2>2. CASE UNCHANGED vars
    BY <2>2 DEF vars, claiming, redis, running, UpOnce, NoCrash, Launched,
       Trusted, Calm, AllNamed, Single, Named, Needs, Counts, FirstLife, Idle, Live
  <2> QED
    BY <2>1, <2>2
<1> QED
  BY <1>1, <1>2, BaseInvariant, PTL DEF Spec

-----------------------------------------------------------------------------
(* What follows for claims and processes.                                   *)

(* With no fault but failing launches and racing requests, a claim that has *)
(* been released is never active again: the thread that activates a claim   *)
(* has a process that runs, as no stop was early and no process quick, and  *)
(* a running process keeps its claim.                                       *)
THEOREM ReleasedClaimsStay == Spec => ReleasedStaysReleased
<1>1. ASSUME Base, UpOnce, Trusted, Next, faults' \subseteq {"launch", "race"},
             NEW q \in Starts, claims[q] = "released"
      PROVE  claims'[q] = "released"
  <2>c. Calm' /\ Calm /\ NoCrash /\ {"quick", "early"} \cap faults = {}
    <3>1. Calm'
      BY <1>1 DEF Calm
    <3> QED
      BY <1>1, <3>1, CalmBefore, FaultsGrow
  <2>n. Named(q)
    BY <1>1, <2>c DEF Trusted, AllNamed
  <2>1. ASSUME UNCHANGED claims PROVE claims'[q] = "released"
    BY <1>1, <2>1
  <2>2. ASSUME NEW s \in Starts, ApiStep(s) PROVE claims'[q] = "released"
    <3>1. CASE Insert(s)
      <4>1. api[s] = "claiming" /\ \A r \in Starts \ {s} : claims'[r] = claims[r]
        BY <1>1, <3>1, InsertDoes
      <4>2. claims[s] = "none"
        BY <1>1, <4>1 DEF Base, ClaimsFirst
      <4> QED
        BY <1>1, <4>1, <4>2
    <3>2. CASE ApiReleases(s)
      <4>1. /\ \A r \in Starts \ {s} : claims'[r] = claims[r]
            /\ claims'[s] = claims[s] \/ claims'[s] = "released"
        BY <1>1, <3>2, ApiReleasesDoes
      <4> QED
        BY <1>1, <4>1
    <3> QED
      BY <1>1, <2>1, <2>2, <3>1, <3>2, CheckDoes, EnqueueDoes, ApiClearsDoes, SetQueuedDoes
         DEF ApiStep
  <2>3. ASSUME NEW s \in Starts, Activate(s) PROVE claims'[q] = "released"
    <3>1. claims'[q] = claims[q] \/ q = s \/ q \in Live
      BY <1>1, <2>3, ActivateDoes
    <3>2. q \notin Live
      BY <1>1, LiveIs
    <3>3. ASSUME q = s PROVE FALSE
      <4>1. launcher[q] = "activating"
        BY <1>1, <2>3, <3>3, ActivateDoes
      <4>2. process[q] # "none" /\ process[q] # "exited"
        BY <1>1, <2>c, <4>1, OfOne
      <4>3. process[q] = "running"
        BY <1>1, <4>2 DEF Base, RunTypes
      <4> QED
        BY <2>n, <3>2, <4>3 DEF Named, Needs
    <3> QED
      BY <1>1, <3>1, <3>2, <3>3
  <2>4. ASSUME NEW c \in Cleaners, CleanupStep(c) PROVE claims'[q] = "released"
    <3>1. CASE Release(c)
      BY <1>1, <3>1, ReleaseDoes, StartAssumption
    <3> QED
      BY <1>1, <2>1, <2>4, <3>1, CaptureDoes, ClearHeaderDoes DEF CleanupStep
  <2>5. CASE ListenerStep \/ ListenerDies
    BY <1>1, <2>1, <2>5, TakeDoes, AcceptDoes, RestartDoes, ReconnectDoes,
       ListenerDiesDoes DEF ListenerStep
  <2>6. ASSUME NEW s \in Starts,
               \/ Correct(s) \/ Spawn(s) \/ WriteKeys(s) \/ List(s)
               \/ LaunchFails(s) \/ Exits(s) \/ WatcherCleans(s) \/ Ends(s)
        PROVE  claims'[q] = "released"
    BY <1>1, <2>1, <2>6, CorrectDoes, SpawnDoes, WriteKeysDoes, ListDoes,
       LaunchFailsDoes, ExitsDoes, WatcherCleansDoes, EndsDoes
  <2>7. CASE AdminReleases
    BY <1>1, <2>7, AdminReleasesDoes
  <2>8. CASE Finished
    BY <2>1, <2>8 DEF Finished, vars, claiming
  <2> QED
    BY <1>1, <2>2, <2>3, <2>4, <2>5, <2>6, <2>7, <2>8 DEF Next, Ends, LauncherStep
<1>2. Base /\ UpOnce /\ Trusted /\ [Next]_vars =>
          [(faults' \subseteq {"launch", "race"})
           => \A s \in Starts : claims[s] = "released" => claims'[s] = "released"]_vars
  BY <1>1
<1> QED
  BY <1>2, TrustedInvariant, PTL DEF Spec, ReleasedStaysReleased

(* The plan is run by one process at a time, for any number of starts,      *)
(* stops after the launch, failing launches and quick processes.            *)
THEOREM PlansRunOnce == Spec => []OneProcess
<1>1. Base /\ UpOnce /\ Trusted => OneProcess
  <2> SUFFICES ASSUME Base, UpOnce, Trusted, faults \subseteq {"launch", "quick"}
               PROVE  Cardinality({s \in Starts : process[s] = "running"}) <= 1
    BY DEF OneProcess
  <2> DEFINE R == {s \in Starts : process[s] = "running"}
  <2>1. AllNamed /\ Single
    BY DEF Trusted, Calm
  <2>2. ASSUME NEW s \in R PROVE Counts(s)
    <3>1. s \in Starts /\ process[s] = "running"
      OBVIOUS
    <3>2. s \in Live
      BY <2>1, <3>1 DEF AllNamed, Named, Needs
    <3> QED
      BY <3>1, <3>2 DEF Counts, FirstLife
  <2>3. \A s, t \in R : s = t
    BY <2>1, <2>2 DEF Single
  <2>4. CASE R = {}
    BY <2>4, FS_EmptySet
  <2>5. CASE R # {}
    <3>1. PICK s : R = {s}
      BY <2>3, <2>5
    <3>2. Cardinality({s}) = 1
      BY FS_Singleton
    <3> HIDE DEF R
    <3>3. Cardinality(R) = 1
      BY <3>1, <3>2
    <3> QED
      BY <3>3 DEF R
  <2> QED
    BY <2>4, <2>5
<1> QED
  BY <1>1, TrustedInvariant, PTL

(* A running process has a live claim from its first moment, also before    *)
(* its launching thread is done, when launches fail and either processes    *)
(* are quick or requests race: more than what RunningIsClaimed says of      *)
(* these faults.                                                            *)
THEOREM RunnersKeepClaims ==
    Spec => [](Calm => \A s \in Starts : process[s] = "running" => s \in Live)
<1>1. Base /\ UpOnce /\ Trusted =>
         (Calm => \A s \in Starts : process[s] = "running" => s \in Live)
  BY DEF Trusted, Calm, AllNamed, Named, Needs
<1> QED
  BY <1>1, TrustedInvariant, PTL

-----------------------------------------------------------------------------
(* A listener that has crashed and been started again.                      *)

(* Who writes the status and the pid key of a runner.                       *)
LEMMA StatusMoves ==
    ASSUME Base, Next, NEW q \in Starts
    PROVE  \/ status'[q] = status[q]
           \/ api[q] = "enqueued"
           \/ launcher[q] \in {"preparing", "spawned"}
           \/ process[q] = "running"
           \/ process[q] = "exited" /\ status'[q] = "stopped"
           \/ ~(Idle(q, "main") /\ Idle(q, "thread")) /\ status'[q] = "stopped"
<1>0. status \in [Starts -> Statuses]
  BY DEF Base, KeyTypes
<1>1. ASSUME UNCHANGED status PROVE status'[q] = status[q]
  BY <1>1
<1>2. ASSUME NEW s \in Starts, SetQueued(s)
      PROVE  status'[q] = status[q] \/ api[q] = "enqueued"
  BY <1>0, <1>2 DEF SetQueued, ApiAt
<1>3. ASSUME NEW s \in Starts, Correct(s)
      PROVE  \/ status'[q] = status[q] \/ process[q] = "running"
             \/ process[q] = "exited" /\ status'[q] = "stopped"
  BY <1>0, <1>3 DEF Correct
<1>4. ASSUME NEW s \in Starts, LaunchFails(s) \/ WriteKeys(s)
      PROVE  status'[q] = status[q] \/ launcher[q] \in {"preparing", "spawned"}
  BY <1>0, <1>4 DEF LaunchFails, WriteKeys, LauncherAt
<1>5. ASSUME NEW c \in Cleaners, Capture(c)
      PROVE  \/ status'[q] = status[q]
             \/ ~(Idle(q, "main") /\ Idle(q, "thread")) /\ status'[q] = "stopped"
  <2>1. cleanup[c].pc = "capture" /\ status' = [status EXCEPT ![c[1]] = "stopped"]
    BY <1>5 DEF Capture, CleanupAt
  <2>2. c[1] = q => ~(Idle(q, "main") /\ Idle(q, "thread"))
    BY <2>1, PairsAre DEF Idle
  <2> QED
    BY <1>0, <2>1, <2>2, PairsAre
<1>6. CASE ListenerStep \/ ListenerDies \/ AdminReleases
  BY <1>1, <1>6, TakeDoes, AcceptDoes, RestartDoes, ReconnectDoes,
     ListenerDiesDoes, AdminReleasesDoes DEF ListenerStep
<1>7. ASSUME NEW s \in Starts,
             \/ Check(s) \/ Insert(s) \/ Enqueue(s) \/ ApiReleases(s)
             \/ ApiClears(s) \/ Spawn(s) \/ List(s) \/ Activate(s)
             \/ Exits(s) \/ WatcherCleans(s) \/ Ends(s)
      PROVE  status'[q] = status[q]
  BY <1>1, <1>7, CheckDoes, InsertDoes, EnqueueDoes, ApiClearsDoes, ApiReleasesDoes, SpawnDoes,
     ListDoes, ActivateDoes, ExitsDoes, WatcherCleansDoes, EndsDoes
<1>8. ASSUME NEW c \in Cleaners, Release(c) \/ ClearHeader(c)
      PROVE  status'[q] = status[q]
  BY <1>1, <1>8, ReleaseDoes, ClearHeaderDoes
<1>9. CASE Finished
  BY <1>9 DEF Finished, vars, redis
<1> QED
  BY <1>2, <1>3, <1>4, <1>5, <1>6, <1>7, <1>8, <1>9
     DEF Next, Ends, ApiStep, LauncherStep, CleanupStep

(* The pid key of a runner stays.                                           *)
LEMMA PidStays ==
    ASSUME Base, Next, NEW q \in Starts, "pid" \in keys[q]
    PROVE  "pid" \in keys'[q]
<1>0. keys \in [Starts -> SUBSET Keys]
  BY DEF Base, KeyTypes
<1>1. ASSUME UNCHANGED keys PROVE "pid" \in keys'[q]
  BY <1>1
<1>2. ASSUME NEW s \in Starts, SetQueued(s) \/ Correct(s) \/ WriteKeys(s) \/ List(s)
      PROVE  "pid" \in keys'[q]
  BY <1>0, <1>2 DEF SetQueued, Correct, WriteKeys, List
<1>3. ASSUME NEW c \in Cleaners, Capture(c)
      PROVE  "pid" \in keys'[q]
  <2>1. keys' = [keys EXCEPT ![c[1]] = @ \ {"active"}] /\ c[1] \in Starts
    BY <1>3, PairsAre DEF Capture
  <2> QED
    BY <1>0, <2>1
<1>4. CASE ListenerStep \/ ListenerDies \/ AdminReleases
  BY <1>1, <1>4, TakeDoes, AcceptDoes, RestartDoes, ReconnectDoes,
     ListenerDiesDoes, AdminReleasesDoes DEF ListenerStep
<1>5. ASSUME NEW s \in Starts,
             \/ Check(s) \/ Insert(s) \/ Enqueue(s) \/ ApiReleases(s)
             \/ ApiClears(s) \/ Spawn(s) \/ Activate(s) \/ LaunchFails(s)
             \/ Exits(s) \/ WatcherCleans(s) \/ Ends(s)
      PROVE  "pid" \in keys'[q]
  BY <1>1, <1>5, CheckDoes, InsertDoes, EnqueueDoes, ApiClearsDoes, ApiReleasesDoes,
     SpawnDoes, ActivateDoes, ExitsDoes, WatcherCleansDoes, EndsDoes, LaunchFailsDoes
<1>6. ASSUME NEW c \in Cleaners, Release(c) \/ ClearHeader(c)
      PROVE  "pid" \in keys'[q]
  BY <1>1, <1>6, ReleaseDoes, ClearHeaderDoes
<1>7. CASE Finished
  BY <1>7 DEF Finished, vars, redis
<1> QED
  BY <1>2, <1>3, <1>4, <1>5, <1>6, <1>7
     DEF Next, Ends, ApiStep, LauncherStep, CleanupStep

(* The runner that has a claim is the one that was started with it, unless  *)
(* a claim could not be inserted.                                           *)
Own == holder = [s \in Starts |-> s]

LEMMA OwnStays ==
    ASSUME Base, Next, Own,
           \A s \in Starts : launcher[s] = "activating" => claims[s] # "none"
    PROVE  Own'
<1>1. ASSUME UNCHANGED holder PROVE Own'
  BY <1>1 DEF Own
<1>2. ASSUME NEW s \in Starts, Activate(s) PROVE Own'
  <2>1. launcher[s] = "activating"
    BY <1>2, ActivateDoes
  <2>2. holder' = [holder EXCEPT ![s] = s]
    BY <1>2, <2>1, StartAssumption DEF Activate
  <2> QED
    BY <2>2 DEF Own
<1>3. ASSUME NEW s \in Starts, ApiStep(s) PROVE UNCHANGED holder
  BY <1>3 DEF ApiStep, Check, Insert, Enqueue, SetQueued, ApiReleases, ApiClears,
     claiming
<1>4. ASSUME NEW s \in Starts,
             \/ Correct(s) \/ LaunchFails(s) \/ Spawn(s) \/ WriteKeys(s) \/ List(s)
      PROVE  UNCHANGED holder
  BY <1>4 DEF Correct, LaunchFails, Spawn, WriteKeys, List, claiming
<1>5. ASSUME NEW s \in Starts, Exits(s) \/ WatcherCleans(s) \/ Ends(s)
      PROVE  UNCHANGED holder
  BY <1>5 DEF Exits, WatcherCleans, Ends, Stop, HeartbeatCleans, MainCleans, claiming
<1>6. ASSUME NEW c \in Cleaners, CleanupStep(c) PROVE UNCHANGED holder
  BY <1>6 DEF CleanupStep, Capture, Release, ClearHeader, claiming
<1>7. CASE ListenerStep
  BY <1>1, <1>7 DEF ListenerStep, Take, Accept, Restart, Reconnect, claiming
<1>8. CASE AdminReleases \/ ListenerDies \/ Finished
  BY <1>1, <1>8 DEF AdminReleases, ListenerDies, Finished, vars, claiming
<1> QED
  BY <1>1, <1>2, <1>3, <1>4, <1>5, <1>6, <1>7, <1>8 DEF Next, Ends, LauncherStep

(* The claim id key is written by List, and stays.                          *)
LEMMA ClaimKeyMoves ==
    ASSUME Base, Next, NEW q \in Starts
    PROVE  /\ "claim" \in keys[q] => "claim" \in keys'[q]
           /\ "claim" \in keys'[q] => "claim" \in keys[q] \/ launcher[q] = "listing"
<1>0. keys \in [Starts -> SUBSET Keys]
  BY DEF Base, KeyTypes
<1>1. ASSUME NEW s \in Starts, ApiStep(s) \/ Correct(s)
      PROVE  "claim" \in keys'[q] <=> "claim" \in keys[q]
  BY <1>1, CheckDoes, InsertDoes, EnqueueDoes, ApiClearsDoes, ApiReleasesDoes, SetQueuedDoes,
     CorrectDoes DEF ApiStep
<1>2. ASSUME NEW s \in Starts, List(s)
      PROVE  /\ "claim" \in keys[q] => "claim" \in keys'[q]
             /\ "claim" \in keys'[q] => "claim" \in keys[q] \/ launcher[q] = "listing"
  BY <1>2, ListDoes
<1>3. ASSUME NEW s \in Starts, LauncherStep(s) \/ LaunchFails(s), ~List(s)
      PROVE  "claim" \in keys'[q] <=> "claim" \in keys[q]
  BY <1>3, SpawnDoes, WriteKeysDoes, ActivateDoes, LaunchFailsDoes
     DEF LauncherStep
<1>4. ASSUME NEW s \in Starts, Exits(s) \/ WatcherCleans(s) \/ Ends(s)
      PROVE  UNCHANGED keys
  BY <1>4, ExitsDoes, WatcherCleansDoes, EndsDoes
<1>5. ASSUME NEW c \in Cleaners, CleanupStep(c)
      PROVE  "claim" \in keys'[q] <=> "claim" \in keys[q]
  BY <1>5, CaptureDoes, ReleaseDoes, ClearHeaderDoes DEF CleanupStep
<1>6. CASE ListenerStep \/ ListenerDies \/ AdminReleases
  BY <1>6, TakeDoes, AcceptDoes, RestartDoes, ReconnectDoes,
     ListenerDiesDoes, AdminReleasesDoes DEF ListenerStep
<1>7. CASE Finished
  BY <1>7 DEF Finished, vars, redis
<1> QED
  BY <1>1, <1>2, <1>3, <1>4, <1>5, <1>6, <1>7 DEF Next, Ends

(* Whoever is on the way to a process has, or had, a claim; a runner that   *)
(* has been launched, by this listener or an earlier one, has its claim id  *)
(* and pid keys; and no process ends before its launching thread does.      *)
Bearing(s) ==
    /\ (\/ Contains(commands, s) \/ listener.accepting = s
        \/ launcher[s] # "none" \/ api[s] = "enqueuing") => claims[s] # "none"
    /\ launcher[s] = "listing" => "pid" \in keys[s]
    /\ \/ launcher[s] \in {"activating", "done"}
       \/ launcher[s] = "none" /\ process[s] # "none"
       => "claim" \in keys[s] /\ "pid" \in keys[s]
    /\ launcher[s] \notin {"none", "done"} => process[s] # "exited"
AllBear ==
    {"claim", "quick", "early", "torn"} \cap faults = {} =>
        Own /\ \A s \in Starts : Bearing(s)

(* ... as every step leaves it, whether the listener crashes or not.        *)
LEMMA AllBearStep ==
    ASSUME Base, Next, AllBear
    PROVE  AllBear'
<1> SUFFICES ASSUME {"claim", "quick", "early", "torn"} \cap faults' = {}
             PROVE  Own' /\ \A q \in Starts : Bearing(q)'
  BY DEF AllBear
<1>f. /\ "claim" \notin faults' /\ "quick" \notin faults'
      /\ "early" \notin faults' /\ "torn" \notin faults'
      /\ {"claim", "quick", "early", "torn"} \cap faults = {}
  BY FaultsGrow
<1>h. Own'
  BY <1>f, OwnStays DEF AllBear, Bearing
<1> SUFFICES ASSUME NEW q \in Starts PROVE Bearing(q)'
  BY <1>h
<1>b. Bearing(q) /\ q # NoStart
  BY <1>f, StartAssumption DEF AllBear
<1>k. /\ "claim" \in keys[q] => "claim" \in keys'[q]
      /\ "pid" \in keys[q] => "pid" \in keys'[q]
  BY ClaimKeyMoves, PidStays
<1>o. launcher[q] = "preparing" => process[q] = "none"
  BY DEF Base, LaunchedOnce
<1>q. commands \in Seq(Starts)
  BY DEF Base, KeyTypes, ListenerTypes
<1>1. ASSUME claims[q] # "none" => claims'[q] # "none",
             Contains(commands', q) => Contains(commands, q) \/ api[q] = "enqueuing",
             listener'.accepting = q =>
                listener.accepting = q \/ Contains(commands, q),
             \/ launcher'[q] = launcher[q]
             \/ /\ launcher'[q] = "none"
                /\ process[q] = "none" \/ launcher[q] \in {"activating", "done"},
             process'[q] = process[q],
             api'[q] = "enqueuing" => api[q] = "enqueuing" \/ claims'[q] # "none"
      PROVE  Bearing(q)'
  BY <1>b, <1>k, <1>1 DEF Bearing
<1>2. ASSUME NEW s \in Starts, ApiStep(s) \/ Correct(s) PROVE Bearing(q)'
  <2>1. CASE Check(s)
    BY <1>1, <2>1, CheckDoes
  <2>2. CASE Insert(s)
    <3>1. /\ claims'[q] # "none" \/ claims'[q] = claims[q]
          /\ api'[q] = "enqueuing" => api[q] = "enqueuing" \/ claims'[q] # "none"
      BY <1>f, <2>2, InsertDoes
    <3>2. UNCHANGED <<commands, listener, launcher, process>>
      BY <2>2, InsertDoes
    <3> QED
      BY <1>1, <3>1, <3>2
  <2>3. CASE Enqueue(s)
    <3>0. commands' = Append(commands, s) \/ commands' = commands
      BY <2>3, EnqueueDoes
    <3>a. \A y : Contains(Append(commands, s), y) <=> Contains(commands, y) \/ y = s
      BY <1>q, AppendHas
    <3>1. Contains(commands', q) => Contains(commands, q) \/ q = s
      BY <3>a, <3>0
    <3>2. /\ claims'[q] = claims[q]
          /\ api[s] = "enqueuing"
          /\ api'[q] = "enqueuing" => api[q] = "enqueuing"
          /\ UNCHANGED <<listener, launcher, process>>
      BY <2>3, EnqueueDoes
    <3> QED
      BY <1>1, <3>1, <3>2
  <2>4. CASE ApiClears(s) \/ SetQueued(s) \/ Correct(s)
    <3>1. /\ UNCHANGED <<claims, commands, listener, launcher, process>>
          /\ api'[q] = api[q] \/ api'[q] = "done"
      BY <2>4, ApiClearsDoes, SetQueuedDoes, CorrectDoes
    <3> QED
      BY <1>1, <3>1
  <2>5. CASE ApiReleases(s)
    <3>1. /\ UNCHANGED <<commands, listener, launcher, process>>
          /\ claims'[q] = claims[q] \/ claims'[q] = "released"
          /\ api'[q] = "enqueuing" => api[q] = "enqueuing"
      BY <2>5, ApiReleasesDoes
    <3> QED
      BY <1>1, <3>1
  <2> QED
    BY <1>2, <2>1, <2>2, <2>3, <2>4, <2>5 DEF ApiStep
<1>3. CASE Take
  <2>0. /\ commands # <<>> /\ commands' = Tail(commands)
        /\ listener'.accepting = NoStart \/ listener'.accepting = Head(commands)
    BY <1>3, TakeDoes
  <2>1. Contains(commands', q) => Contains(commands, q)
    BY <1>q, <2>0, HeadTailHas
  <2>2. listener'.accepting = q => Contains(commands, q)
    BY <1>q, <1>b, <2>0, HeadTailHas
  <2> QED
    BY <1>1, <1>3, <2>1, <2>2, TakeDoes
<1>4. CASE Accept
  <2>1. CASE listener.accepting = q
    <3>1. process[q] = "none" /\ claims[q] # "none" /\ launcher[q] = "none"
      BY <1>b, <2>1 DEF Bearing, Base, LaunchedOnce, Untouched, Unlisted
    <3>2. /\ UNCHANGED <<claims, process>>
          /\ launcher'[q] \in {"none", "preparing"}
      BY <1>4, <2>1, <3>1, AcceptDoes
    <3> QED
      BY <3>1, <3>2 DEF Bearing
  <2>2. CASE listener.accepting # q
    BY <1>b, <1>1, <1>4, <2>2, AcceptDoes
  <2> QED
    BY <2>1, <2>2
<1>5. CASE Restart \/ (\E s \in Starts : Reconnect(s)) \/ ListenerDies
  <2>1. /\ UNCHANGED <<claims, commands, process, api>>
        /\ listener'.accepting = NoStart \/ listener'.accepting = listener.accepting
    BY <1>5, RestartDoes, ReconnectDoes, ListenerDiesDoes
  <2>2. CASE ListenerDies
    <3>1. launcher'[q] = "none" /\ launcher[q] \notin {"spawned", "listing"}
      BY <1>f, <2>2, ListenerDiesDoes
    <3>2. launcher[q] \in Labels
      BY DEF Base, RunTypes
    <3>3. \/ launcher'[q] = launcher[q]
          \/ process[q] = "none" \/ launcher[q] \in {"activating", "done"}
      BY <1>o, <3>1, <3>2 DEF Labels
    <3> QED
      BY <1>b, <1>1, <2>1, <3>1, <3>3
  <2>3. CASE ~ListenerDies
    BY <1>b, <1>1, <1>5, <2>1, <2>3, RestartDoes, ReconnectDoes
  <2> QED
    BY <2>2, <2>3
<1>6. ASSUME NEW s \in Starts, LauncherStep(s) \/ LaunchFails(s)
      PROVE  Bearing(q)'
  <2>0. UNCHANGED <<commands, listener, api>>
        /\ (claims[q] # "none" => claims'[q] # "none")
    BY <1>6, SpawnDoes, WriteKeysDoes, ListDoes, ActivateDoes, LaunchFailsDoes
       DEF LauncherStep
  <2>1. CASE q # s
    <3>1. launcher'[q] = launcher[q] /\ process'[q] = process[q]
      BY <1>6, <2>1, SpawnDoes, WriteKeysDoes, ListDoes, ActivateDoes,
         LaunchFailsDoes DEF LauncherStep
    <3> QED
      BY <1>1, <2>0, <3>1
  <2>2. CASE q = s
    <3>1. CASE LaunchFails(s)
      BY <1>1, <1>o, <2>0, <2>2, <3>1, LaunchFailsDoes
    <3>2. CASE LauncherStep(s)
      <4>1. launcher[q] # "none" /\ launcher'[q] # "none"
        BY <2>2, <3>2, SpawnDoes, WriteKeysDoes, ListDoes, ActivateDoes
           DEF LauncherStep
      <4>2. launcher'[q] \in {"activating", "done"} =>
                "claim" \in keys'[q] /\ "pid" \in keys'[q]
        BY <1>b, <1>k, <2>2, <3>2, <4>1, SpawnDoes, WriteKeysDoes, ListDoes,
           ActivateDoes DEF LauncherStep, Bearing
      <4>4. launcher'[q] = "listing" => "pid" \in keys'[q]
        <5>1. CASE WriteKeys(s)
          <6>1. keys' = [keys EXCEPT ![q] = @ \cup {"pid", "plan"}]
            BY <2>2, <5>1 DEF WriteKeys
          <6> QED
            BY <6>1 DEF Base, KeyTypes
        <5>2. CASE ~WriteKeys(s)
          BY <2>2, <3>2, <5>2, SpawnDoes, ListDoes, ActivateDoes DEF LauncherStep
        <5> QED
          BY <5>1, <5>2
      <4>3. launcher'[q] \notin {"none", "done"} => process'[q] # "exited"
        BY <1>b, <2>2, <3>2, <4>1, SpawnDoes, WriteKeysDoes, ListDoes,
           ActivateDoes DEF LauncherStep, Bearing
      <4> QED
        BY <1>b, <2>0, <4>1, <4>2, <4>3, <4>4 DEF Bearing
    <3> QED
      BY <1>6, <3>1, <3>2
  <2> QED
    BY <2>1, <2>2
<1>7. ASSUME NEW s \in Starts, Exits(s) \/ WatcherCleans(s) \/ Ends(s)
      PROVE  Bearing(q)'
  <2>1. UNCHANGED <<claims, commands, api, launcher>>
        /\ listener'.accepting = listener.accepting
    BY <1>7, ExitsDoes, WatcherCleansDoes, EndsDoes
  <2>2. \/ process'[q] = process[q]
        \/ launcher[q] \in {"none", "done"} /\ process[q] # "none"
    BY <1>f, <1>7, ExitsDoes, WatcherCleansDoes, EndsDoes
  <2> QED
    BY <1>b, <1>k, <2>1, <2>2 DEF Bearing
<1>8. ASSUME NEW c \in Cleaners, CleanupStep(c) PROVE Bearing(q)'
  BY <1>1, <1>8, CaptureDoes, ReleaseDoes, ClearHeaderDoes DEF CleanupStep
<1>9. CASE AdminReleases
  BY <1>1, <1>9, AdminReleasesDoes
<1>10. CASE Finished
  BY <1>1, <1>10 DEF Finished, vars, claiming, redis, running
<1> QED
  BY <1>2, <1>3, <1>4, <1>5, <1>6, <1>7, <1>8, <1>9, <1>10
     DEF Next, Ends, ListenerStep

(* Before a crash every running process is watched, a start whose process   *)
(* has been cleaned up after has no live claim, and one that was never      *)
(* launched has a live claim or has left no trace.                          *)
SettledStart(s) ==
    /\ process[s] = "running" => s \in watched
    /\ ~FirstLife(s) => s \notin Live
    /\ api[s] \in {"idle", "claiming", "enqueuing", "failed"} => status[s] = "none"
    /\ launcher[s] = "none" /\ s \notin Live =>
          status[s] = "none" /\ api[s] \notin {"enqueuing", "enqueued"}
Settled == faults \subseteq {"launch"} => \A s \in Starts : SettledStart(s)

(* Under no fault but failing launches a cleanup releases the claim of the  *)
(* start that it cleans up after, whose process was launched and has ended. *)
LEMMA ReleasesOwn ==
    ASSUME Base, UpOnce, AllNamed, Single, faults \subseteq {"launch"},
           NEW c \in Cleaners, Release(c)
    PROVE  /\ Releasable(c) = c[1]
           /\ process[c[1]] = "exited" /\ launcher[c[1]] = "done"
<1>0. /\ NoCrash /\ "quick" \notin faults /\ "early" \notin faults
      /\ c[1] \in Starts
  BY PairsAre DEF NoCrash
<1>1. cleanup[c].pc = "release"
  BY ReleaseDoes
<1>n. Named(c[1])
  BY <1>0 DEF AllNamed
<1>2. cleanup[c].by = "claim"
  <2>1. CASE c = <<c[1], "thread">>
    BY <1>0, <1>1, <1>n, <2>1 DEF Named
  <2>2. CASE c = <<c[1], "main">>
    BY <1>1, <1>n, <2>2 DEF Named
  <2> QED
    BY <2>1, <2>2, PairsAre
<1>3. process[c[1]] = "exited"
  <2>1. /\ cleanup[<<c[1], "thread">>].pc # "idle" => process[c[1]] = "exited"
        /\ cleanup[<<c[1], "main">>].pc # "idle" => process[c[1]] = "exited"
    BY <1>0, OfOne
  <2> QED
    BY <1>1, <2>1, PairsAre
<1>4. launcher[c[1]] = "done"
  <2>1. {"quick", "early"} \cap faults = {}
    BY <1>0
  <2> QED
    BY <1>0, <1>3, <2>1, OfOne
<1> QED
  BY <1>2, <1>3, <1>4, ReleasableIs

(* Whose claim ceases to be live under these faults, and whose begins.      *)
LEMMA LiveMoves ==
    ASSUME Base, Next, UpOnce, AllNamed, Single, faults' \subseteq {"launch"},
           NEW q \in Starts
    PROVE  /\ q \in Live /\ (q \notin Live)' =>
                 \/ api[q] = "failed" /\ api'[q] = "clearing"
                 \/ process[q] = "exited" /\ launcher[q] = "done"
           /\ q \notin Live /\ (q \in Live)' =>
                 \/ api[q] = "claiming" /\ api'[q] = "enqueuing"
                 \/ launcher[q] = "activating"
<1>f. faults \subseteq {"launch"}
  BY FaultsGrow
<1>l. /\ q \in Live <=> claims[q] \in {"queued", "active"}
      /\ (q \in Live)' <=> claims'[q] \in {"queued", "active"}
  BY LiveIs
<1> DEFINE P == /\ q \in Live /\ (q \notin Live)' =>
                      \/ api[q] = "failed" /\ api'[q] = "clearing"
                      \/ process[q] = "exited" /\ launcher[q] = "done"
                /\ q \notin Live /\ (q \in Live)' =>
                      \/ api[q] = "claiming" /\ api'[q] = "enqueuing"
                      \/ launcher[q] = "activating"
<1> HIDE DEF Live
<1>0. ASSUME claims'[q] = claims[q] PROVE P
  BY <1>0, <1>l
<1>1. ASSUME NEW s \in Starts, Insert(s) PROVE P
  BY <1>0, <1>1, <1>l, InsertDoes
<1>2. ASSUME NEW s \in Starts, ApiReleases(s) PROVE P
  BY <1>0, <1>2, <1>l, ApiReleasesDoes
<1>3. ASSUME NEW s \in Starts, Activate(s) PROVE P
  BY <1>0, <1>3, <1>l, ActivateDoes
<1>4. ASSUME NEW c \in Cleaners, Release(c) PROVE P
  <2>1. /\ \A r \in Starts \ {c[1]} : claims'[r] = claims[r]
        /\ claims'[c[1]] = "released"
        /\ process[c[1]] = "exited" /\ launcher[c[1]] = "done"
    BY <1>f, <1>4, ReleasesOwn, ReleaseDoes, StartAssumption
  <2> QED
    BY <1>0, <1>l, <2>1
<1>5. CASE AdminReleases
  BY <1>5, AdminReleasesDoes
<1>6. ASSUME UNCHANGED claims PROVE P
  BY <1>0, <1>6
<1>7. CASE ListenerStep \/ ListenerDies
  BY <1>6, <1>7, TakeDoes, AcceptDoes, RestartDoes, ReconnectDoes,
     ListenerDiesDoes DEF ListenerStep
<1>8. ASSUME NEW s \in Starts,
             \/ Check(s) \/ Enqueue(s) \/ ApiClears(s) \/ SetQueued(s) \/ Correct(s)
             \/ Spawn(s) \/ WriteKeys(s) \/ List(s) \/ LaunchFails(s)
             \/ Exits(s) \/ WatcherCleans(s) \/ Ends(s)
      PROVE  P
  BY <1>6, <1>8, CheckDoes, EnqueueDoes, ApiClearsDoes, SetQueuedDoes, CorrectDoes,
     SpawnDoes, WriteKeysDoes, ListDoes, LaunchFailsDoes, ExitsDoes,
     WatcherCleansDoes, EndsDoes
<1>9. ASSUME NEW c \in Cleaners, Capture(c) \/ ClearHeader(c) PROVE P
  BY <1>6, <1>9, CaptureDoes, ClearHeaderDoes
<1>10. CASE Finished
  BY <1>6, <1>10 DEF Finished, vars, claiming
<1>11. ASSUME NEW s \in Starts,
             \/ ApiStep(s) \/ Correct(s) \/ LauncherStep(s) \/ LaunchFails(s)
             \/ Exits(s) \/ WatcherCleans(s) \/ Ends(s)
      PROVE  P
  BY <1>1, <1>2, <1>3, <1>8, <1>11 DEF ApiStep, LauncherStep
<1>12. ASSUME NEW c \in Cleaners, CleanupStep(c) PROVE P
  BY <1>4, <1>9, <1>12 DEF CleanupStep
<1> QED
  BY <1>5, <1>7, <1>10, <1>11, <1>12 DEF Next, Ends

(* How the API goes on with a start.                                        *)
LEMMA ApiMoves ==
    ASSUME Base, Next, NEW q \in Starts
    PROVE  /\ api'[q] = "claiming" => api[q] = "claiming" \/ Live = {}
           /\ api'[q] = "enqueuing" =>
                 \/ api[q] = "enqueuing" \/ "claim" \in faults'
                 \/ api[q] = "claiming" /\ claims'[q] = "queued"
           /\ api'[q] = "enqueued" => api[q] \in {"enqueuing", "enqueued"}
           /\ api'[q] \in {"idle", "claiming", "enqueuing", "failed"} =>
                 api[q] \in {"idle", "claiming", "enqueuing", "failed"}
<1> DEFINE P == /\ api'[q] = "claiming" => api[q] = "claiming" \/ Live = {}
                /\ api'[q] = "enqueuing" =>
                      \/ api[q] = "enqueuing" \/ "claim" \in faults'
                      \/ api[q] = "claiming" /\ claims'[q] = "queued"
                /\ api'[q] = "enqueued" => api[q] \in {"enqueuing", "enqueued"}
                /\ api'[q] \in {"idle", "claiming", "enqueuing", "failed"} =>
                      api[q] \in {"idle", "claiming", "enqueuing", "failed"}
<1>0. ASSUME api'[q] = api[q] PROVE P
  BY <1>0
<1> HIDE DEF Live
<1>1. ASSUME NEW s \in Starts, Check(s) PROVE P
  BY <1>1, CheckDoes
<1>2. ASSUME NEW s \in Starts, Insert(s) PROVE P
  BY <1>2, InsertDoes
<1>3. ASSUME NEW s \in Starts, Enqueue(s) PROVE P
  BY <1>3, EnqueueDoes
<1>4. ASSUME NEW s \in Starts, ApiReleases(s) \/ ApiClears(s) \/ SetQueued(s)
      PROVE P
  BY <1>4, ApiClearsDoes, ApiReleasesDoes, SetQueuedDoes
<1>5. ASSUME NEW s \in Starts, ApiStep(s) PROVE P
  BY <1>1, <1>2, <1>3, <1>4, <1>5 DEF ApiStep
<1>6. ASSUME NEW s \in Starts,
             \/ Correct(s) \/ LauncherStep(s) \/ LaunchFails(s)
             \/ Exits(s) \/ WatcherCleans(s) \/ Ends(s)
      PROVE  UNCHANGED api
  BY <1>6, CorrectDoes, SpawnDoes, WriteKeysDoes, ListDoes, ActivateDoes,
     LaunchFailsDoes, ExitsDoes, WatcherCleansDoes, EndsDoes DEF LauncherStep
<1>7. ASSUME NEW c \in Cleaners, CleanupStep(c) PROVE UNCHANGED api
  BY <1>7, CaptureDoes, ReleaseDoes, ClearHeaderDoes DEF CleanupStep
<1>8. ListenerStep \/ ListenerDies \/ AdminReleases => UNCHANGED api
  BY TakeDoes, AcceptDoes, RestartDoes, ReconnectDoes, ListenerDiesDoes,
     AdminReleasesDoes DEF ListenerStep
<1>9. Finished => UNCHANGED api
  BY DEF Finished, vars
<1> QED
  BY <1>0, <1>5, <1>6, <1>7, <1>8, <1>9 DEF Next, Ends

(* What Reconnect does to its runner.                                       *)
LEMMA ReconnectsOf ==
    ASSUME Base, NEW s \in Starts, Reconnect(s)
    PROVE  \/ UNCHANGED <<watched, cleanup>>
           \/ /\ status[s] \notin {"none", "stopped"}
              /\ "pid" \in keys[s] /\ process[s] = "running"
              /\ watched' = watched \cup {s} /\ UNCHANGED cleanup
           \/ /\ status[s] \notin {"none", "stopped"}
              /\ ~("pid" \in keys[s] /\ process[s] = "running")
              /\ cleanup'[<<s, "main">>].pc = "capture"
              /\ UNCHANGED watched
<1>1. CASE BeginCleanup(s, "main")
  BY <1>1, BeginDoes DEF Reconnect, Base
<1> QED
  BY <1>1 DEF Reconnect

(* How a process and its watching begin and end.                            *)
ProcessGoesOn(q) ==
    \/ process'[q] = process[q]
    \/ launcher[q] = "preparing" /\ process'[q] = "running" /\ q \in watched'
    \/ /\ process[q] = "running" /\ process'[q] = "exited"
       /\ q \in watched => q \in watched'
WatchGoesOn(q) ==
    /\ q \in watched' =>
          \/ q \in watched \/ launcher[q] = "preparing"
          \/ /\ status[q] \notin {"none", "stopped"}
             /\ "pid" \in keys[q] /\ process[q] = "running"
    /\ q \in watched /\ q \notin watched' =>
          /\ process[q] = "exited"
          /\ launcher[q] = "none" \/ cleanup'[<<q, "thread">>].pc = "capture"
LauncherGoesOn(q) ==
    /\ launcher'[q] = "none" =>
          \/ launcher[q] = "none"
          \/ launcher[q] = "preparing" /\ process'[q] = process[q]
             /\ claims'[q] = claims[q]
    /\ launcher'[q] # "none" => launcher[q] # "none" \/ listener.accepting = q

(* ... at every step but a crash of the listener.                           *)
LEMMA RunMoves ==
    ASSUME Base, Next, ~ListenerDies, NEW q \in Starts
    PROVE  ProcessGoesOn(q) /\ WatchGoesOn(q) /\ LauncherGoesOn(q)
<1> DEFINE P == ProcessGoesOn(q) /\ WatchGoesOn(q) /\ LauncherGoesOn(q)
<1>0. ASSUME UNCHANGED <<process, watched>>, launcher'[q] = launcher[q] PROVE P
  BY <1>0 DEF ProcessGoesOn, WatchGoesOn, LauncherGoesOn
<1>1. ASSUME NEW s \in Starts, ApiStep(s) \/ Correct(s) PROVE P
  BY <1>0, <1>1, CheckDoes, InsertDoes, EnqueueDoes, ApiClearsDoes, ApiReleasesDoes,
     SetQueuedDoes, CorrectDoes DEF ApiStep
<1>2. CASE Take \/ Restart
  BY <1>0, <1>2, TakeDoes, RestartDoes
<1>3. CASE Accept
  <2>1. /\ UNCHANGED <<process, watched>>
        /\ q # listener.accepting => launcher'[q] = launcher[q]
        /\ q = listener.accepting =>
              launcher'[q] = launcher[q] \/ launcher'[q] = "preparing"
    BY <1>3, AcceptDoes
  <2> QED
    BY <2>1 DEF ProcessGoesOn, WatchGoesOn, LauncherGoesOn
<1>4. ASSUME NEW s \in Starts, Reconnect(s) PROVE P
  <2>1. UNCHANGED <<process, launcher>>
    BY <1>4, ReconnectDoes
  <2>2. WatchGoesOn(q)
    BY <1>4, ReconnectsOf DEF WatchGoesOn
  <2> QED
    BY <2>1, <2>2 DEF ProcessGoesOn, LauncherGoesOn
<1>5. ASSUME NEW s \in Starts, Spawn(s) PROVE P
  BY <1>5, SpawnDoes DEF ProcessGoesOn, WatchGoesOn, LauncherGoesOn
<1>6. ASSUME NEW s \in Starts,
             LaunchFails(s) \/ WriteKeys(s) \/ List(s) \/ Activate(s)
      PROVE  P
  <2>1. UNCHANGED <<process, watched>>
    BY <1>6, LaunchFailsDoes, WriteKeysDoes, ListDoes, ActivateDoes
  <2>2. LauncherGoesOn(q)
    <3>1. CASE LaunchFails(s)
      BY <3>1, LaunchFailsDoes DEF LauncherGoesOn
    <3>2. CASE ~LaunchFails(s)
      BY <1>6, <3>2, WriteKeysDoes, ListDoes, ActivateDoes DEF LauncherGoesOn
    <3> QED
      BY <3>1, <3>2
  <2> QED
    BY <2>1, <2>2 DEF ProcessGoesOn, WatchGoesOn
<1>7. ASSUME NEW s \in Starts, Exits(s) \/ WatcherCleans(s) \/ Ends(s) PROVE P
  <2>1. UNCHANGED launcher
    BY <1>7, ExitsDoes, WatcherCleansDoes, EndsDoes
  <2>2. ProcessGoesOn(q)
    <3>1. CASE WatcherCleans(s)
      BY <3>1, WatcherCleansDoes DEF ProcessGoesOn
    <3>2. CASE Exits(s)
      BY <3>2, ExitsDoes DEF ProcessGoesOn
    <3>3. CASE Ends(s)
      <4>1. \/ process'[q] = process[q]
            \/ process[q] = "running" /\ process'[q] = "exited"
        BY <3>3, EndsDoes, ZenonT(30)
      <4>2. watched' = watched
        BY <3>3, EndsDoes
      <4> QED
        BY <4>1, <4>2 DEF ProcessGoesOn
    <3> QED
      BY <1>7, <3>1, <3>2, <3>3
  <2>3. WatchGoesOn(q)
    <3>1. CASE WatcherCleans(s)
      BY <3>1, WatcherCleansDoes DEF WatchGoesOn
    <3>2. CASE Exits(s)
      BY <3>2, ExitsDoes DEF WatchGoesOn
    <3>3. CASE Ends(s)
      BY <3>3, EndsDoes DEF WatchGoesOn
    <3> QED
      BY <1>7, <3>1, <3>2, <3>3
  <2> QED
    BY <2>1, <2>2, <2>3 DEF LauncherGoesOn
<1>8. ASSUME NEW c \in Cleaners, CleanupStep(c) PROVE P
  BY <1>0, <1>8, CaptureDoes, ReleaseDoes, ClearHeaderDoes DEF CleanupStep
<1>9. CASE AdminReleases
  BY <1>0, <1>9, AdminReleasesDoes
<1>10. CASE Finished
  BY <1>0, <1>10 DEF Finished, vars, running
<1>11. ASSUME NEW s \in Starts, LauncherStep(s) PROVE P
  BY <1>5, <1>6, <1>11 DEF LauncherStep
<1>12. CASE ListenerStep
  BY <1>2, <1>3, <1>4, <1>12 DEF ListenerStep
<1> QED
  BY <1>1, <1>6, <1>7, <1>8, <1>9, <1>10, <1>11, <1>12 DEF Next, Ends

(* How a cleanup begins, goes on and ends.                                  *)
CleanupGoesOn(c) ==
    /\ cleanup'[c].pc = "release" =>
          \/ cleanup[c].pc = "release" /\ cleanup'[c].by = cleanup[c].by
          \/ /\ cleanup[c].pc = "capture"
             /\ cleanup'[c].by = "claim" <=> "claim" \in keys[c[1]]
    /\ cleanup[c].pc \in {"capture", "release"} =>
          cleanup'[c].pc \in {"capture", "release"} \/ Release(c)
    /\ c = <<c[1], "thread">> /\ c[1] \notin watched =>
          /\ cleanup'[c].pc # "idle" => cleanup[c].pc # "idle"
          /\ cleanup'[c].pc \in {"capture", "release"} =>
                cleanup[c].pc \in {"capture", "release"}
    /\ cleanup'[c].pc # "idle" /\ c = <<c[1], "main">> =>
          \/ cleanup[c].pc # "idle"
          \/ /\ process[c[1]] # "none" /\ process'[c[1]] = "exited"
             /\ launcher[c[1]] \in {"none", "done"} \/ "early" \in faults'
             /\ cleanup'[c].pc = "capture"
          \/ /\ status[c[1]] \notin {"none", "stopped"}
             /\ ~("pid" \in keys[c[1]] /\ process[c[1]] = "running")
             /\ c[1] \in listener.reconnecting
             /\ UNCHANGED launcher /\ listener'.accepting = listener.accepting

(* ... at every step but a crash of the listener.                           *)
LEMMA CleanupMoves ==
    ASSUME Base, Next, ~ListenerDies, NEW c \in Cleaners
    PROVE  CleanupGoesOn(c)
<1>n. NotCleaning.pc = "idle"
  BY DEF NotCleaning
<1>0. ASSUME cleanup'[c] = cleanup[c] PROVE CleanupGoesOn(c)
  BY <1>0 DEF CleanupGoesOn
<1>1. ASSUME NEW s \in Starts, ApiStep(s) \/ Correct(s) PROVE CleanupGoesOn(c)
  BY <1>0, <1>1, CheckDoes, InsertDoes, EnqueueDoes, ApiClearsDoes, ApiReleasesDoes,
     SetQueuedDoes, CorrectDoes DEF ApiStep
<1>2. CASE Take \/ Restart \/ Accept
  BY <1>0, <1>2, TakeDoes, RestartDoes, AcceptDoes
<1>3. ASSUME NEW s \in Starts, Reconnect(s) PROVE CleanupGoesOn(c)
  <2>1. CASE c = <<s, "main">>
    <3>1. c[1] = s /\ c # <<s, "thread">>
      BY <2>1, PairsAre
    <3>2. cleanup[c].pc = "idle"
      BY <1>n, <1>3, <2>1, ReconnectDoes
    <3>3. \/ cleanup' = cleanup
          \/ /\ status[s] \notin {"none", "stopped"}
             /\ ~("pid" \in keys[s] /\ process[s] = "running")
             /\ cleanup'[c].pc = "capture"
      BY <1>3, <2>1, ReconnectsOf
    <3>4. /\ s \in listener.reconnecting /\ UNCHANGED launcher
          /\ listener'.accepting = listener.accepting
      BY <1>3, ReconnectDoes
    <3> QED
      BY <1>0, <3>1, <3>2, <3>3, <3>4 DEF CleanupGoesOn
  <2>2. CASE c # <<s, "main">>
    <3>1. cleanup'[c] = cleanup[c]
      BY <1>3, <2>2, ReconnectDoes
    <3> QED
      BY <1>0, <3>1
  <2> QED
    BY <2>1, <2>2
<1>4. ASSUME NEW s \in Starts, LauncherStep(s) \/ LaunchFails(s) \/ Exits(s)
      PROVE  CleanupGoesOn(c)
  BY <1>0, <1>4, SpawnDoes, WriteKeysDoes, ListDoes, ActivateDoes,
     LaunchFailsDoes, ExitsDoes DEF LauncherStep
<1>5. ASSUME NEW s \in Starts, WatcherCleans(s) PROVE CleanupGoesOn(c)
  <2>1. CASE c = <<s, "thread">>
    <3>1. c[1] = s /\ c # <<s, "main">>
      BY <2>1, PairsAre
    <3>2. s \in watched /\ (cleanup'[c].pc = "capture" \/ cleanup' = cleanup)
      BY <1>5, <2>1, WatcherCleansDoes
    <3> QED
      BY <1>0, <3>1, <3>2 DEF CleanupGoesOn
  <2>2. CASE c # <<s, "thread">>
    <3>1. cleanup'[c] = cleanup[c]
      BY <1>5, <2>2, WatcherCleansDoes
    <3> QED
      BY <1>0, <3>1
  <2> QED
    BY <2>1, <2>2
<1>6. ASSUME NEW s \in Starts, Ends(s) PROVE CleanupGoesOn(c)
  <2>1. CASE c = <<s, "main">>
    <3>1. c[1] = s /\ c # <<s, "thread">>
      BY <2>1, PairsAre
    <3>2. /\ process[s] # "none" /\ process'[s] = "exited"
          /\ launcher[s] \in {"none", "done"} \/ "early" \in faults'
          /\ cleanup'[c].pc = "capture" /\ cleanup[c] = NotCleaning
      BY <1>6, <2>1, EndsDoes
    <3> QED
      BY <1>n, <3>1, <3>2 DEF CleanupGoesOn
  <2>2. CASE c # <<s, "main">>
    <3>1. cleanup'[c] = cleanup[c]
      BY <1>6, <2>2, EndsDoes, ZenonT(30)
    <3> QED
      BY <1>0, <3>1
  <2> QED
    BY <2>1, <2>2
<1>7. ASSUME NEW d \in Cleaners, CleanupStep(d) PROVE CleanupGoesOn(c)
  <2>1. CASE c = d /\ Capture(d)
    BY <2>1, CaptureDoes DEF CleanupGoesOn
  <2>2. CASE c = d /\ (Release(d) \/ ClearHeader(d))
    BY <1>n, <2>2, ReleaseDoes, ClearHeaderDoes DEF CleanupGoesOn
  <2>3. CASE c # d
    BY <1>0, <1>7, <2>3, CaptureDoes, ReleaseDoes, ClearHeaderDoes
       DEF CleanupStep
  <2> QED
    BY <1>7, <2>1, <2>2, <2>3 DEF CleanupStep
<1>8. CASE AdminReleases
  BY <1>0, <1>8, AdminReleasesDoes
<1>9. CASE Finished
  BY <1>0, <1>9 DEF Finished, vars
<1> QED
  BY <1>1, <1>2, <1>3, <1>4, <1>5, <1>6, <1>7, <1>8, <1>9
     DEF Next, Ends, ListenerStep

(* Without a crash the starts stay settled.                                 *)
LEMMA SettledStep ==
    ASSUME Base, Next, UpOnce, AllNamed, Single, Settled,
           faults' \subseteq {"launch"}
    PROVE  Settled'
<1> SUFFICES ASSUME NEW q \in Starts PROVE SettledStart(q)'
  BY DEF Settled
<1>f. faults \subseteq {"launch"}
  BY FaultsGrow
<1>d. ~ListenerDies
  BY <1>f, ListenerDiesDoes
<1>s. SettledStart(q)
  BY <1>f DEF Settled
<1>o. /\ api[q] \in {"idle", "claiming", "enqueuing", "failed"} =>
            launcher[q] = "none" /\ process[q] = "none"
      /\ launcher[q] \in {"none", "preparing"} <=> process[q] = "none"
      /\ cleanup[<<q, "thread">>].pc # "idle" => process[q] = "exited"
      /\ cleanup[<<q, "main">>].pc # "idle" => process[q] = "exited"
      /\ process[q] = "exited" => launcher[q] = "done"
  BY <1>f, OfOne DEF NoCrash
<1>r. ProcessGoesOn(q) /\ WatchGoesOn(q) /\ LauncherGoesOn(q)
  BY <1>d, RunMoves
<1>c. /\ CleanupGoesOn(<<q, "thread">>)
      /\ <<q, "thread">> \in Cleaners /\ <<q, "thread">>[1] = q
  BY <1>d, CleanupMoves, PairsAre
<1>l. /\ q \in Live /\ (q \notin Live)' =>
            \/ api[q] = "failed" /\ api'[q] = "clearing"
            \/ process[q] = "exited" /\ launcher[q] = "done"
      /\ q \notin Live /\ (q \in Live)' =>
            \/ api[q] = "claiming" /\ api'[q] = "enqueuing"
            \/ launcher[q] = "activating"
  BY LiveMoves
<1>a. /\ api'[q] = "enqueuing" =>
            api[q] = "enqueuing" \/ (api[q] = "claiming" /\ (q \in Live)')
      /\ api'[q] = "enqueued" => api[q] \in {"enqueuing", "enqueued"}
      /\ api'[q] \in {"idle", "claiming", "enqueuing", "failed"} =>
            api[q] \in {"idle", "claiming", "enqueuing", "failed"}
  BY ApiMoves, LiveIs
<1> HIDE DEF Live
<1>1. process'[q] = "running" => q \in watched'
  <2>1. q \in watched /\ q \notin watched' => process[q] = "exited"
    BY <1>r DEF WatchGoesOn
  <2> QED
    BY <1>s, <1>r, <2>1 DEF SettledStart, ProcessGoesOn
<1>2. ~FirstLife(q)' => (q \notin Live)'
  <2> SUFFICES ASSUME process'[q] = "exited", q \notin watched',
                      cleanup'[<<q, "thread">>].pc \notin {"capture", "release"},
                      (q \in Live)'
               PROVE  FALSE
    BY DEF FirstLife
  <2>1. process[q] \in {"running", "exited"}
    BY <1>r DEF ProcessGoesOn
  <2>2. q \notin watched
    BY <1>o, <1>r DEF WatchGoesOn
  <2>3. process[q] = "exited"
    BY <1>s, <2>1, <2>2 DEF SettledStart
  <2>4. q \in Live
    BY <1>o, <1>l, <2>3
  <2>5. cleanup[<<q, "thread">>].pc \in {"capture", "release"}
    BY <1>s, <2>2, <2>3, <2>4 DEF SettledStart, FirstLife
  <2>6. Release(<<q, "thread">>)
    BY <1>c, <2>5 DEF CleanupGoesOn
  <2>7. claims'[q] = "released"
    BY <1>c, <1>f, <2>6, ReleasesOwn, ReleaseDoes, StartAssumption
  <2> QED
    BY <2>7, LiveIs
<1>3. status'[q] = status[q] \/ process[q] # "none" \/ api[q] = "enqueued"
      \/ launcher[q] = "preparing"
  <2>1. launcher[q] = "spawned" => process[q] # "none"
    BY <1>o
  <2>2. ~(Idle(q, "main") /\ Idle(q, "thread")) => process[q] # "none"
    BY <1>o DEF Idle
  <2> QED
    BY <2>1, <2>2, StatusMoves
<1>4. api'[q] \in {"idle", "claiming", "enqueuing", "failed"} => status'[q] = "none"
  BY <1>s, <1>a, <1>o, <1>3 DEF SettledStart
<1>5. launcher'[q] = "none" /\ (q \notin Live)' =>
          status'[q] = "none" /\ api'[q] \notin {"enqueuing", "enqueued"}
  <2> SUFFICES ASSUME launcher'[q] = "none", (q \notin Live)'
               PROVE  status'[q] = "none" /\ api'[q] \notin {"enqueuing", "enqueued"}
    OBVIOUS
  <2>1. launcher[q] = "none"
    <3> SUFFICES ASSUME launcher[q] = "preparing", claims'[q] = claims[q]
                 PROVE  FALSE
      BY <1>r DEF LauncherGoesOn
    <3>1. Needs(q)
      BY <1>o DEF Needs, FirstLife
    <3>2. q \in Live
      BY <3>1 DEF AllNamed, Named
    <3> QED
      BY <3>2, LiveIs
  <2>2. CASE q \in Live
    <3>1. api[q] = "failed" /\ api'[q] = "clearing"
      BY <1>l, <2>1, <2>2
    <3> QED
      BY <1>s, <1>o, <1>3, <3>1 DEF SettledStart
  <2>3. CASE q \notin Live
    BY <1>s, <1>o, <1>a, <1>3, <2>1, <2>3 DEF SettledStart
  <2> QED
    BY <2>2, <2>3
<1> QED
  BY <1>1, <1>2, <1>4, <1>5 DEF SettledStart

(* A claim comes to life by its insertion or by the launching thread, and   *)
(* ceases to live by a failed start, a cleanup or an administrator.       *)
LEMMA LivesMove ==
    ASSUME Base, Next, NEW q \in Starts
    PROVE  /\ q \notin Live /\ (q \in Live)' =>
                 api[q] = "claiming" \/ launcher[q] = "activating"
           /\ q \in Live /\ (q \notin Live)' =>
                 \/ api[q] = "failed" \/ "admin" \in faults'
                 \/ \E c \in Cleaners : Release(c) /\ Releasable(c) = q
<1>l. /\ q \in Live <=> claims[q] \in {"queued", "active"}
      /\ (q \in Live)' <=> claims'[q] \in {"queued", "active"}
  BY LiveIs
<1> DEFINE P == /\ q \notin Live /\ (q \in Live)' =>
                      api[q] = "claiming" \/ launcher[q] = "activating"
                /\ q \in Live /\ (q \notin Live)' =>
                      \/ api[q] = "failed" \/ "admin" \in faults'
                      \/ \E c \in Cleaners : Release(c) /\ Releasable(c) = q
<1> HIDE DEF Live
<1>0. ASSUME claims'[q] = claims[q] PROVE P
  BY <1>0, <1>l
<1>1. ASSUME NEW s \in Starts, Insert(s) PROVE P
  BY <1>0, <1>1, <1>l, InsertDoes
<1>2. ASSUME NEW s \in Starts, ApiReleases(s) PROVE P
  BY <1>0, <1>2, <1>l, ApiReleasesDoes
<1>3. ASSUME NEW s \in Starts, Activate(s) PROVE P
  BY <1>0, <1>3, <1>l, ActivateDoes
<1>4. ASSUME NEW c \in Cleaners, Release(c) PROVE P
  <2>1. CASE q = Releasable(c)
    <3>1. claims'[q] = "released"
      BY <1>4, <2>1, ReleaseDoes, StartAssumption
    <3> QED
      BY <1>4, <1>l, <2>1, <3>1
  <2>2. CASE q # Releasable(c)
    BY <1>0, <1>4, <2>2, ReleaseDoes
  <2> QED
    BY <2>1, <2>2
<1>5. CASE AdminReleases
  <2>1. /\ "admin" \in faults'
        /\ claims'[q] = claims[q] \/ claims'[q] = "released"
    BY <1>5, AdminReleasesDoes
  <2> QED
    BY <1>l, <2>1
<1>6. ASSUME NEW s \in Starts, ApiStep(s) \/ Correct(s) PROVE P
  BY <1>0, <1>1, <1>2, <1>6, CheckDoes, EnqueueDoes, ApiClearsDoes, SetQueuedDoes,
     CorrectDoes DEF ApiStep
<1>7. ASSUME NEW s \in Starts,
             \/ LauncherStep(s) \/ LaunchFails(s)
             \/ Exits(s) \/ WatcherCleans(s) \/ Ends(s)
      PROVE  P
  BY <1>0, <1>3, <1>7, SpawnDoes, WriteKeysDoes, ListDoes, LaunchFailsDoes,
     ExitsDoes, WatcherCleansDoes, EndsDoes DEF LauncherStep
<1>8. ASSUME NEW c \in Cleaners, CleanupStep(c) PROVE P
  BY <1>0, <1>4, <1>8, CaptureDoes, ClearHeaderDoes DEF CleanupStep
<1>9. CASE ListenerStep \/ ListenerDies
  BY <1>0, <1>9, TakeDoes, AcceptDoes, RestartDoes, ReconnectDoes,
     ListenerDiesDoes DEF ListenerStep
<1>10. CASE Finished
  BY <1>0, <1>10 DEF Finished, vars, claiming
<1> QED
  BY <1>5, <1>6, <1>7, <1>8, <1>9, <1>10 DEF Next, Ends

(* The listener accepts a command from the list, unless another start has   *)
(* the live claim that it finds; and never in the middle of a cleanup.      *)
LEMMA AcceptingMoves ==
    ASSUME Base, Next
    PROVE  \/ listener'.accepting \in {NoStart, listener.accepting}
           \/ /\ Contains(commands, listener'.accepting)
              /\ LatestLive = NoStart \/ holder[LatestLive] = listener'.accepting
              /\ \A s \in Starts : Idle(s, "main")
<1> DEFINE P == \/ listener'.accepting \in {NoStart, listener.accepting}
                \/ /\ Contains(commands, listener'.accepting)
                   /\ LatestLive = NoStart \/ holder[LatestLive] = listener'.accepting
                   /\ \A s \in Starts : Idle(s, "main")
<1>1. CASE Take
  <2>1. \/ listener' = listener
        \/ /\ LatestLive = NoStart \/ holder[LatestLive] = Head(commands)
           /\ listener' = [listener EXCEPT !.accepting = Head(commands)]
    BY <1>1 DEF Take
  <2>2. commands # <<>> /\ commands \in Seq(Starts)
    BY <1>1, TakeDoes DEF Base, ListenerTypes
  <2>3. Contains(commands, Head(commands))
    BY <2>2, HeadTailHas
  <2>4. \A s \in Starts : Idle(s, "main")
    <3>1. \A s \in Starts : cleanup[<<s, "main">>] = NotCleaning
      BY <1>1 DEF Take, MainIsFree
    <3>2. NotCleaning.pc = "idle"
      BY DEF NotCleaning
    <3> QED
      BY <3>1, <3>2 DEF Idle
  <2>5. listener' = [listener EXCEPT !.accepting = Head(commands)] =>
            listener'.accepting = Head(commands)
    BY DEF Base, ListenerTypes
  <2> QED
    BY <2>1, <2>3, <2>4, <2>5
<1>2. CASE Accept \/ Restart \/ ListenerDies
  BY <1>2, AcceptDoes, RestartDoes, ListenerDiesDoes
<1>3. ASSUME NEW s \in Starts, Reconnect(s) PROVE P
  BY <1>3, ReconnectDoes
<1>4. ASSUME UNCHANGED listener PROVE P
  BY <1>4
<1>5. ASSUME NEW s \in Starts, ApiStep(s) \/ Correct(s) PROVE P
  BY <1>4, <1>5, CheckDoes, InsertDoes, EnqueueDoes, ApiClearsDoes, ApiReleasesDoes,
     SetQueuedDoes, CorrectDoes DEF ApiStep
<1>6. ASSUME NEW s \in Starts,
             \/ LauncherStep(s) \/ LaunchFails(s)
             \/ Exits(s) \/ WatcherCleans(s) \/ Ends(s)
      PROVE  P
  BY <1>4, <1>6, SpawnDoes, WriteKeysDoes, ListDoes, ActivateDoes,
     LaunchFailsDoes, ExitsDoes, WatcherCleansDoes, EndsDoes DEF LauncherStep
<1>7. ASSUME NEW c \in Cleaners, CleanupStep(c) PROVE P
  BY <1>4, <1>7, CaptureDoes, ReleaseDoes, ClearHeaderDoes DEF CleanupStep
<1>8. CASE AdminReleases
  BY <1>4, <1>8, AdminReleasesDoes
<1>9. CASE Finished
  BY <1>4, <1>9 DEF Finished, vars
<1> QED
  BY <1>1, <1>2, <1>3, <1>5, <1>6, <1>7, <1>8, <1>9 DEF Next, Ends, ListenerStep

(* A launching thread is done when it has activated the claim.              *)
LEMMA DoneMoves ==
    ASSUME Base, Next, NEW q \in Starts, launcher'[q] = "done"
    PROVE  launcher[q] = "done" \/ Activate(q)
<1>0. ASSUME launcher'[q] \in {launcher[q], "none", "preparing", "spawned",
                               "listing", "activating"}
      PROVE  launcher[q] = "done"
  BY <1>0
<1>1. ASSUME NEW s \in Starts, Activate(s)
      PROVE  launcher[q] = "done" \/ Activate(q)
  BY <1>1, ActivateDoes
<1>2. ASSUME NEW s \in Starts,
             LaunchFails(s) \/ Spawn(s) \/ WriteKeys(s) \/ List(s)
      PROVE  launcher[q] = "done"
  BY <1>0, <1>2, LaunchFailsDoes, SpawnDoes, WriteKeysDoes, ListDoes
<1>3. CASE ListenerStep \/ ListenerDies \/ AdminReleases
  BY <1>0, <1>3, TakeDoes, AcceptDoes, RestartDoes, ReconnectDoes,
     ListenerDiesDoes, AdminReleasesDoes DEF ListenerStep
<1>4. ASSUME NEW s \in Starts, ApiStep(s) \/ Correct(s)
      PROVE  launcher[q] = "done"
  BY <1>0, <1>4, CheckDoes, InsertDoes, EnqueueDoes, ApiClearsDoes, ApiReleasesDoes,
     SetQueuedDoes, CorrectDoes DEF ApiStep
<1>5. ASSUME NEW s \in Starts, Exits(s) \/ WatcherCleans(s) \/ Ends(s)
      PROVE  launcher[q] = "done"
  BY <1>0, <1>5, ExitsDoes, WatcherCleansDoes, EndsDoes
<1>6. ASSUME NEW c \in Cleaners, CleanupStep(c) PROVE launcher[q] = "done"
  BY <1>0, <1>6, CaptureDoes, ReleaseDoes, ClearHeaderDoes DEF CleanupStep
<1>7. CASE Finished
  BY <1>0, <1>7 DEF Finished, vars
<1> QED
  BY <1>1, <1>2, <1>3, <1>4, <1>5, <1>6, <1>7 DEF Next, Ends, LauncherStep

(* After the crash: a runner that was queued and never launched has no      *)
(* claim id key, and its cleanup would release whatever live claim the plan *)
(* has.  So a process that survives the crash keeps every other start away: *)
(* it is the only one with a live claim, and no other one has anything to   *)
(* be cleaned up but by its own claim id.                                   *)
NobodyLaunches ==
    listener.accepting = NoStart /\ \A t \in Starts : launcher[t] = "none"

Survivor(s) == launcher[s] = "none" /\ process[s] = "running"

(* Nothing of a start can begin a cleanup that goes by plan.                *)
Harmless(s) ==
    \/ "claim" \in keys[s]
    \/ /\ status[s] \in {"none", "stopped"}
       /\ api[s] \notin {"enqueuing", "enqueued"}
       /\ s \notin watched /\ Idle(s, "main") /\ Idle(s, "thread")

OnlyByClaim(c) == cleanup[c].pc = "release" => cleanup[c].by = "claim"

Outside(s) ==
    /\ s \notin Live /\ api[s] # "claiming" /\ process[s] # "running"
    /\ Harmless(s)
    /\ OnlyByClaim(<<s, "main">>) /\ OnlyByClaim(<<s, "thread">>)

RecoveredStart(s) ==
    /\ process[s] = "running" /\ launcher[s] = "done" => s \in Live
    /\ ~Idle(s, "main") =>
          \/ /\ process[s] = "exited" /\ "claim" \in keys[s]
             /\ OnlyByClaim(<<s, "main">>)
          \/ NobodyLaunches
    /\ OnlyByClaim(<<s, "thread">>)
    /\ Survivor(s) => /\ s \in Live /\ Idle(s, "main") /\ NobodyLaunches
                      /\ \A t \in Starts \ {s} : Outside(t)

Recovered ==
    "crash" \in faults /\ faults \subseteq {"launch", "crash"} =>
        \A s \in Starts : RecoveredStart(s)

(* What the crash leaves behind.                                            *)
LEMMA CrashLeavesRecovered ==
    ASSUME Base, UpOnce, AllNamed, Single, Settled, ListenerDies,
           faults \subseteq {"launch"}
    PROVE  Recovered'
<1> SUFFICES ASSUME NEW q \in Starts PROVE RecoveredStart(q)'
  BY DEF Recovered
<1>f. /\ NoCrash /\ {"quick", "early"} \cap faults = {}
      /\ "reply" \notin faults /\ "race" \notin faults
  BY DEF NoCrash
<1>1. /\ listener'.accepting = NoStart /\ watched' = {}
      /\ \A s \in Starts : launcher'[s] = "none"
      /\ UNCHANGED <<claims, api, status, keys, process>>
  BY ListenerDiesDoes
<1>2. \A c \in Cleaners : cleanup'[c].pc = "idle"
  BY ListenerDiesDoes DEF NotCleaning
<1>3. \A s \in Starts : cleanup'[<<s, "main">>].pc = "idle"
                        /\ cleanup'[<<s, "thread">>].pc = "idle"
  BY <1>2, PairsAre
<1>4. \A s \in Starts : s \in Live <=> (s \in Live)'
  BY <1>1, LiveIs
<1> HIDE DEF Live
<1>5. ASSUME NEW s \in Starts, process[s] = "running" PROVE s \in Live /\ Counts(s)
  <2>1. s \in Live
    BY <1>5 DEF AllNamed, Named, Needs
  <2> QED
    BY <1>5, <2>1 DEF Counts, FirstLife
<1>6. ASSUME NEW s \in Starts, ~Counts(s) PROVE Outside(s)'
  <2>o. /\ launcher[s] \in {"none", "preparing"} <=> process[s] = "none"
        /\ process[s] = "exited" => launcher[s] = "done"
    BY <1>f, OfOne
  <2>s. SettledStart(s)
    BY DEF Settled
  <2>1. s \notin Live /\ api[s] # "claiming"
    BY <1>6, <2>s DEF Counts, SettledStart
  <2>2. process[s] # "running"
    BY <1>5, <1>6
  <2>3. CASE launcher[s] = "none"
    <3>1. status[s] = "none" /\ api[s] \notin {"enqueuing", "enqueued"}
      BY <2>s, <2>1, <2>3 DEF SettledStart
    <3>2. Harmless(s)'
      BY <1>1, <1>3, <3>1 DEF Harmless, Idle
    <3> QED
      BY <1>1, <1>3, <1>4, <2>1, <2>2, <3>2 DEF Outside, OnlyByClaim
  <2>4. CASE launcher[s] \in {"activating", "done"}
    <3>1. "claim" \in keys[s]
      BY <2>4 DEF AllNamed, Named
    <3>2. Harmless(s)'
      BY <1>1, <3>1 DEF Harmless
    <3> QED
      BY <1>1, <1>3, <1>4, <2>1, <2>2, <3>2 DEF Outside, OnlyByClaim
  <2>5. CASE launcher[s] \in {"preparing", "spawned", "listing"}
    <3>1. process[s] \in {"none", "running", "exited"}
      BY DEF Base, RunTypes
    <3>2. process[s] = "none"
      BY <2>o, <2>2, <2>5, <3>1
    <3>3. s \in Live
      BY <2>5, <3>2 DEF AllNamed, Named, Needs, FirstLife
    <3> QED
      BY <2>1, <3>3
  <2>6. launcher[s] \in Labels
    BY DEF Base, RunTypes
  <2> QED
    BY <2>3, <2>4, <2>5, <2>6 DEF Labels
<1>7. NobodyLaunches' /\ Idle(q, "main")' /\ OnlyByClaim(<<q, "thread">>)'
  BY <1>1, <1>3 DEF NobodyLaunches, Idle, OnlyByClaim
<1>8. ASSUME Survivor(q)'
      PROVE  (q \in Live)' /\ \A t \in Starts \ {q} : Outside(t)'
  <2>1. process[q] = "running"
    BY <1>1, <1>8 DEF Survivor
  <2>2. \A t \in Starts \ {q} : ~Counts(t)
    BY <1>5, <1>f, <2>1 DEF Single
  <2> QED
    BY <1>4, <1>5, <1>6, <2>1, <2>2
<1> QED
  BY <1>1, <1>7, <1>8 DEF RecoveredStart

(* Nobody comes to be a survivor later.                                     *)
LEMMA SurvivorBefore ==
    ASSUME Base, Next, ~ListenerDies, NEW q \in Starts, Survivor(q)'
    PROVE  Survivor(q)
<1>1. LauncherGoesOn(q) /\ ProcessGoesOn(q)
  BY RunMoves
<1>2. launcher[q] = "preparing" => process[q] = "none"
  BY DEF Base, LaunchedOnce
<1>3. launcher[q] = "none"
  BY <1>1, <1>2 DEF LauncherGoesOn, Survivor
<1>4. process[q] = "running"
  BY <1>1, <1>3 DEF ProcessGoesOn, Survivor
<1> QED
  BY <1>3, <1>4 DEF Survivor

(* A start that is outside stays there while somebody else has a live claim *)
(* and nobody launches.                                                     *)
LEMMA OutsideStays ==
    ASSUME Base, Next, ~ListenerDies, Live # {}, NobodyLaunches,
           "claim" \notin faults', NEW q \in Starts, Outside(q), Bearing(q)
    PROVE  Outside(q)'
<1>1. /\ CleanupGoesOn(<<q, "thread">>) /\ <<q, "thread">>[1] = q
      /\ CleanupGoesOn(<<q, "main">>) /\ <<q, "main">>[1] = q
  BY CleanupMoves, PairsAre
<1>2. LauncherGoesOn(q) /\ WatchGoesOn(q) /\ ProcessGoesOn(q)
  BY RunMoves
<1>3. launcher[q] = "none"
  BY DEF NobodyLaunches
<1>4. (q \notin Live)'
  BY <1>3, LivesMove DEF Outside
<1>5. /\ api'[q] # "claiming"
      /\ api'[q] = "enqueuing" => api[q] = "enqueuing"
      /\ api'[q] = "enqueued" => api[q] \in {"enqueuing", "enqueued"}
  <2> HIDE DEF Live
  <2> QED
    BY ApiMoves DEF Outside
<1>6. process'[q] # "running"
  BY <1>2, <1>3 DEF ProcessGoesOn, Outside
<1>7. Harmless(q)'
  <2>1. CASE "claim" \in keys[q]
    BY <2>1, ClaimKeyMoves DEF Harmless
  <2>2. CASE "claim" \notin keys[q]
    <3>1. /\ status[q] \in {"none", "stopped"}
          /\ api[q] \notin {"enqueuing", "enqueued"}
          /\ q \notin watched /\ Idle(q, "main") /\ Idle(q, "thread")
      BY <2>2 DEF Outside, Harmless
    <3>2. status'[q] \in {"none", "stopped"}
      <4>1. process[q] # "running"
        BY DEF Outside
      <4> QED
        BY <1>3, <3>1, <4>1, StatusMoves
    <3>3. q \notin watched'
      BY <1>2, <1>3, <3>1 DEF WatchGoesOn
    <3>4. Idle(q, "main")'
      <4>1. process[q] = "none"
        BY <1>3, <2>2 DEF Bearing
      <4> QED
        BY <1>1, <1>3, <3>1, <4>1 DEF CleanupGoesOn, Idle
    <3>5. Idle(q, "thread")'
      BY <1>1, <3>1 DEF CleanupGoesOn, Idle
    <3> QED
      BY <1>5, <3>1, <3>2, <3>3, <3>4, <3>5 DEF Harmless
  <2> QED
    BY <2>1, <2>2
<1>8. OnlyByClaim(<<q, "main">>)'
  BY <1>1 DEF CleanupGoesOn, OnlyByClaim, Outside, Harmless, Idle
<1>9. OnlyByClaim(<<q, "thread">>)'
  BY <1>1 DEF CleanupGoesOn, OnlyByClaim, Outside, Harmless, Idle
<1> QED
  BY <1>4, <1>5, <1>6, <1>7, <1>8, <1>9 DEF Outside

(* Without a command taken, nobody launches who did not.                    *)
LEMMA NobodyLaunchesStays ==
    ASSUME Base, Next, ~ListenerDies, NobodyLaunches,
           listener'.accepting \in {NoStart, listener.accepting}
    PROVE  NobodyLaunches'
<1>1. listener'.accepting = NoStart
  BY DEF NobodyLaunches
<1>2. ASSUME NEW t \in Starts PROVE launcher'[t] = "none"
  <2>1. LauncherGoesOn(t) /\ launcher[t] = "none"
    BY RunMoves DEF NobodyLaunches
  <2> QED
    BY <2>1, StartAssumption DEF LauncherGoesOn, NobodyLaunches
<1> QED
  BY <1>1, <1>2 DEF NobodyLaunches

(* Every step after the crash keeps all this.                               *)
LEMMA RecoveredStep ==
    ASSUME Base, Next, ~ListenerDies, AllBear, Recovered, "crash" \in faults,
           faults' \subseteq {"launch", "crash"}
    PROVE  Recovered'
<1> SUFFICES ASSUME NEW q \in Starts PROVE RecoveredStart(q)'
  BY DEF Recovered
<1>f. /\ faults \subseteq {"launch", "crash"}
      /\ "claim" \notin faults' /\ "admin" \notin faults'
      /\ "early" \notin faults' /\ "reply" \notin faults
  BY FaultsGrow
<1>s. \A s \in Starts : RecoveredStart(s)
  BY <1>f DEF Recovered
<1>b. Own /\ \A s \in Starts : Bearing(s)
  BY <1>f DEF AllBear
<1>c. /\ CleanupGoesOn(<<q, "thread">>) /\ <<q, "thread">>[1] = q
      /\ CleanupGoesOn(<<q, "main">>) /\ <<q, "main">>[1] = q
  BY CleanupMoves, PairsAre
<1>r. LauncherGoesOn(q) /\ WatchGoesOn(q) /\ ProcessGoesOn(q)
  BY RunMoves
<1>k. "claim" \in keys[q] => "claim" \in keys'[q]
  BY ClaimKeyMoves
<1>u. process[q] # "none" => api[q] # "failed" /\ ~Contains(commands, q)
  BY <1>f DEF Base, LaunchedOnce, Untouched, Unlisted
<1> HIDE DEF Live
<1>0. ASSUME NEW c \in Cleaners, Release(c), ~OnlyByClaim(c)
      PROVE  NobodyLaunches
  <2>1. c[1] \in Starts /\ (c = <<c[1], "thread">> \/ c = <<c[1], "main">>)
    BY PairsAre
  <2>2. RecoveredStart(c[1])
    BY <1>s, <2>1
  <2>3. cleanup[c].pc = "release"
    BY <1>0, ReleaseDoes
  <2>4. CASE c = <<c[1], "thread">>
    BY <1>0, <2>2, <2>4 DEF RecoveredStart
  <2>5. CASE c = <<c[1], "main">>
    <3>1. ~Idle(c[1], "main")
      BY <2>3, <2>5 DEF Idle
    <3> QED
      BY <1>0, <2>1, <2>2, <2>5, <3>1 DEF RecoveredStart
  <2> QED
    BY <2>1, <2>4, <2>5
<1>1. process'[q] = "running" /\ launcher'[q] = "done" => (q \in Live)'
  <2> SUFFICES ASSUME process'[q] = "running", launcher'[q] = "done"
               PROVE  (q \in Live)'
    OBVIOUS
  <2>1. CASE Activate(q)
    <3>1. launcher[q] = "activating"
      BY <2>1, ActivateDoes
    <3>2. claims[q] # "none"
      BY <1>b, <3>1 DEF Bearing
    <3>3. claims' = [claims EXCEPT ![q] = "active"]
      BY <2>1, <3>2, StartAssumption DEF Activate, SetClaim
    <3>4. claims'[q] = "active"
      BY <3>3 DEF Base, ClaimTypes
    <3> QED
      BY <3>4, LiveIs
  <2>2. CASE launcher[q] = "done"
    <3>1. process[q] = "running"
      BY <1>r, <2>2 DEF ProcessGoesOn
    <3>2. q \in Live
      BY <1>s, <2>2, <3>1 DEF RecoveredStart
    <3>3. ~NobodyLaunches
      BY <2>2 DEF NobodyLaunches
    <3>4. api[q] # "failed"
      BY <1>u, <3>1
    <3>5. ASSUME NEW c \in Cleaners, Release(c), Releasable(c) = q PROVE FALSE
      <4>1. OnlyByClaim(c) /\ cleanup[c].pc = "release"
        BY <1>0, <3>3, <3>5, ReleaseDoes
      <4>2. c[1] = q
        BY <3>5, <4>1, ReleasableIs DEF OnlyByClaim
      <4>3. CASE c = <<q, "thread">>
        BY <3>1, <4>1, <4>3 DEF Base, WatchedOnce, Idle
      <4>4. CASE c = <<q, "main">>
        <5>1. ~Idle(q, "main")
          BY <4>1, <4>4 DEF Idle
        <5> QED
          BY <1>s, <3>1, <3>3, <5>1 DEF RecoveredStart
      <4> QED
        BY <4>2, <4>3, <4>4, PairsAre
    <3> QED
      BY <1>f, <3>2, <3>4, <3>5, LivesMove
  <2> QED
    BY <2>1, <2>2, DoneMoves
<1>2. ~Idle(q, "main")' =>
          \/ /\ process'[q] = "exited" /\ "claim" \in keys'[q]
             /\ OnlyByClaim(<<q, "main">>)'
          \/ NobodyLaunches'
  <2> SUFFICES ASSUME cleanup'[<<q, "main">>].pc # "idle"
               PROVE  \/ /\ process'[q] = "exited" /\ "claim" \in keys'[q]
                         /\ OnlyByClaim(<<q, "main">>)'
                      \/ NobodyLaunches'
    BY DEF Idle
  <2>1. CASE ~Idle(q, "main")
    <3>1. CASE process[q] = "exited" /\ "claim" \in keys[q]
               /\ OnlyByClaim(<<q, "main">>)
      <4>1. process'[q] = "exited"
        <5>1. launcher[q] # "preparing"
          BY <3>1 DEF Base, LaunchedOnce
        <5> QED
          BY <1>r, <3>1, <5>1 DEF ProcessGoesOn
      <4>2. OnlyByClaim(<<q, "main">>)'
        BY <1>c, <3>1 DEF CleanupGoesOn, OnlyByClaim
      <4> QED
        BY <1>k, <3>1, <4>1, <4>2
    <3>2. CASE NobodyLaunches
      BY <2>1, <3>2, AcceptingMoves, NobodyLaunchesStays
    <3> QED
      BY <1>s, <2>1, <3>1, <3>2 DEF RecoveredStart
  <2>2. CASE /\ process[q] # "none" /\ process'[q] = "exited"
             /\ launcher[q] \in {"none", "done"}
             /\ cleanup'[<<q, "main">>].pc = "capture"
    <3>1. "claim" \in keys'[q]
      BY <1>b, <1>k, <2>2 DEF Bearing
    <3> QED
      BY <2>2, <3>1 DEF OnlyByClaim
  <2>3. CASE q \in listener.reconnecting /\ UNCHANGED launcher
             /\ listener'.accepting = listener.accepting
    <3>1. NobodyLaunches
      BY <2>3 DEF Base, WatchedOnce, Away, NobodyLaunches
    <3> QED
      BY <2>3, <3>1 DEF NobodyLaunches
  <2> QED
    BY <1>c, <1>f, <2>1, <2>2, <2>3 DEF CleanupGoesOn, Idle
<1>3. OnlyByClaim(<<q, "thread">>)'
  <2>1. CASE cleanup[<<q, "thread">>].pc = "release"
             /\ cleanup'[<<q, "thread">>].by = cleanup[<<q, "thread">>].by
    BY <1>s, <2>1 DEF RecoveredStart, OnlyByClaim
  <2>2. CASE cleanup[<<q, "thread">>].pc = "capture"
    <3>1. process[q] = "exited"
      BY <2>2 DEF Base, WatchedOnce, Idle
    <3>2. "claim" \in keys[q]
      BY <1>b, <3>1 DEF Bearing
    <3> QED
      BY <1>c, <2>2, <3>2 DEF CleanupGoesOn, OnlyByClaim
  <2> QED
    BY <1>c, <2>1, <2>2 DEF CleanupGoesOn, OnlyByClaim
<1>4. ASSUME Survivor(q)'
      PROVE  /\ (q \in Live)' /\ Idle(q, "main")' /\ NobodyLaunches'
             /\ \A t \in Starts \ {q} : Outside(t)'
  <2>1. Survivor(q)
    BY <1>4, SurvivorBefore
  <2>2. /\ q \in Live /\ Idle(q, "main") /\ NobodyLaunches
        /\ \A t \in Starts \ {q} : Outside(t)
    BY <1>s, <2>1 DEF RecoveredStart
  <2>3. \A t \in Starts \ {q} : Outside(t)'
    BY <1>b, <1>f, <2>2, OutsideStays
  <2>4. process[q] = "running" /\ "pid" \in keys[q]
    BY <1>b, <2>1 DEF Survivor, Bearing
  <2>5. api[q] # "failed" /\ ~Contains(commands, q)
    BY <1>u, <2>4
  <2>6. NobodyLaunches'
    <3>0. LatestLive \in Live /\ Live \subseteq Starts
      BY <2>2, LatestIsLive DEF Base, Live
    <3>1. LatestLive = q /\ LatestLive # NoStart
      BY <2>2, <3>0, StartAssumption DEF Outside
    <3>2. holder[LatestLive] = q
      BY <1>b, <3>1 DEF Own
    <3>3. listener'.accepting \in {NoStart, listener.accepting}
      BY <2>5, <3>1, <3>2, AcceptingMoves
    <3> QED
      BY <2>2, <3>3, NobodyLaunchesStays
  <2>7. Idle(q, "main")'
    <3>1. process'[q] # "exited"
      BY <1>4 DEF Survivor
    <3> QED
      BY <1>c, <2>2, <2>4, <3>1 DEF CleanupGoesOn, Idle
  <2>8. ASSUME NEW c \in Cleaners, Release(c), Releasable(c) = q PROVE FALSE
    <3>1. cleanup[c].pc = "release"
      BY <2>8, ReleaseDoes
    <3>2. c[1] \in Starts /\ (c = <<c[1], "thread">> \/ c = <<c[1], "main">>)
      BY PairsAre
    <3>3. CASE c[1] # q
      <4>1. OnlyByClaim(c)
        BY <2>2, <3>2, <3>3 DEF Outside
      <4> QED
        BY <2>8, <3>1, <3>3, <4>1, ReleasableIs DEF OnlyByClaim
    <3>4. CASE c[1] = q
      <4>1. c = <<q, "thread">>
        BY <2>2, <3>1, <3>2, <3>4 DEF Idle
      <4> QED
        BY <2>4, <3>1, <4>1 DEF Base, WatchedOnce, Idle
    <3> QED
      BY <3>3, <3>4
  <2>9. (q \in Live)'
    BY <1>f, <2>2, <2>5, <2>8, LivesMove
  <2> QED
    BY <2>3, <2>6, <2>7, <2>9
<1> QED
  BY <1>1, <1>2, <1>3, <1>4 DEF RecoveredStart

(* Only a crash of the listener makes that fault.                           *)
LEMMA OnlyCrashIsCrash ==
    ASSUME Base, Next, "crash" \notin faults, "crash" \in faults'
    PROVE  ListenerDies
<1>1. ASSUME UNCHANGED faults PROVE FALSE
  BY <1>1
<1>2. ASSUME NEW s \in Starts, ApiStep(s) \/ Correct(s) PROVE FALSE
  BY <1>1, <1>2, CheckDoes, InsertDoes, EnqueueDoes, ApiClearsDoes, ApiReleasesDoes,
     SetQueuedDoes, CorrectDoes DEF ApiStep
<1>3. ASSUME NEW s \in Starts, LauncherStep(s) \/ WatcherCleans(s) PROVE FALSE
  BY <1>1, <1>3, SpawnDoes, WriteKeysDoes, ListDoes, ActivateDoes,
     WatcherCleansDoes DEF LauncherStep
<1>9. ASSUME NEW s \in Starts, Ends(s) PROVE FALSE
  <2>1. \/ faults' = faults
        \/ faults' = faults \cup {"early"}
    BY <1>9, EndsDoes
  <2> QED
    BY <1>1, <2>1
<1>4. ASSUME NEW c \in Cleaners, CleanupStep(c) PROVE FALSE
  BY <1>1, <1>4, CaptureDoes, ReleaseDoes, ClearHeaderDoes DEF CleanupStep
<1>5. CASE ListenerStep
  BY <1>1, <1>5, TakeDoes, AcceptDoes, RestartDoes, ReconnectDoes
     DEF ListenerStep
<1>7. ASSUME NEW s \in Starts, LaunchFails(s) \/ Exits(s) PROVE FALSE
  BY <1>7, LaunchFailsDoes, ExitsDoes
<1>8. CASE AdminReleases
  BY <1>8, AdminReleasesDoes
<1>6. CASE Finished
  BY <1>1, <1>6 DEF Finished, vars
<1> QED
  BY <1>2, <1>3, <1>4, <1>5, <1>6, <1>7, <1>8, <1>9 DEF Next, Ends

(* Together with what holds before the crash it is an invariant.            *)
LEMMA RecoveredInvariant ==
    Spec => [](AllBear /\ Settled /\ Recovered)
<1>1. Init => AllBear /\ Settled /\ Recovered
  <2> SUFFICES ASSUME Init PROVE AllBear /\ Settled /\ Recovered
    OBVIOUS
  <2>1. /\ listener.accepting = NoStart /\ commands = <<>> /\ watched = {}
        /\ faults = {}
        /\ \A s \in Starts : /\ api[s] = "idle" /\ claims[s] = "none"
                             /\ launcher[s] = "none" /\ process[s] = "none"
                             /\ status[s] = "none"
    BY DEF Init, Down
  <2>2. AllBear
    <3>1. Own
      BY DEF Init, Own
    <3> QED
      BY <2>1, <3>1, EmptyHas, StartAssumption DEF AllBear, Bearing
  <2>3. Settled
    BY <2>1 DEF Settled, SettledStart, FirstLife
  <2>4. Recovered
    BY <2>1 DEF Recovered
  <2> QED
    BY <2>2, <2>3, <2>4
<1>2. Base /\ UpOnce /\ Trusted /\ AllBear /\ Settled /\ Recovered /\ [Next]_vars
         => (AllBear /\ Settled /\ Recovered)'
  <2>1. CASE Next
    <3> SUFFICES ASSUME Base, UpOnce, Trusted, AllBear, Settled, Recovered
                 PROVE  AllBear' /\ Settled' /\ Recovered'
      OBVIOUS
    <3>1. AllBear'
      BY <2>1, AllBearStep
    <3>2. ASSUME faults' \subseteq {"launch"} PROVE Settled'
      <4>1. faults \subseteq {"launch"}
        BY <2>1, <3>2, FaultsGrow
      <4>2. AllNamed /\ Single
        BY <4>1 DEF Trusted, Calm
      <4> QED
        BY <2>1, <3>2, <4>2, SettledStep
    <3>3. Settled'
      BY <3>2 DEF Settled
    <3>4. ASSUME "crash" \in faults', faults' \subseteq {"launch", "crash"}
          PROVE  Recovered'
      <4>1. CASE "crash" \in faults
        <5>1. ~ListenerDies
          BY <4>1 DEF ListenerDies, Fault
        <5> QED
          BY <2>1, <3>4, <4>1, <5>1, RecoveredStep
      <4>2. CASE "crash" \notin faults
        <5>1. faults \subseteq {"launch"}
          BY <2>1, <3>4, <4>2, FaultsGrow
        <5>2. AllNamed /\ Single
          BY <5>1 DEF Trusted, Calm
        <5>3. ListenerDies
          BY <2>1, <3>4, <4>2, OnlyCrashIsCrash
        <5> QED
          BY <5>1, <5>2, <5>3, CrashLeavesRecovered
      <4> QED
        BY <4>1, <4>2
    <3>5. Recovered'
      BY <3>4 DEF Recovered
    <3> QED
      BY <3>1, <3>3, <3>5
  <2>2. CASE UNCHANGED vars
    <3>1. UNCHANGED <<claims, claimed, holder, header, api, commands, status, keys,
                      listener, launcher, process, watched, cleanup, faults>>
      BY <2>2 DEF vars, claiming, redis, running
    <3>2. AllBear => AllBear'
      BY <3>1 DEF AllBear, Bearing, Own
    <3>3. Settled => Settled'
      BY <3>1 DEF Settled, SettledStart, FirstLife, Live
    <3>4. Recovered => Recovered'
      <4>1. /\ NobodyLaunches' <=> NobodyLaunches
            /\ \A s \in Starts :
                  /\ (s \in Live)' <=> s \in Live
                  /\ Survivor(s)' <=> Survivor(s)
                  /\ Idle(s, "main")' <=> Idle(s, "main")
                  /\ Harmless(s)' <=> Harmless(s)
                  /\ OnlyByClaim(<<s, "main">>)' <=> OnlyByClaim(<<s, "main">>)
                  /\ OnlyByClaim(<<s, "thread">>)' <=> OnlyByClaim(<<s, "thread">>)
        BY <3>1 DEF NobodyLaunches, Survivor, Harmless, OnlyByClaim, Idle, Live
      <4>2. \A s \in Starts : Outside(s) => Outside(s)'
        BY <3>1, <4>1 DEF Outside
      <4>3. ASSUME NEW s \in Starts, RecoveredStart(s) PROVE RecoveredStart(s)'
        BY <3>1, <4>1, <4>2, <4>3 DEF RecoveredStart
      <4> QED
        BY <3>1, <4>3 DEF Recovered
    <3> QED
      BY <3>2, <3>3, <3>4
  <2> QED
    BY <2>1, <2>2
<1> QED
  BY <1>1, <1>2, TrustedInvariant, PTL DEF Spec

(* The claim of a runner that has been launched and still runs is live,     *)
(* whether two processes have claimed the plan at once, or a plan-runner    *)
(* has ended before its launch was done, or the listener has crashed and    *)
(* come back: what _cleanup_process_state releases is never the claim of    *)
(* another runner that runs.                                                *)
THEOREM RunnersStayClaimed == Spec => []RunningIsClaimed
<1>1. Base /\ UpOnce /\ Trusted /\ Recovered => RunningIsClaimed
  <2> SUFFICES ASSUME Base, UpOnce, Trusted, Recovered,
                      \/ faults \subseteq {"launch", "quick"}
                      \/ faults \subseteq {"launch", "race"}
                      \/ faults \subseteq {"launch", "crash"},
                      NEW s \in Starts,
                      process[s] = "running", launcher[s] \in {"none", "done"}
               PROVE  s \in Live
    BY DEF RunningIsClaimed
  <2>1. CASE Calm
    BY <2>1 DEF Trusted, AllNamed, Named, Needs
  <2>2. CASE "crash" \in faults /\ faults \subseteq {"launch", "crash"}
    <3>1. RecoveredStart(s)
      BY <2>2 DEF Recovered
    <3> QED
      BY <3>1 DEF RecoveredStart, Survivor
  <2> QED
    BY <2>1, <2>2 DEF Calm
<1> QED
  BY <1>1, TrustedInvariant, RecoveredInvariant, PTL

=============================================================================

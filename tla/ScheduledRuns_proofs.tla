------------------------- MODULE ScheduledRuns_proofs -------------------------
(***************************************************************************)
(* Theorems about ScheduledRuns, for any slots, tolerance, intervals, ages *)
(* and horizon.                                                            *)
(***************************************************************************)
EXTENDS ScheduledRuns, SequenceTheorems, FiniteSetTheorems, TLAPS

-----------------------------------------------------------------------------
(* The rows.                                                               *)

(* What a row says of its slot: a user's row has none, a deferred row has  *)
(* one, and a row with a slot has not started before it, nor later than    *)
(* now.                                                                    *)
RowOK(i) ==
    /\ runs[i].by = "user" => runs[i].slot = NoSlot
    /\ runs[i].status = "deferred" => runs[i].slot # NoSlot
    /\ runs[i].slot <= runs[i].started
    /\ runs[i].started <= now

RowsOK == \A i \in Rows : RowOK(i)

(* No two rows have the same slot.                                         *)
SlotsOnce ==
    \A i, j \in Rows : runs[i].slot = runs[j].slot /\ i # j => runs[i].slot = NoSlot

(* Between has_active_run and the insert, only rows of users come, and the *)
(* slot is still without a row.                                            *)
Starting ==
    worker.starting # NoSlot =>
        /\ worker.starting <= now
        /\ \A i \in Active : runs[i].slot = NoSlot
        /\ \A i \in Rows : runs[i].slot # worker.starting

(* RunsAlone, of the tasks that have still to end as well: a row whose     *)
(* crawl has ended may be running, and its crawl may begin again.          *)
Engaged == working \cup ending
TasksAlone ==
    \A i, j \in Engaged : i # j =>
        \/ NoSlot \in {runs[i].slot, runs[j].slot}
        \/ {i, j} \cap Active # {i, j}

Alone == TypeOK /\ RowsOK /\ SlotsOnce /\ Starting /\ TasksAlone

(* Rows are numbered from one.                                             *)
LEMMA RowsAre ==
    ASSUME TypeOK
    PROVE  /\ Rows = 1 .. Len(runs) /\ Len(runs) \in Nat
           /\ Len(runs) + 1 \notin Rows
           /\ \A i \in Rows : runs[i] \in Run
  BY DEF TypeOK, Rows

(* Whatever is inserted comes after what is there.                         *)
LEMMA Inserted ==
    ASSUME TypeOK, NEW status, NEW started, NEW slot, NEW by,
           [status |-> status, started |-> started, slot |-> slot, by |-> by] \in Run,
           Insert(status, started, slot, by)
    PROVE  /\ runs' \in Seq(Run)
           /\ Rows' = Rows \cup {Len(runs) + 1}
           /\ \A i \in Rows : runs'[i] = runs[i]
           /\ runs'[Len(runs) + 1] = [status |-> status, started |-> started,
                                      slot |-> slot, by |-> by]
  BY RowsAre, AppendProperties DEF TypeOK, Rows, Insert

(* What a step does that writes a row or several, but inserts none: the    *)
(* slots are as before.                                                    *)
Rewrites(S, statuses) ==
    /\ runs' \in Seq(Run) /\ Rows' = Rows
    /\ \A i \in Rows :
          /\ runs'[i].slot = runs[i].slot
          /\ i \notin S => runs'[i] = runs[i]
          /\ i \in S => /\ runs'[i].status \in statuses
                        /\ runs'[i].started = runs[i].started
                        /\ runs'[i].by = runs[i].by

(* The worker ends one row.                                                *)
LEMMA SetStatusRewrites ==
    ASSUME TypeOK, NEW i \in Rows, NEW status \in {"running", "completed", "failed"},
           SetStatus(i, status)
    PROVE  Rewrites({i}, {status})
<1>1. [runs[i] EXCEPT !.status = status] \in Run
  BY RowsAre DEF Run
<1>2. runs' = [runs EXCEPT ![i] = [runs[i] EXCEPT !.status = status]]
  BY DEF SetStatus
<1>3. runs' \in Seq(Run) /\ Rows' = Rows
  BY <1>1, <1>2, RowsAre DEF TypeOK, Rows
<1>4. \A j \in Rows : runs'[j] = IF j = i THEN [runs[i] EXCEPT !.status = status] ELSE runs[j]
  BY <1>2 DEF Rows
<1>5. /\ [runs[i] EXCEPT !.status = status].status = status
      /\ [runs[i] EXCEPT !.status = status].slot = runs[i].slot
      /\ [runs[i] EXCEPT !.status = status].started = runs[i].started
      /\ [runs[i] EXCEPT !.status = status].by = runs[i].by
  BY RowsAre DEF Run
<1> QED
  BY <1>3, <1>4, <1>5 DEF Rewrites

(* Several rows fail at once.                                              *)
LEMMA FailingRewrites ==
    ASSUME TypeOK, NEW S,
           runs' = [i \in Rows |-> IF i \in S
                                   THEN [runs[i] EXCEPT !.status = "failed"]
                                   ELSE runs[i]]
    PROVE  Rewrites(S, {"failed"})
<1>1. \A i \in Rows : LET r == [runs[i] EXCEPT !.status = "failed"]
                      IN  /\ r \in Run /\ r.status = "failed" /\ r.slot = runs[i].slot
                          /\ r.started = runs[i].started /\ r.by = runs[i].by
  BY RowsAre DEF Run
<1>2. runs' \in [1 .. Len(runs) -> Run]
  BY <1>1, RowsAre
<1>3. runs' \in Seq(Run) /\ Rows' = Rows
  BY <1>2, RowsAre DEF Rows
<1> QED
  BY <1>1, <1>3 DEF Rewrites

(* One row is written.                                                     *)
LEMMA OneRewritten ==
    ASSUME TypeOK, NEW i \in Rows, NEW r \in Run, runs' = [runs EXCEPT ![i] = r]
    PROVE  /\ runs' \in Seq(Run) /\ Rows' = Rows
           /\ runs'[i] = r
           /\ \A j \in Rows : j # i => runs'[j] = runs[j]
<1>1. Rows = 1 .. Len(runs)
  BY RowsAre
<1> QED
  BY <1>1, ExceptSeq DEF TypeOK, Rows

-----------------------------------------------------------------------------
(* The steps that claim a run.                                             *)

(* A user's row is taken: only its by changes.                             *)
LEMMA ClaimManualStep == Alone /\ ClaimManual => Alone'
<1> SUFFICES ASSUME Alone, ClaimManual PROVE Alone'
  OBVIOUS
<1> USE DEF Alone
<1>1. PICK i \in Wanted :
         /\ runs' = [runs EXCEPT ![i].by = "worker"]
         /\ working' = working \cup {i}
  BY DEF ClaimManual
<1>2. i \in Rows /\ runs[i].status = "running" /\ runs[i].slot = NoSlot
  BY DEF Wanted, Active, RowsOK, RowOK
<1> DEFINE r == [runs[i] EXCEPT !.by = "worker"]
<1>3. /\ r \in Run /\ r.by = "worker" /\ r.status = runs[i].status
      /\ r.slot = runs[i].slot /\ r.started = runs[i].started
  BY <1>2, RowsAre DEF Run
<1>4. runs' = [runs EXCEPT ![i] = r]
  BY <1>1
<1> HIDE DEF r
<1>5. /\ runs' \in Seq(Run) /\ Rows' = Rows /\ runs'[i] = r
      /\ \A j \in Rows : j # i => runs'[j] = runs[j]
  BY <1>2, <1>3, <1>4, OneRewritten
<1>6. /\ runs' \in Seq(Run) /\ Rows' = Rows
      /\ \A j \in Rows : /\ runs'[j].status = runs[j].status
                         /\ runs'[j].slot = runs[j].slot
                         /\ runs'[j].started = runs[j].started
                         /\ runs'[j].by \in {runs[j].by, "worker"}
  BY <1>2, <1>3, <1>5
<1>7. /\ Active' = Active /\ Deferred' = Deferred
      /\ UNCHANGED <<handler, now, ending, worker, faults>>
  BY <1>6 DEF Active, Deferred, ClaimManual
<1>8. TypeOK'
  BY <1>1, <1>2, <1>6, <1>7 DEF TypeOK, Deferred
<1>9. RowsOK'
  BY <1>6, <1>7 DEF RowsOK, RowOK
<1>10. SlotsOnce' /\ Starting'
  BY <1>6, <1>7 DEF SlotsOnce, Starting, Active
<1>11. TasksAlone'
  BY <1>1, <1>2, <1>6, <1>7 DEF TasksAlone, Engaged, TypeOK
<1> QED
  BY <1>8, <1>9, <1>10, <1>11

(* A deferred row is taken when no other is running.                       *)
LEMMA ClaimDeferredStep == Alone /\ ClaimDeferred => Alone'
<1> SUFFICES ASSUME Alone, ClaimDeferred PROVE Alone'
  OBVIOUS
<1> USE DEF Alone
<1>1. PICK i \in Deferred :
         /\ runs' = [runs EXCEPT ![i].status = "running", ![i].started = now]
         /\ working' = working \cup {i}
  BY DEF ClaimDeferred
<1> DEFINE r == [runs[i] EXCEPT !.status = "running", !.started = now]
<1>2. i \in Rows /\ runs[i].status = "deferred" /\ runs[i].started = runs[i].slot
  BY DEF Deferred, TypeOK
<1>3. r \in Run /\ r.status = "running" /\ r.started = now
      /\ r.slot = runs[i].slot /\ r.by = runs[i].by
  <2>1. runs[i] \in Run /\ now \in 0 .. Horizon
    BY <1>2, RowsAre DEF TypeOK
  <2> HIDE DEF Alone, TypeOK
  <2> QED
    BY <2>1 DEF Run
<1>4. runs' = [runs EXCEPT ![i] = r]
  BY <1>1
<1> HIDE DEF r
<1>5. /\ runs' \in Seq(Run) /\ Rows' = Rows /\ runs'[i] = r
      /\ \A j \in Rows : j # i => runs'[j] = runs[j]
  BY <1>2, <1>3, <1>4, OneRewritten
<1>6. /\ Active = {} /\ worker.starting = NoSlot
      /\ UNCHANGED <<handler, now, ending, worker, faults>>
  BY DEF ClaimDeferred, Free
<1>7. Active' = {i} /\ Deferred' = Deferred \ {i}
  BY <1>2, <1>3, <1>5, <1>6 DEF Active, Deferred
<1>8. TypeOK'
  BY <1>1, <1>2, <1>5, <1>6, <1>7 DEF TypeOK, Deferred
<1>9. RowsOK'
  <2>1. runs[i].slot <= now
    BY <1>2 DEF RowsOK, RowOK
  <2>2. now <= now
    BY TimeAssumption DEF TypeOK
  <2>3. RowOK(i)'
    BY <1>2, <1>3, <1>5, <1>6, <2>1, <2>2 DEF RowsOK, RowOK
  <2>4. \A j \in Rows : j # i => RowOK(j)'
    BY <1>5, <1>6 DEF RowsOK, RowOK
  <2> QED
    BY <1>5, <2>3, <2>4 DEF RowsOK
<1>10. SlotsOnce' /\ Starting'
  BY <1>2, <1>3, <1>5, <1>6 DEF SlotsOnce, Starting
<1>11. TasksAlone'
  BY <1>7 DEF TasksAlone
<1> QED
  BY <1>8, <1>9, <1>10, <1>11

(* A slot is deferred because something is running: it gets a row that     *)
(* nobody works on.                                                        *)
LEMMA DeferStep ==
    ASSUME Alone, NEW x \in Slots, Defer(x)
    PROVE  Alone'
<1> USE DEF Alone
<1> DEFINE n == Len(runs) + 1
           r == [status |-> "deferred", started |-> x, slot |-> x, by |-> "worker"]
<1>1. x \in Nat /\ x # NoSlot /\ x <= now /\ \A i \in Rows : runs[i].started < x
  BY TimeAssumption DEF Defer, SlotComes, Due, NoSlot
<1>2. r \in Run
  BY TimeAssumption DEF Run
<1>3. /\ runs' \in Seq(Run) /\ Rows' = Rows \cup {n} /\ n \notin Rows
      /\ \A i \in Rows : runs'[i] = runs[i]
      /\ runs'[n].status = "deferred" /\ runs'[n].started = x
      /\ runs'[n].slot = x /\ runs'[n].by = "worker"
  BY <1>2, Inserted, RowsAre DEF Defer
<1>4. worker.starting = NoSlot /\ UNCHANGED <<handler, now, working, ending, worker, faults>>
  BY DEF Defer, SlotComes, Free
<1>5. Active' = Active /\ Deferred' = Deferred \cup {n}
  BY <1>3 DEF Active, Deferred
<1> HIDE DEF n, r
<1>6. TypeOK'
  BY <1>3, <1>4, <1>5 DEF TypeOK, Deferred
<1>7. \A i \in Rows : runs[i].slot # x
  BY <1>1, RowsAre, TimeAssumption DEF RowsOK, RowOK, Run, NoSlot
<1>8. RowsOK'
  BY <1>1, <1>3, <1>4 DEF RowsOK, RowOK
<1>9. SlotsOnce'
  BY <1>3, <1>7 DEF SlotsOnce
<1>10. Starting'
  BY <1>3, <1>4, <1>5 DEF Starting
<1>11. TasksAlone'
  BY <1>3, <1>4, <1>5 DEF TasksAlone, Engaged, TypeOK
<1> QED
  BY <1>6, <1>8, <1>9, <1>10, <1>11

(* The decision to start for a slot writes no row.                         *)
LEMMA DecideStep ==
    ASSUME Alone, NEW x \in Slots, Decide(x)
    PROVE  Alone'
<1> USE DEF Alone
<1>1. x \in Nat /\ x # NoSlot /\ x <= now /\ \A i \in Rows : runs[i].started < x
  BY TimeAssumption DEF Decide, SlotComes, Due, NoSlot
<1>2. /\ Active = {} /\ worker'.starting = x /\ worker'.up = worker.up
      /\ UNCHANGED <<handler, now, runs, working, ending, faults>>
  BY DEF Decide, TypeOK
<1>3. \A i \in Rows : runs[i].slot # x
  BY <1>1, RowsAre, TimeAssumption DEF RowsOK, RowOK, Run, NoSlot
<1>4. TypeOK'
  BY DEF Decide, TypeOK, Deferred, Rows
<1>5. Starting'
  BY <1>1, <1>2, <1>3 DEF Starting, Active, Rows
<1>6. RowsOK' /\ SlotsOnce' /\ TasksAlone'
  BY <1>2 DEF RowsOK, RowOK, SlotsOnce, TasksAlone, Engaged, Active, Rows
<1> QED
  BY <1>4, <1>5, <1>6

(* The run it decided for is inserted, and worked on.                      *)
LEMMA StartRunStep == Alone /\ StartRun => Alone'
<1> SUFFICES ASSUME Alone, StartRun PROVE Alone'
  OBVIOUS
<1> USE DEF Alone
<1> DEFINE n == Len(runs) + 1
           x == worker.starting
           r == [status |-> "running", started |-> now, slot |-> x, by |-> "worker"]
<1>1. /\ x \in Slots /\ x # NoSlot /\ x <= now
      /\ \A i \in Active : runs[i].slot = NoSlot
      /\ \A i \in Rows : runs[i].slot # x
  BY DEF StartRun, Starting, TypeOK
<1>2. r \in Run
  BY <1>1 DEF Run, TypeOK
<1>3. /\ runs' \in Seq(Run) /\ Rows' = Rows \cup {n} /\ n \notin Rows
      /\ \A i \in Rows : runs'[i] = runs[i]
      /\ runs'[n].status = "running" /\ runs'[n].started = now
      /\ runs'[n].slot = x /\ runs'[n].by = "worker"
  BY <1>2, Inserted, RowsAre DEF StartRun
<1>4. /\ worker'.starting = NoSlot /\ working' = working \cup {n}
      /\ worker' \in [up : BOOLEAN, starting : Slots \cup {NoSlot}]
      /\ UNCHANGED <<handler, now, ending, faults>>
  BY DEF StartRun, TypeOK
<1>5. Active' = Active \cup {n} /\ Deferred' = Deferred
  BY <1>3 DEF Active, Deferred
<1> HIDE DEF n, r, x
<1>6. TypeOK'
  BY <1>3, <1>4, <1>5 DEF TypeOK, Deferred
<1>7. RowsOK'
  <2>1. now <= now
    BY TimeAssumption DEF TypeOK
  <2> QED
    BY <1>1, <1>3, <1>4, <2>1 DEF RowsOK, RowOK
<1>8. SlotsOnce' /\ Starting'
  BY <1>1, <1>3, <1>4 DEF SlotsOnce, Starting
<1>10. TasksAlone'
  BY <1>1, <1>3, <1>4, <1>5 DEF TasksAlone, Engaged, TypeOK, Active
<1> QED
  BY <1>6, <1>7, <1>8, <1>10

-----------------------------------------------------------------------------
(* The steps that only end rows.                                           *)

(* A row that is not deferred ends, or is failed where it had ended; rows  *)
(* may be dropped from the hands of their tasks.                           *)
LEMMA EndingStep ==
    ASSUME Alone, NEW S \in SUBSET (Rows \ Deferred),
           Rewrites(S, {"completed", "failed"}),
           UNCHANGED <<handler, now>>, faults' \in Nat,
           working' \subseteq working, ending' \subseteq Engaged,
           worker' \in [up : BOOLEAN, starting : Slots \cup {NoSlot}],
           worker'.starting \in {NoSlot, worker.starting}
    PROVE  Alone'
<1> USE DEF Alone
<1>1. /\ runs' \in Seq(Run) /\ Rows' = Rows
      /\ \A i \in Rows :
            /\ runs'[i].slot = runs[i].slot /\ runs'[i].started = runs[i].started
            /\ runs'[i].by = runs[i].by
            /\ i \notin S => runs'[i].status = runs[i].status
            /\ i \in S => runs'[i].status \in {"completed", "failed"}
  BY DEF Rewrites
<1>2. Deferred' = Deferred /\ Active' = Active \ S
  BY <1>1 DEF Deferred, Active
<1>3. TypeOK'
  BY <1>1, <1>2 DEF TypeOK, Engaged, Deferred
<1>4. RowsOK'
  BY <1>1, <1>2 DEF RowsOK, RowOK, Deferred
<1>5. SlotsOnce' /\ Starting'
  BY <1>1, <1>2 DEF SlotsOnce, Starting, Active
<1>6. TasksAlone'
  BY <1>1, <1>2 DEF TasksAlone, Engaged, TypeOK
<1> QED
  BY <1>3, <1>4, <1>5, <1>6

(* No row is written.                                                      *)
LEMMA NoRewrite ==
    ASSUME TypeOK, UNCHANGED runs
    PROVE  Rewrites({}, {"completed", "failed"})
  BY DEF Rewrites, TypeOK, Rows

(* The work ends, and the row with it where it is written.                 *)
LEMMA WorkEndsStep ==
    ASSUME Alone, NEW i \in Rows, WorkEnds(i)
    PROVE  Alone'
<1> USE DEF Alone
<1>1. i \in Rows \ Deferred
  BY DEF WorkEnds, TypeOK
<1>2. /\ working' \subseteq working /\ ending' \subseteq Engaged
      /\ UNCHANGED <<handler, now, worker>> /\ faults' \in Nat
  BY DEF WorkEnds, Fault, TypeOK, Engaged
<1>3. CASE \E status \in {"completed", "failed"} : SetStatus(i, status)
  <2>1. Rewrites({i}, {"completed", "failed"})
    BY <1>3, SetStatusRewrites DEF Rewrites
  <2> QED
    BY <1>1, <1>2, <2>1, EndingStep DEF TypeOK
<1>4. CASE UNCHANGED runs
  BY <1>2, <1>4, NoRewrite, EndingStep DEF TypeOK
<1> QED
  BY <1>3, <1>4 DEF WorkEnds

(* The task ends after its crawl, with an error or without.                *)
LEMMA TaskEndsStep ==
    ASSUME Alone, NEW i \in Rows, TaskEnds(i)
    PROVE  Alone'
<1> USE DEF Alone
<1>1. i \in Rows \ Deferred
  BY DEF TaskEnds, TypeOK
<1>2. /\ working' \subseteq working /\ ending' \subseteq Engaged
      /\ UNCHANGED <<handler, now, worker>> /\ faults' \in Nat
  BY DEF TaskEnds, Fault, TypeOK, Engaged
<1>3. CASE SetStatus(i, "failed")
  <2>1. Rewrites({i}, {"completed", "failed"})
    BY <1>3, SetStatusRewrites DEF Rewrites
  <2> QED
    BY <1>1, <1>2, <2>1, EndingStep DEF TypeOK
<1>4. CASE UNCHANGED runs
  BY <1>2, <1>4, NoRewrite, EndingStep DEF TypeOK
<1> QED
  BY <1>3, <1>4 DEF TaskEnds

(* A retry works again on a row that its task has not left.                *)
LEMMA RetryStep ==
    ASSUME Alone, NEW i \in Rows, Retry(i)
    PROVE  Alone'
<1> USE DEF Alone
<1>1. /\ i \in ending
      /\ working' = working \cup {i} /\ ending' = ending \ {i}
      /\ UNCHANGED <<handler, now, runs, worker>>
  BY DEF Retry
<1>2. faults' \in Nat
  BY DEF Retry, Fault, TypeOK
<1>3. TypeOK'
  BY <1>1, <1>2 DEF TypeOK, Deferred, Rows
<1>4. RowsOK' /\ SlotsOnce' /\ Starting'
  BY <1>1 DEF RowsOK, RowOK, SlotsOnce, Starting, Active, Rows
<1>5. TasksAlone'
  BY <1>1 DEF TasksAlone, Engaged, Active, Rows
<1> QED
  BY <1>3, <1>4, <1>5

(* The sweep fails rows that are running.                                  *)
LEMMA SweptRewrites ==
    ASSUME TypeOK, runs' = Swept
    PROVE  \E S \in SUBSET Active : Rewrites(S, {"completed", "failed"})
<1> DEFINE S == {i \in Rows : Stale(i)}
<1>1. runs' = [i \in Rows |-> IF i \in S THEN [runs[i] EXCEPT !.status = "failed"]
                              ELSE runs[i]]
  BY DEF Swept
<1>2. S \in SUBSET Active
  BY DEF Stale, Active
<1> HIDE DEF S
<1>3. Rewrites(S, {"failed"})
  BY <1>1, FailingRewrites
<1> QED
  BY <1>2, <1>3 DEF Rewrites

(* The sweeps of the loop and of a start.                                  *)
LEMMA SweepStep == Alone /\ (Sweep \/ Restart) => Alone'
<1> SUFFICES ASSUME Alone, Sweep \/ Restart PROVE Alone'
  OBVIOUS
<1> USE DEF Alone
<1>1. /\ runs' = Swept /\ UNCHANGED <<handler, now, working, ending, faults>>
      /\ worker' \in [up : BOOLEAN, starting : Slots \cup {NoSlot}]
      /\ worker'.starting = worker.starting
  BY DEF Sweep, Restart, TypeOK
<1>2. PICK S \in SUBSET Active : Rewrites(S, {"completed", "failed"})
  BY <1>1, SweptRewrites
<1>3. S \in SUBSET (Rows \ Deferred)
  BY <1>2 DEF Active, Deferred
<1> QED
  BY <1>1, <1>2, <1>3, EndingStep DEF TypeOK, Engaged

(* When the worker dies, nothing is worked on any more.                    *)
LEMMA WorkerDiesStep == Alone /\ WorkerDies => Alone'
<1> SUFFICES ASSUME Alone, WorkerDies PROVE Alone'
  OBVIOUS
<1> USE DEF Alone
<1>1. PICK cancelled \in SUBSET (IF handler = "feed" THEN working ELSE {}) :
          runs' = [i \in Rows |-> IF i \in cancelled
                                  THEN [runs[i] EXCEPT !.status = "failed"]
                                  ELSE runs[i]]
  BY DEF WorkerDies
<1>2. /\ working' = {} /\ ending' = {} /\ UNCHANGED <<handler, now>>
      /\ worker' = [up |-> FALSE, starting |-> NoSlot]
  BY DEF WorkerDies
<1>3. faults' \in Nat
  BY DEF WorkerDies, Fault, TypeOK
<1>4. Rewrites(cancelled, {"completed", "failed"})
  BY <1>1, FailingRewrites DEF Rewrites
<1>5. cancelled \in SUBSET (Rows \ Deferred)
  BY DEF TypeOK
<1> QED
  BY <1>2, <1>3, <1>4, <1>5, EndingStep

(* A user's row has no slot, and no task yet.                              *)
LEMMA RequestStep == Alone /\ Request => Alone'
<1> SUFFICES ASSUME Alone, Request PROVE Alone'
  OBVIOUS
<1> USE DEF Alone
<1> DEFINE n == Len(runs) + 1
           r == [status |-> "running", started |-> now, slot |-> NoSlot, by |-> "user"]
<1>1. r \in Run /\ now \in Nat
  BY TimeAssumption DEF Run, TypeOK
<1>2. /\ runs' \in Seq(Run) /\ Rows' = Rows \cup {n} /\ n \notin Rows
      /\ \A i \in Rows : runs'[i] = runs[i]
      /\ runs'[n].status = "running" /\ runs'[n].started = now
      /\ runs'[n].slot = NoSlot
  BY <1>1, Inserted, RowsAre DEF Request
<1>3. UNCHANGED <<handler, now, working, ending, worker, faults>>
  BY DEF Request
<1>4. Active' = Active \cup {n} /\ Deferred' = Deferred
  BY <1>2 DEF Active, Deferred
<1> HIDE DEF n, r
<1>5. TypeOK'
  BY <1>2, <1>3, <1>4 DEF TypeOK, Deferred
<1>6. RowsOK'
  <2>1. now <= now /\ NoSlot <= now
    BY <1>1 DEF NoSlot
  <2> QED
    BY <1>2, <1>3, <2>1 DEF RowsOK, RowOK
<1>7. SlotsOnce' /\ Starting'
  BY <1>2, <1>3, <1>4 DEF SlotsOnce, Starting, Active
<1>8. TasksAlone'
  BY <1>2, <1>3, <1>4 DEF TasksAlone, Engaged, TypeOK
<1> QED
  BY <1>5, <1>6, <1>7, <1>8

(* Time passes.                                                            *)
LEMMA TickStep == Alone /\ Tick => Alone'
<1> SUFFICES ASSUME Alone, Tick PROVE Alone'
  OBVIOUS
<1> USE DEF Alone
<1>1. /\ now \in Nat /\ now' = now + 1
      /\ UNCHANGED <<handler, runs, working, ending, worker, faults>>
  BY TimeAssumption DEF Tick, TypeOK
<1>2. TypeOK'
  BY <1>1, TimeAssumption DEF Tick, TypeOK, Deferred, Rows
<1>3. RowsOK'
  <2>1. \A i \in Rows : runs[i].started \in Nat
    BY RowsAre, TimeAssumption DEF Run
  <2> QED
    BY <1>1, <2>1 DEF RowsOK, RowOK, Rows
<1>4. Starting'
  <2>1. worker.starting \in Slots \cup {NoSlot}
    BY DEF TypeOK
  <2>2. worker.starting \in Nat
    <3>1. Slots \subseteq Nat /\ NoSlot \in Nat
      BY TimeAssumption DEF NoSlot
    <3> QED
      BY <2>1, <3>1
  <2> QED
    BY <1>1, <2>2 DEF Starting, Active, Rows
<1>5. SlotsOnce' /\ TasksAlone'
  BY <1>1 DEF SlotsOnce, TasksAlone, Engaged, Active, Rows
<1> QED
  BY <1>2, <1>3, <1>4, <1>5

-----------------------------------------------------------------------------
(* The invariant.                                                          *)

(* There are no rows at first.                                             *)
LEMMA AloneInit == Init => Alone
  BY TimeAssumption DEF Init, Alone, TypeOK, RowsOK, SlotsOnce, Starting,
     TasksAlone, Engaged, Rows, Deferred, Active

(* Together they are inductive.                                            *)
LEMMA AloneStep == Alone /\ [Next]_vars => Alone'
<1>1. Alone /\ Next => Alone'
  BY ClaimManualStep, ClaimDeferredStep, DeferStep, DecideStep, StartRunStep,
     WorkEndsStep, TaskEndsStep, RetryStep, SweepStep, WorkerDiesStep,
     RequestStep, TickStep DEF Next, Dispatch, TaskStep
<1>2. Alone /\ UNCHANGED vars => Alone'
  BY DEF vars, Alone, TypeOK, RowsOK, RowOK, SlotsOnce, Starting,
     TasksAlone, Engaged, Rows, Deferred, Active
<1> QED
  BY <1>1, <1>2

(* The rows are in order in every state: a slot has one row at most, which *)
(* started neither before the slot nor later than now, and what is about   *)
(* to start has no competitor.                                             *)
THEOREM AloneInvariant == Spec => []Alone
  BY AloneInit, AloneStep, PTL DEF Spec

(* Every variable keeps its type.                                          *)
THEOREM TypeCorrect == Spec => []TypeOK
  BY AloneInvariant, PTL DEF Alone

(* No two runs of a schedule are executed at the same time, unless one is  *)
(* a user's or its row says that it has ended: for any slots and            *)
(* tolerances, with all the crashes and retries there may be.              *)
THEOREM RunsAreAlone == Spec => []RunsAlone
<1>1. Alone => RunsAlone
  BY DEF Alone, TasksAlone, Engaged, RunsAlone
<1> QED
  BY <1>1, AloneInvariant, PTL

-----------------------------------------------------------------------------
(* The service of the slots.                                               *)

RowsOf(x) == {i \in Rows : runs[i].slot = x}

(* What slotState says, with at most one row for a slot.                   *)
StateIs ==
    \A x \in Slots :
        /\ RowsOf(x) = {} => slotState[x] = "open"
        /\ \A i \in RowsOf(x) :
              slotState[x] = IF i \in Deferred THEN "kept" ELSE "served"

(* It says so in every state of the system.                                *)
LEMMA SlotStateIs == SlotsOnce => StateIs
<1> SUFFICES ASSUME SlotsOnce, NEW x \in Slots
             PROVE  /\ RowsOf(x) = {} => slotState[x] = "open"
                    /\ \A i \in RowsOf(x) :
                          slotState[x] = IF i \in Deferred THEN "kept" ELSE "served"
  BY DEF StateIs
<1> 0 \notin Slots
  BY TimeAssumption
<1>1. slotState[x] =
        CASE RowsOf(x) = {} -> "open"
          [] Cardinality(RowsOf(x)) = 1 ->
                IF RowsOf(x) \subseteq Deferred THEN "kept" ELSE "served"
          [] OTHER -> "twice"
  BY DEF slotState, RowsOf
<1>2. ASSUME NEW i \in RowsOf(x)
      PROVE  slotState[x] = IF i \in Deferred THEN "kept" ELSE "served"
  <2>1. RowsOf(x) = {i}
    BY <1>2 DEF RowsOf, SlotsOnce, NoSlot
  <2>2. Cardinality({i}) = 1
    BY FS_Singleton
  <2>3. Cardinality(RowsOf(x)) = 1 /\ RowsOf(x) # {}
    BY <2>1, <2>2
  <2> QED
    BY <1>1, <2>1, <2>3
<1>3. ASSUME RowsOf(x) = {} PROVE slotState[x] = "open"
  <2>1. Cardinality(RowsOf(x)) = 0
    BY <1>3, FS_EmptySet
  <2> QED
    BY <1>1, <1>3, <2>1
<1> QED
  BY <1>2, <1>3

(* A slot whose rows are as they were is in the state it was in.           *)
LEMMA SlotStays ==
    ASSUME NEW x \in Slots, RowsOf(x)' = RowsOf(x),
           \A i \in RowsOf(x) : i \in Deferred' <=> i \in Deferred
    PROVE  slotState'[x] = slotState[x]
<1>1. RowsOf(x)' \subseteq Deferred' <=> RowsOf(x) \subseteq Deferred
  OBVIOUS
<1>2. slotState[x] =
        CASE RowsOf(x) = {} -> "open"
          [] Cardinality(RowsOf(x)) = 1 ->
                IF RowsOf(x) \subseteq Deferred THEN "kept" ELSE "served"
          [] OTHER -> "twice"
  BY DEF slotState, RowsOf
<1>3. slotState'[x] =
        CASE RowsOf(x)' = {} -> "open"
          [] Cardinality(RowsOf(x)') = 1 ->
                IF RowsOf(x)' \subseteq Deferred' THEN "kept" ELSE "served"
          [] OTHER -> "twice"
  BY DEF slotState, RowsOf
<1> QED
  BY <1>1, <1>2, <1>3

(* A step that leaves the slots of the rows alone, and what is deferred,   *)
(* is a stutter of the service.                                            *)
LEMMA StateStays ==
    ASSUME Rows' = Rows, Deferred' = Deferred,
           \A i \in Rows : runs'[i].slot = runs[i].slot
    PROVE  slotState' = slotState
<1>1. \A x \in Slots : slotState'[x] = slotState[x]
  <2> TAKE x \in Slots
  <2>1. RowsOf(x)' = RowsOf(x)
    BY DEF RowsOf
  <2> QED
    BY <2>1, SlotStays
<1> QED
  BY <1>1 DEF slotState

(* The rows of a slot other than y are the same, and slot y has row n: then*)
(* y is kept or served, and nothing else happens.                          *)
LEMMA OneSlotMoves ==
    ASSUME StateIs', NEW y \in Slots, NEW n,
           Rows' = Rows \cup {n}, runs'[n].slot = y,
           n \in Rows => runs[n].slot = y,
           \A i \in Rows : runs'[i].slot = runs[i].slot,
           \A i \in Rows \ {n} : i \in Deferred' <=> i \in Deferred
    PROVE  slotState' = [slotState EXCEPT ![y] =
                            IF n \in Deferred' THEN "kept" ELSE "served"]
<1>1. ASSUME NEW x \in Slots, x # y PROVE slotState'[x] = slotState[x]
  <2>1. RowsOf(x)' = RowsOf(x) /\ n \notin RowsOf(x)
    BY <1>1 DEF RowsOf
  <2> QED
    BY <2>1, SlotStays DEF RowsOf
<1>2. slotState'[y] = IF n \in Deferred' THEN "kept" ELSE "served"
  <2>1. n \in RowsOf(y)'
    BY DEF RowsOf
  <2> QED
    BY <2>1 DEF StateIs
<1>3. /\ slotState = [x \in Slots |-> slotState[x]]
      /\ slotState' = [x \in Slots |-> slotState'[x]]
  BY DEF slotState
<1> QED
  BY <1>1, <1>2, <1>3

(* The service starts with every slot open.                                *)
LEMMA ServiceInit == Init => Service!Init
<1> SUFFICES ASSUME Init PROVE slotState = [x \in Slots |-> "open"]
  BY DEF Service!Init
<1>1. SlotsOnce /\ \A x \in Slots : RowsOf(x) = {}
  BY DEF Init, Rows, SlotsOnce, RowsOf
<1>2. \A x \in Slots : slotState[x] = "open"
  BY <1>1, SlotStateIs DEF StateIs
<1> QED
  BY <1>2 DEF slotState

(* Every step serves one slot that was open or kept, keeps one that was    *)
(* open, or leaves the service as it is.                                   *)
LEMMA ServiceStep ==
    ASSUME Alone, Next, StateIs, StateIs'
    PROVE  Service!Next \/ slotState' = slotState
<1> USE DEF Alone
<1>1. CASE ClaimManual
  <2>1. PICK i \in Wanted : runs' = [runs EXCEPT ![i].by = "worker"]
    BY <1>1 DEF ClaimManual
  <2>2. \A j \in Rows : /\ runs'[j].status = runs[j].status
                        /\ runs'[j].slot = runs[j].slot
    BY <2>1, RowsAre DEF Wanted, Active, Run, Rows
  <2>3. Rows' = Rows
    BY <2>1 DEF Rows
  <2>4. Deferred' = Deferred
    BY <2>2, <2>3 DEF Deferred
  <2> QED
    BY <2>2, <2>3, <2>4, StateStays
<1>2. CASE ClaimDeferred
  <2>1. PICK i \in Deferred :
           runs' = [runs EXCEPT ![i].status = "running", ![i].started = now]
    BY <1>2 DEF ClaimDeferred
  <2>2. i \in Rows /\ runs[i].slot \in Slots /\ i \in RowsOf(runs[i].slot)
    BY RowsAre DEF Deferred, RowsOK, RowOK, Run, RowsOf
  <2>3. /\ Rows' = Rows /\ i \notin Deferred'
        /\ \A j \in Rows : runs'[j].slot = runs[j].slot
        /\ \A j \in Rows \ {i} : runs'[j] = runs[j]
    BY <2>1, <2>2, RowsAre DEF Rows, Deferred, Run
  <2>4. slotState' = [slotState EXCEPT ![runs[i].slot] = "served"]
    BY <2>2, <2>3, OneSlotMoves DEF Deferred
  <2>5. slotState[runs[i].slot] = "kept"
    BY <2>2 DEF StateIs
  <2> QED
    BY <2>2, <2>4, <2>5 DEF Service!Next, Service!Serve
<1>3. ASSUME NEW x \in Slots, Defer(x) PROVE Service!Next
  <2> DEFINE n == Len(runs) + 1
  <2>1. x \in Nat /\ \A i \in Rows : runs[i].started < x
    BY <1>3, TimeAssumption DEF Defer, SlotComes, Due
  <2>2. RowsOf(x) = {}
    BY <2>1, RowsAre, TimeAssumption DEF RowsOf, RowsOK, RowOK, Run, NoSlot
  <2>3. [status |-> "deferred", started |-> x, slot |-> x, by |-> "worker"] \in Run
    BY TimeAssumption DEF Run
  <2>4. /\ Rows' = Rows \cup {n} /\ n \notin Rows
        /\ \A i \in Rows : runs'[i] = runs[i]
        /\ runs'[n].slot = x /\ runs'[n].status = "deferred"
    BY <1>3, <2>3, Inserted, RowsAre DEF Defer
  <2> HIDE DEF n
  <2>5. slotState' = [slotState EXCEPT ![x] = "kept"]
    BY <2>4, OneSlotMoves DEF Deferred
  <2>6. slotState[x] = "open"
    BY <2>2 DEF StateIs
  <2> QED
    BY <2>5, <2>6 DEF Service!Next, Service!Keep
<1>4. CASE StartRun
  <2> DEFINE n == Len(runs) + 1
             x == worker.starting
  <2>1. x \in Slots /\ RowsOf(x) = {}
    BY <1>4 DEF StartRun, Starting, TypeOK, RowsOf
  <2>2. [status |-> "running", started |-> now, slot |-> x, by |-> "worker"] \in Run
    BY <2>1 DEF Run, TypeOK
  <2>3. /\ Rows' = Rows \cup {n} /\ n \notin Rows
        /\ \A i \in Rows : runs'[i] = runs[i]
        /\ runs'[n].slot = x /\ runs'[n].status = "running"
    BY <1>4, <2>2, Inserted, RowsAre DEF StartRun
  <2> HIDE DEF n, x
  <2>4. slotState' = [slotState EXCEPT ![x] = "served"]
    BY <2>1, <2>3, OneSlotMoves DEF Deferred
  <2>5. slotState[x] = "open"
    BY <2>1 DEF StateIs
  <2> QED
    BY <2>1, <2>4, <2>5 DEF Service!Next, Service!Serve
<1>5. ASSUME NEW S \in SUBSET (Rows \ Deferred), Rewrites(S, {"completed", "failed"})
      PROVE  slotState' = slotState
  <2>1. Deferred' = Deferred
    BY <1>5 DEF Rewrites, Deferred
  <2> QED
    BY <1>5, <2>1, StateStays DEF Rewrites
<1>6. ASSUME NEW i \in Rows, TaskStep(i)
      PROVE  slotState' = slotState
  <2>1. i \in Rows \ Deferred
    BY <1>6 DEF TaskStep, WorkEnds, TaskEnds, TypeOK
  <2>2. CASE \E status \in {"completed", "failed"} : SetStatus(i, status)
    <3>1. Rewrites({i}, {"completed", "failed"})
      BY <2>2, SetStatusRewrites DEF Rewrites
    <3> QED
      BY <1>5, <2>1, <3>1
  <2>3. CASE UNCHANGED runs
    BY <2>3 DEF slotState, Rows, Deferred
  <2> QED
    BY <1>6, <2>2, <2>3 DEF TaskStep, WorkEnds, TaskEnds
<1>7. CASE Sweep \/ Restart
  <2>1. PICK S \in SUBSET Active : Rewrites(S, {"completed", "failed"})
    BY <1>7, SweptRewrites DEF Sweep, Restart
  <2>2. S \in SUBSET (Rows \ Deferred)
    BY DEF Active, Deferred
  <2> QED
    BY <1>5, <2>1, <2>2
<1>8. CASE WorkerDies
  <2>1. PICK cancelled \in SUBSET (IF handler = "feed" THEN working ELSE {}) :
            runs' = [i \in Rows |-> IF i \in cancelled
                                    THEN [runs[i] EXCEPT !.status = "failed"]
                                    ELSE runs[i]]
    BY <1>8 DEF WorkerDies
  <2>2. Rewrites(cancelled, {"completed", "failed"})
    BY <2>1, FailingRewrites DEF Rewrites
  <2>3. cancelled \in SUBSET (Rows \ Deferred)
    BY DEF TypeOK
  <2> QED
    BY <1>5, <2>2, <2>3
<1>9. CASE Request
  <2> DEFINE n == Len(runs) + 1
  <2>1. [status |-> "running", started |-> now, slot |-> NoSlot, by |-> "user"] \in Run
    BY DEF Run, TypeOK
  <2>2. /\ Rows' = Rows \cup {n} /\ n \notin Rows
        /\ \A i \in Rows : runs'[i] = runs[i]
        /\ runs'[n].slot = NoSlot /\ runs'[n].status = "running"
    BY <1>9, <2>1, Inserted, RowsAre DEF Request
  <2> HIDE DEF n
  <2>3. \A x \in Slots : RowsOf(x)' = RowsOf(x)
    BY <2>2, TimeAssumption DEF RowsOf, NoSlot
  <2>4. Deferred' = Deferred
    BY <2>2 DEF Deferred
  <2>5. \A x \in Slots : slotState'[x] = slotState[x]
    BY <2>3, <2>4, SlotStays
  <2> QED
    BY <2>5 DEF slotState
<1>10. CASE (\E x \in Slots : Decide(x)) \/ Tick \/ \E i \in Rows : Retry(i)
  <2>1. runs' = runs
    BY <1>10 DEF Decide, Tick, Retry
  <2> QED
    BY <2>1 DEF slotState, Rows, Deferred
<1> HIDE DEF Alone
<1> QED
  BY <1>1, <1>2, <1>3, <1>4, <1>6, <1>7, <1>8, <1>9, <1>10 DEF Next, Dispatch

(* Every slot is served once at most, and one that is kept stays kept      *)
(* until it is served, whatever fails, dies and is swept: the runs of a    *)
(* schedule implement the safety part of SlotService.                      *)
THEOREM SlotsAreServedOnce == Spec => Service!Init /\ [][Service!Next]_slotState
<1>1. Alone => SlotsOnce
  BY DEF Alone
<1>2. Alone /\ StateIs /\ StateIs' /\ [Next]_vars => [Service!Next]_slotState
  <2>1. CASE Next
    BY <2>1, ServiceStep
  <2>2. CASE UNCHANGED vars
    BY <2>2 DEF vars, slotState, Rows, Deferred
  <2> QED
    BY <2>1, <2>2
<1> QED
  BY <1>1, <1>2, SlotStateIs, ServiceInit, AloneInvariant, PTL DEF Spec

=============================================================================

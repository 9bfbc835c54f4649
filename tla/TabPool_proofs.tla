--------------------------- MODULE TabPool_proofs ---------------------------
(***************************************************************************)
(* Theorems about TabPool, for any callers, accounts, tabs and limits.     *)
(***************************************************************************)
EXTENDS TabPool, TLAPS

-----------------------------------------------------------------------------
(* The tabs in the hands of coroutines.                                    *)

Using(c) == pc[c] \in {"checking", "preparing", "holding", "leaving"}

(* A coroutine has a tab while it uses or closes one.                      *)
HandsFull == \A c \in Callers : tab[c] # NoTab <=> Using(c) \/ At(c, "closing")

(* As long as the browser closes what it is told to, a tab has one user and *)
(* is locked until somebody removes it, and what is being checked may be    *)
(* used once more.                                                         *)
OneUser == \A c, d \in Callers : Using(c) /\ Using(d) /\ tab[c] = tab[d] => c = d
Locked == \A c \in Callers : Using(c) /\ tab[c] \in pool => tab[c] \in inUse
NotWornOut == \A c \in Callers : At(c, "checking") => ~UsedUp(tab[c])

Closes == "browser" \notin faults
Exclusive == Closes => OneUser /\ Locked /\ NotWornOut

(* A page that is being prepared is in no list yet, and nobody else's.     *)
Unlisted ==
    \A c \in Callers : At(c, "preparing") =>
        /\ tab[c] \notin pool
        /\ \A d \in Callers : tab[c] \notin sweep[d] /\ (tab[d] = tab[c] => c = d)

(* What is being closed is still to be removed.                            *)
ClosedFirst ==
    \A c \in Callers : At(c, "closing") =>
        tab[c] \in sweep[c] /\ (Closes => tab[c] \notin open)

Hands == TypeOK /\ HandsFull /\ Exclusive /\ Unlisted /\ ClosedFirst

(* No coroutine has a tab at first. *)
LEMMA HandsInit == Init => Hands
  BY TabPoolAssumption DEF Init, Hands, TypeOK, HandsFull, Exclusive, OneUser, Locked,
     NotWornOut, Unlisted, ClosedFirst, Using, At, PCs

(* What a coroutine may do in one step.                                    *)
Step(c) == Cleanup(c) \/ Cancel(c) \/ Call(c)

(* A browser that has failed to close a page has failed for good.           *)
LEMMA ClosesBefore ==
    ASSUME NEW c \in Callers, Step(c), Closes'
    PROVE  Closes
<1> USE DEF Closes, Fault, tabs
<1>1. CASE Cleanup(c)
  BY <1>1 DEF Cleanup, BeginCleanup, CloseOrphan, Collect, CloseSwept, RemoveSwept,
     EndCleanup
<1>2. CASE Cancel(c)
  BY <1>2 DEF Cancel
<1>3. CASE Call(c)
  BY <1>3 DEF Call, TakeTab, CheckTab, BeginCreate, EndClearing, NewPage, Register,
     PrepareFails, TimesOut, ClosePage, Release
<1> QED
  BY <1>1, <1>2, <1>3 DEF Step

(* A step keeps the types; that no tab is worn out and that what is held is *)
(* in the pool is what its counters need.                                  *)
LEMMA TypeStep ==
    ASSUME TypeOK, HandsFull, Exclusive, NEW c \in Callers, Step(c)
    PROVE  TypeOK'
<1> USE TabPoolAssumption DEF TypeOK, At, Goto, Has, Returns, tabs, PCs
<1>1. CASE BeginCleanup(c) \/ CloseOrphan(c) \/ EndCleanup(c)
  BY <1>1 DEF BeginCleanup, CloseOrphan, EndCleanup
<1>2. CASE Collect(c)
  <2>1. \E s \in SUBSET Tabs : sweep' = [sweep EXCEPT ![c] = s]
    <3>1. ASSUME NEW old \in SUBSET (pool \ inUse)
          PROVE  {t \in pool \ inUse : UsedUp(t)} \cup old \in SUBSET Tabs
      OBVIOUS
    <3>2. CASE sweep' = [sweep EXCEPT ![c] = {t \in pool \ inUse : UsedUp(t)}]
      BY <3>2
    <3> QED
      BY <1>2, <3>1, <3>2 DEF Collect
  <2>2. faults' \subseteq FaultKinds
    BY <1>2 DEF Collect, Fault
  <2>3. "browser" \notin faults' => "browser" \notin faults
    BY ClosesBefore DEF Closes
  <2> QED
    BY <1>2, <2>1, <2>2, <2>3 DEF Collect
<1>3. CASE CloseSwept(c)
  BY <1>3 DEF CloseSwept, Fault
<1>4. CASE RemoveSwept(c)
  <2>1. sweep' \in [Callers -> SUBSET Tabs]
    <3>1. sweep[c] \ {tab[c]} \in SUBSET Tabs
      OBVIOUS
    <3> QED
      BY <1>4, <3>1 DEF RemoveSwept
  <2>2. inUse' \subseteq pool' /\ pool' \subseteq Tabs /\ faults' \subseteq FaultKinds
    BY <1>4 DEF RemoveSwept, Forget, Fault
  <2>3. /\ uses' \in [Tabs -> Nat]
        /\ Closes' => \A t \in Tabs : uses'[t] <= MaxUses
    <3>1. tab[c] \in Tabs
      BY <1>4 DEF RemoveSwept, HandsFull
    <3>2. uses' = [uses EXCEPT ![tab[c]] = 0]
      BY <1>4 DEF RemoveSwept, Forget
    <3>3. Closes' => Closes
      BY ClosesBefore
    <3> QED
      BY <3>1, <3>2, <3>3 DEF Closes
  <2> QED
    BY <1>4, <2>1, <2>2, <2>3 DEF RemoveSwept, Closes
<1>5. CASE TakeTab(c)
  BY <1>5 DEF TakeTab, Available, OfAccount
<1>6. CASE CheckTab(c)
  BY <1>6 DEF CheckTab, Forget, Exclusive, Closes, NotWornOut, UsedUp, HandsFull, Using
<1>7. CASE BeginCreate(c) \/ EndClearing(c) \/ TimesOut(c)
  BY <1>7 DEF BeginCreate, EndClearing, TimesOut
<1>8. CASE NewPage(c)
  BY <1>8 DEF NewPage, OfAccount
<1>9. CASE Register(c)
  BY <1>9 DEF Register, HandsFull, Using
<1>10. CASE PrepareFails(c) \/ ClosePage(c)
  BY <1>10 DEF PrepareFails, ClosePage, Fault, OfAccount
<1>11. CASE Release(c)
  BY <1>11 DEF Release
<1>12. CASE Cancel(c)
  BY <1>12 DEF Cancel, Fault
<1> QED
  BY <1>1, <1>2, <1>3, <1>4, <1>5, <1>6, <1>7, <1>8, <1>9, <1>10, <1>11, <1>12
     DEF Step, Cleanup, Call

(* Every way out of a label that has a tab gives the tab up.              *)
LEMMA HandsFullStep ==
    ASSUME Hands, NEW c \in Callers, Step(c)
    PROVE  HandsFull'
<1> USE TabPoolAssumption
<1> USE DEF TypeOK, HandsFull, Hands, Using, At, Goto, Has, Returns, tabs, PCs
<1> USE DEF Forget, UsedUp, Available, OfAccount,
           Fresh, Fault
<1>1. CASE BeginCleanup(c) \/ CloseOrphan(c) \/ Collect(c) \/ EndCleanup(c)
  BY <1>1 DEF BeginCleanup, CloseOrphan, Collect, EndCleanup
<1>2. CASE CloseSwept(c) \/ RemoveSwept(c)
  BY <1>2 DEF CloseSwept, RemoveSwept
<1>3. CASE TakeTab(c) \/ CheckTab(c) \/ BeginCreate(c) \/ EndClearing(c)
  BY <1>3 DEF TakeTab, CheckTab, BeginCreate, EndClearing
<1>4. CASE NewPage(c) \/ Register(c) \/ PrepareFails(c)
  BY <1>4 DEF NewPage, Register, PrepareFails
<1>5. CASE TimesOut(c) \/ ClosePage(c) \/ Release(c) \/ Cancel(c)
  BY <1>5 DEF TimesOut, ClosePage, Release, Cancel
<1> QED
  BY <1>1, <1>2, <1>3, <1>4, <1>5 DEF Step, Cleanup, Call

(* A tab that is taken is not locked, so it has no user; a new page is    *)
(* nobody's.                                                              *)
LEMMA OneUserStep ==
    ASSUME Hands, NEW c \in Callers, Step(c), Closes'
    PROVE  OneUser'
<1> USE TabPoolAssumption
<1>0. OneUser /\ Locked /\ NotWornOut /\ Closes
  BY ClosesBefore DEF Hands, Exclusive
<1> USE DEF TypeOK, HandsFull, OneUser, Locked, NotWornOut, Unlisted, Hands,
            Using, At, Goto, Has, Returns, tabs, PCs
<1> USE DEF Forget, UsedUp, Available, OfAccount, Fresh
<1>1. CASE BeginCleanup(c) \/ CloseOrphan(c) \/ Collect(c) \/ EndCleanup(c)
  BY <1>0, <1>1 DEF BeginCleanup, CloseOrphan, Collect, EndCleanup
<1>2. CASE CloseSwept(c) \/ RemoveSwept(c)
  BY <1>0, <1>2 DEF CloseSwept, RemoveSwept
<1>3. CASE TakeTab(c) \/ CheckTab(c) \/ BeginCreate(c) \/ EndClearing(c)
  BY <1>0, <1>3 DEF TakeTab, CheckTab, BeginCreate, EndClearing
<1>4. CASE NewPage(c) \/ Register(c) \/ PrepareFails(c)
  BY <1>0, <1>4 DEF NewPage, Register, PrepareFails
<1>5. CASE TimesOut(c) \/ ClosePage(c) \/ Release(c) \/ Cancel(c)
  BY <1>0, <1>5 DEF TimesOut, ClosePage, Release, Cancel
<1> QED
  BY <1>1, <1>2, <1>3, <1>4, <1>5 DEF Step, Cleanup, Call

(* A removal takes the lock along; only its user takes a lock off a tab    *)
(* that stays.                                                            *)
LEMMA LockedStep ==
    ASSUME Hands, NEW c \in Callers, Step(c), Closes'
    PROVE  Locked'
<1> USE TabPoolAssumption
<1>0. OneUser /\ Locked /\ NotWornOut /\ Closes
  BY ClosesBefore DEF Hands, Exclusive
<1> USE DEF TypeOK, HandsFull, OneUser, Locked, NotWornOut, Unlisted, Hands,
            Using, At, Goto, Has, Returns, tabs, PCs
<1> USE DEF Forget, UsedUp, Available, OfAccount, Fresh
<1>1. CASE BeginCleanup(c) \/ CloseOrphan(c) \/ Collect(c) \/ EndCleanup(c)
  BY <1>0, <1>1 DEF BeginCleanup, CloseOrphan, Collect, EndCleanup
<1>2. CASE CloseSwept(c) \/ RemoveSwept(c)
  BY <1>0, <1>2 DEF CloseSwept, RemoveSwept, Fault, Closes
<1>3. CASE TakeTab(c) \/ CheckTab(c) \/ BeginCreate(c) \/ EndClearing(c)
  BY <1>0, <1>3 DEF TakeTab, CheckTab, BeginCreate, EndClearing
<1>4. CASE NewPage(c) \/ Register(c) \/ PrepareFails(c)
  BY <1>0, <1>4 DEF NewPage, Register, PrepareFails
<1>5. CASE TimesOut(c) \/ ClosePage(c) \/ Release(c) \/ Cancel(c)
  BY <1>0, <1>5 DEF TimesOut, ClosePage, Release, Cancel
<1> QED
  BY <1>1, <1>2, <1>3, <1>4, <1>5 DEF Step, Cleanup, Call

(* The counter of a tab that is being checked is its user's.              *)
LEMMA NotWornOutStep ==
    ASSUME Hands, NEW c \in Callers, Step(c), Closes'
    PROVE  NotWornOut'
<1> USE TabPoolAssumption
<1>0. OneUser /\ Locked /\ NotWornOut /\ Closes
  BY ClosesBefore DEF Hands, Exclusive
<1> USE DEF TypeOK, HandsFull, OneUser, Locked, NotWornOut, Unlisted, Hands,
            Using, At, Goto, Has, Returns, tabs, PCs
<1> USE DEF Forget, UsedUp, Available, OfAccount, Fresh
<1>1. CASE BeginCleanup(c) \/ CloseOrphan(c) \/ Collect(c) \/ EndCleanup(c)
  BY <1>0, <1>1 DEF BeginCleanup, CloseOrphan, Collect, EndCleanup
<1>2. CASE CloseSwept(c) \/ RemoveSwept(c)
  BY <1>0, <1>2 DEF CloseSwept, RemoveSwept
<1>3. CASE TakeTab(c) \/ CheckTab(c) \/ BeginCreate(c) \/ EndClearing(c)
  BY <1>0, <1>3 DEF TakeTab, CheckTab, BeginCreate, EndClearing
<1>4. CASE NewPage(c) \/ Register(c) \/ PrepareFails(c)
  BY <1>0, <1>4 DEF NewPage, Register, PrepareFails
<1>5. CASE TimesOut(c) \/ ClosePage(c) \/ Release(c) \/ Cancel(c)
  BY <1>0, <1>5 DEF TimesOut, ClosePage, Release, Cancel
<1> QED
  BY <1>1, <1>2, <1>3, <1>4, <1>5 DEF Step, Cleanup, Call

(* What is collected, or taken, is in the pool; a new page is nobody's.   *)
LEMMA UnlistedStep ==
    ASSUME Hands, NEW c \in Callers, Step(c)
    PROVE  Unlisted'
<1> USE TabPoolAssumption
<1> USE DEF TypeOK, HandsFull, Unlisted, Hands, Using, At, Goto, Has, Returns, tabs, PCs
<1> USE DEF Forget, UsedUp, Available, OfAccount, Fresh
<1>1. CASE BeginCleanup(c) \/ CloseOrphan(c) \/ Collect(c) \/ EndCleanup(c)
  BY <1>1 DEF BeginCleanup, CloseOrphan, Collect, EndCleanup
<1>2. CASE CloseSwept(c) \/ RemoveSwept(c)
  BY <1>2 DEF CloseSwept, RemoveSwept
<1>3. CASE TakeTab(c) \/ CheckTab(c) \/ BeginCreate(c) \/ EndClearing(c)
  BY <1>3 DEF TakeTab, CheckTab, BeginCreate, EndClearing
<1>4. CASE NewPage(c) \/ Register(c) \/ PrepareFails(c)
  BY <1>4 DEF NewPage, Register, PrepareFails
<1>5. CASE TimesOut(c) \/ ClosePage(c) \/ Release(c) \/ Cancel(c)
  BY <1>5 DEF TimesOut, ClosePage, Release, Cancel
<1> QED
  BY <1>1, <1>2, <1>3, <1>4, <1>5 DEF Step, Cleanup, Call

(* A page that has been closed is not opened again.                       *)
LEMMA ClosedFirstStep ==
    ASSUME Hands, NEW c \in Callers, Step(c)
    PROVE  ClosedFirst'
<1> USE TabPoolAssumption
<1>0. Closes' => Closes
  BY ClosesBefore
<1> USE DEF TypeOK, HandsFull, ClosedFirst, Unlisted, Hands, Using, At, Goto, Has,
            Returns, tabs, PCs
<1> USE DEF Forget, UsedUp, Available, OfAccount, Fresh, Fault, Closes
<1>1. CASE BeginCleanup(c) \/ CloseOrphan(c) \/ Collect(c) \/ EndCleanup(c)
  BY <1>0, <1>1 DEF BeginCleanup, CloseOrphan, Collect, EndCleanup
<1>2. CASE CloseSwept(c) \/ RemoveSwept(c)
  BY <1>0, <1>2 DEF CloseSwept, RemoveSwept
<1>3. CASE TakeTab(c) \/ CheckTab(c) \/ BeginCreate(c) \/ EndClearing(c)
  BY <1>0, <1>3 DEF TakeTab, CheckTab, BeginCreate, EndClearing
<1>4. CASE NewPage(c) \/ Register(c) \/ PrepareFails(c)
  BY <1>0, <1>4 DEF NewPage, Register, PrepareFails
<1>5. CASE TimesOut(c) \/ ClosePage(c) \/ Release(c) \/ Cancel(c)
  BY <1>0, <1>5 DEF TimesOut, ClosePage, Release, Cancel
<1> QED
  BY <1>1, <1>2, <1>3, <1>4, <1>5 DEF Step, Cleanup, Call

(* Every step, of a coroutine or of none. *)
LEMMA HandsInductive == Hands /\ [Next]_vars => Hands'
<1>1. ASSUME Hands, NEW c \in Callers, Step(c) PROVE Hands'
  BY <1>1, TypeStep, HandsFullStep, OneUserStep, LockedStep, NotWornOutStep,
     UnlistedStep, ClosedFirstStep DEF Hands, Exclusive
<1>2. ASSUME Hands, UNCHANGED vars PROVE Hands'
  BY <1>2 DEF Hands, TypeOK, HandsFull, Exclusive, Closes, OneUser, Locked, NotWornOut,
     Unlisted, ClosedFirst, Using, At, UsedUp, vars, tabs
<1> QED
  BY <1>1, <1>2 DEF Next, Step

(* A coroutine has a tab exactly while it uses or closes one, no tab has    *)
(* two users, and a lock is only taken off by its user or with the tab.  So *)
(* no interleaving of the awaits of get_tab, release_tab and                *)
(* cleanup_old_tabs gives a tab to two callers.                             *)
THEOREM HandsInvariant == Spec => []Hands
  BY HandsInit, HandsInductive, PTL DEF Spec

(* The state of the pool is well-formed: what is locked is in the pool, and *)
(* no tab is used more often than MAX_USES_PER_TAB allows.                  *)
THEOREM TypeCorrect == Spec => []TypeOK
<1>1. Hands => TypeOK
  BY DEF Hands
<1> QED
  BY <1>1, HandsInvariant, PTL

(* For any number of callers and accounts, no two coroutines have the same  *)
(* tab, but for one that is closing it.                                     *)
THEOREM TabsAreExclusive == Spec => []TabIsExclusive
<1>1. Hands => TabIsExclusive
  BY DEF Hands, HandsFull, Exclusive, Closes, OneUser, TabIsExclusive, At
<1> QED
  BY <1>1, HandsInvariant, PTL

-----------------------------------------------------------------------------
(* Tabs that are used again.                                               *)

(* Unless tabs have been found idle, what is to be removed is worn out and  *)
(* not in use, and a user's tab is in the pool.                            *)
OnlySpentAreSwept ==
    {"idle", "browser"} \cap faults = {} =>
        /\ \A c \in Callers : \A t \in sweep[c] \cap pool : UsedUp(t) /\ t \notin inUse
        /\ \A c \in Callers : Using(c) /\ ~At(c, "preparing") => tab[c] \in pool

(* A sweep takes only tabs that are spent. *)
LEMMA OnlySpentStep ==
    ASSUME Hands, OnlySpentAreSwept, NEW c \in Callers, Step(c)
    PROVE  OnlySpentAreSwept'
<1> USE TabPoolAssumption
<1>0. /\ Closes' => Closes
      /\ Closes => OneUser /\ Locked /\ NotWornOut
  BY ClosesBefore DEF Hands, Exclusive
<1> USE DEF Hands, TypeOK, HandsFull, OneUser, Locked, Closes, Unlisted,
            ClosedFirst, OnlySpentAreSwept,
            Using, At, Goto, Has, Returns, tabs, PCs
<1> USE DEF Forget, UsedUp, Available, OfAccount, Fresh, Fault
<1>1. CASE BeginCleanup(c) \/ CloseOrphan(c) \/ Collect(c) \/ EndCleanup(c)
  <2>1. CASE Collect(c)
    BY <1>0, <2>1 DEF Collect
  <2>2. CASE BeginCleanup(c) \/ CloseOrphan(c) \/ EndCleanup(c)
    BY <1>0, <2>2 DEF BeginCleanup, CloseOrphan, EndCleanup
  <2> QED
    BY <1>1, <2>1, <2>2
<1>2. CASE CloseSwept(c) \/ RemoveSwept(c)
  BY <1>0, <1>2 DEF CloseSwept, RemoveSwept
<1>3. CASE TakeTab(c) \/ CheckTab(c) \/ BeginCreate(c) \/ EndClearing(c)
  BY <1>0, <1>3 DEF TakeTab, CheckTab, BeginCreate, EndClearing
<1>4. CASE NewPage(c) \/ Register(c) \/ PrepareFails(c)
  BY <1>0, <1>4 DEF NewPage, Register, PrepareFails
<1>5. CASE TimesOut(c) \/ ClosePage(c) \/ Release(c) \/ Cancel(c)
  BY <1>0, <1>5 DEF TimesOut, ClosePage, Release, Cancel
<1> QED
  BY <1>1, <1>2, <1>3, <1>4, <1>5 DEF Step, Cleanup, Call

(* A tab that is handed out again was found open, and nobody closes it. *)
LEMMA ReusedStep ==
    ASSUME Hands, OnlySpentAreSwept, ReusedIsOpen, NEW c \in Callers, Step(c)
    PROVE  ReusedIsOpen'
<1> USE TabPoolAssumption
<1>0. /\ Closes' => Closes
      /\ Closes => OneUser /\ Locked /\ NotWornOut
  BY ClosesBefore DEF Hands, Exclusive
<1> USE DEF Hands, TypeOK, HandsFull, OneUser, Locked, Closes, Unlisted,
            ClosedFirst, OnlySpentAreSwept,
            ReusedIsOpen, Using, At, Goto, Has, Returns, tabs, PCs
<1> USE DEF Forget, UsedUp, Available, OfAccount, Fresh, Fault
<1>1. CASE BeginCleanup(c) \/ CloseOrphan(c) \/ Collect(c) \/ EndCleanup(c)
  BY <1>0, <1>1 DEF BeginCleanup, CloseOrphan, Collect, EndCleanup
<1>2. CASE CloseSwept(c) \/ RemoveSwept(c)
  BY <1>0, <1>2 DEF CloseSwept, RemoveSwept
<1>3. CASE TakeTab(c) \/ CheckTab(c) \/ BeginCreate(c) \/ EndClearing(c)
  BY <1>0, <1>3 DEF TakeTab, CheckTab, BeginCreate, EndClearing
<1>4. CASE NewPage(c) \/ Register(c) \/ PrepareFails(c)
  BY <1>0, <1>4 DEF NewPage, Register, PrepareFails
<1>5. CASE TimesOut(c) \/ ClosePage(c) \/ Release(c) \/ Cancel(c)
  BY <1>0, <1>5 DEF TimesOut, ClosePage, Release, Cancel
<1> QED
  BY <1>1, <1>2, <1>3, <1>4, <1>5 DEF Step, Cleanup, Call

(* As long as no tab has been found idle, a tab that is handed out again is *)
(* open while it is held, whatever else is swept, closed and cancelled.     *)
THEOREM ReusedTabsAreOpen == Spec => []ReusedIsOpen
<1>1. Init => OnlySpentAreSwept /\ ReusedIsOpen
  BY DEF Init, OnlySpentAreSwept, ReusedIsOpen, Using, At
<1>2. Hands /\ OnlySpentAreSwept /\ ReusedIsOpen /\ [Next]_vars
      => (OnlySpentAreSwept /\ ReusedIsOpen)'
  <2>1. CASE UNCHANGED vars
    BY <2>1 DEF OnlySpentAreSwept, ReusedIsOpen, Using, At, UsedUp, vars, tabs
  <2> QED
    BY <2>1, OnlySpentStep, ReusedStep DEF Next, Step
<1> QED
  BY <1>1, <1>2, HandsInvariant, PTL DEF Spec

-----------------------------------------------------------------------------
(* What may be lost.                                                       *)

(* Unless a call has been cancelled, what is locked has a user, and an open *)
(* page that is not in the pool is being prepared.                         *)
Accounted ==
    "cancel" \notin faults =>
        /\ \A t \in inUse : \E c \in Callers : Using(c) /\ tab[c] = t
        /\ Closes => \A t \in open \ pool :
                        \E c \in Callers : At(c, "preparing") /\ tab[c] = t

(* A page stays in the pool, in the hands of a coroutine, or closed. *)
LEMMA AccountedStep ==
    ASSUME Hands, Accounted, NEW c \in Callers, Step(c)
    PROVE  Accounted'
<1> USE TabPoolAssumption
<1>0. Closes' => Closes
  BY ClosesBefore
<1> USE DEF Hands, TypeOK, HandsFull, Unlisted, ClosedFirst, Accounted, Closes,
            Using, At, Goto, Has, Returns, tabs, PCs
<1> USE DEF Forget, UsedUp, Available, OfAccount, Fresh, Fault
<1>1. CASE BeginCleanup(c) \/ CloseOrphan(c) \/ Collect(c) \/ EndCleanup(c)
  BY <1>0, <1>1 DEF BeginCleanup, CloseOrphan, Collect, EndCleanup
<1>2. CASE CloseSwept(c) \/ RemoveSwept(c)
  BY <1>0, <1>2 DEF CloseSwept, RemoveSwept
<1>3. CASE TakeTab(c) \/ CheckTab(c) \/ BeginCreate(c) \/ EndClearing(c)
  BY <1>0, <1>3 DEF TakeTab, CheckTab, BeginCreate, EndClearing
<1>4. CASE NewPage(c) \/ Register(c) \/ PrepareFails(c)
  BY <1>0, <1>4 DEF NewPage, Register, PrepareFails
<1>5. CASE TimesOut(c) \/ ClosePage(c) \/ Release(c) \/ Cancel(c)
  BY <1>0, <1>5 DEF TimesOut, ClosePage, Release, Cancel
<1> QED
  BY <1>1, <1>2, <1>3, <1>4, <1>5 DEF Step, Cleanup, Call

(* Without cancellations no path through get_tab and release_tab loses a    *)
(* lock or a page.                                                         *)
THEOREM NothingGetsLost == Spec => []NothingIsLost
<1>1. Init => Accounted
  BY DEF Init, Accounted
<1>2. Hands /\ Accounted /\ [Next]_vars => Accounted'
  <2>1. CASE UNCHANGED vars
    BY <2>1 DEF Accounted, Closes, Using, At, vars, tabs
  <2> QED
    BY <2>1, AccountedStep DEF Next, Step
<1>3. Accounted => NothingIsLost
  BY DEF Accounted, Closes, NothingIsLost
<1> QED
  BY <1>1, <1>2, <1>3, HandsInvariant, PTL DEF Spec
=============================================================================

------------------------------- MODULE TabPool -------------------------------
(* The browser tabs of several accounts: coroutines of one event loop take   *)
(* tabs from a pool, create tabs, give them back, and clean up.  There is no *)
(* lock; a coroutine is interrupted at its awaits, and an action here goes   *)
(* from one await to the next.                                               *)
EXTENDS Naturals, FiniteSets

CONSTANTS
    Callers,     \* coroutines that call get_tab and release_tab
    Closers,     \* the callers that close the page before they give it back
    Accounts,
    AccountOf,   \* the account of a caller, and of a tab
    Tabs,        \* pages that the browsers may have at a time
    MaxTabs,     \* TOTAL_MAX_TABS
    MaxUses,     \* MAX_USES_PER_TAB
    FaultKinds,  \* the faults that may happen
    MaxFaults    \* bound: how many kinds of them

NoTab == "no tab"

ASSUME TabPoolAssumption ==
    /\ IsFiniteSet(Tabs) /\ NoTab \notin Tabs
    /\ Closers \subseteq Callers
    /\ AccountOf \in [Callers \cup Tabs -> Accounts]
    /\ MaxTabs \in Nat /\ MaxUses \in Nat \ {0}
    /\ FaultKinds \subseteq {"cancel", "idle", "browser"}
    /\ MaxFaults \in Nat

VARIABLES
    open,     \* the pages that are open
    pool,     \* the tabs in tab_pools and tab_pool
    inUse,    \* the tabs whose tab_in_use is true
    uses,     \* tab_use_count
    pc,       \* where a coroutine is
    tab,      \* the tab a coroutine is busy with
    sweep,    \* tabs_to_remove of a coroutine in cleanup_old_tabs
    faults    \* the kinds of faults that have happened

tabs == <<open, pool, inUse, uses>>
vars == <<tabs, pc, tab, sweep, faults>>

PCs == {"idle", "orphans", "sweeping", "closing", "seeking", "checking",
        "clearing", "creating", "preparing", "holding", "leaving"}

TypeOK ==
    /\ open \subseteq Tabs /\ pool \subseteq Tabs
    /\ inUse \subseteq pool
    /\ uses \in [Tabs -> Nat]
    /\ "browser" \notin faults => \A t \in Tabs : uses[t] <= MaxUses
    /\ pc \in [Callers -> PCs]
    /\ tab \in [Callers -> Tabs \cup {NoTab}]
    /\ sweep \in [Callers -> SUBSET Tabs]
    /\ faults \subseteq FaultKinds

Init ==
    /\ open = {} /\ pool = {} /\ inUse = {}
    /\ uses = [t \in Tabs |-> 0]
    /\ pc = [c \in Callers |-> "idle"]
    /\ tab = [c \in Callers |-> NoTab]
    /\ sweep = [c \in Callers |-> {}]
    /\ faults = {}

At(c, label) == pc[c] = label
Goto(c, label) == pc' = [pc EXCEPT ![c] = label]
Has(c, t) == tab' = [tab EXCEPT ![c] = t]

(* A coroutine that has come to the end of its call. *)
Returns(c) == Goto(c, "idle") /\ Has(c, NoTab)

Fault(kind) ==
    /\ kind \in FaultKinds
    /\ faults' = faults \cup {kind}
    /\ Cardinality(faults') <= MaxFaults

OfAccount(c) == {t \in Tabs : AccountOf[t] = AccountOf[c]}

(* A page that does not exist yet. *)
Fresh(t) == /\ t \notin open \cup pool
            /\ \A c \in Callers : tab[c] # t /\ t \notin sweep[c]

-----------------------------------------------------------------------------
(* cleanup_old_tabs, at the beginning of get_tab.  The resource monitor only *)
(* cleans up, as a call does that times out when it has cleaned up.          *)

BeginCleanup(c) ==
    /\ At(c, "idle")
    /\ Goto(c, "orphans")
    /\ UNCHANGED <<tabs, tab, sweep, faults>>

(* A page that is not in the pool is an orphan, if it is blank: and so is    *)
(* one that somebody else is preparing.                                      *)
CloseOrphan(c) ==
    /\ pc[c] \in {"orphans", "clearing"}
    /\ \E t \in open \ pool : open' = open \ {t}
    /\ UNCHANGED <<pool, inUse, uses, pc, tab, sweep, faults>>

UsedUp(t) == uses[t] >= MaxUses

(* The tabs to be removed: used up, or idle for too long.                    *)
Collect(c) ==
    /\ At(c, "orphans")
    /\ LET used == {t \in pool \ inUse : UsedUp(t)} IN
       \/ sweep' = [sweep EXCEPT ![c] = used] /\ UNCHANGED faults
       \/ /\ Fault("idle")
          /\ \E old \in SUBSET (pool \ inUse) : sweep' = [sweep EXCEPT ![c] = used \cup old]
    /\ Goto(c, "sweeping")
    /\ UNCHANGED <<tabs, tab>>

Forget(t) ==
    /\ pool' = pool \ {t}
    /\ inUse' = inUse \ {t}
    /\ uses' = [uses EXCEPT ![t] = 0]

(* The close of a collected tab, which may be in use by now: the page is     *)
(* closed, or it stays open.                                                 *)
CloseSwept(c) ==
    /\ At(c, "sweeping")
    /\ \E t \in sweep[c] \cap pool :
          /\ \/ open' = open \ {t} /\ UNCHANGED faults
             \/ Fault("browser") /\ UNCHANGED open
          /\ Has(c, t)
    /\ Goto(c, "closing")
    /\ UNCHANGED <<pool, inUse, uses, sweep>>

(* A tab whose close has raised stays in the pool; but what is known of it,  *)
(* its lock and its uses, is forgotten.                                      *)
RemoveSwept(c) ==
    /\ At(c, "closing")
    /\ \/ tab[c] \notin open /\ Forget(tab[c]) /\ UNCHANGED faults
       \/ /\ Fault("browser")
          /\ inUse' = inUse \ {tab[c]} /\ uses' = [uses EXCEPT ![tab[c]] = 0]
          /\ UNCHANGED pool
    /\ sweep' = [sweep EXCEPT ![c] = @ \ {tab[c]}]
    /\ Goto(c, "sweeping") /\ Has(c, NoTab)
    /\ UNCHANGED open

(* Collected tabs that somebody else has removed are passed over. *)
EndCleanup(c) ==
    /\ At(c, "sweeping") /\ sweep[c] \cap pool = {}
    /\ sweep' = [sweep EXCEPT ![c] = {}]
    /\ Goto(c, "seeking")
    /\ UNCHANGED <<tabs, tab, faults>>

Cleanup(c) ==
    \/ BeginCleanup(c) \/ CloseOrphan(c) \/ Collect(c)
    \/ CloseSwept(c) \/ RemoveSwept(c) \/ EndCleanup(c)

-----------------------------------------------------------------------------
(* The loop of get_tab. *)

(* Variant: a tab may be used as long as it is there. *)
AvailableUsed(c) == (pool \ inUse) \cap OfAccount(c)

Available(c) == {t \in (pool \ inUse) \cap OfAccount(c) : ~UsedUp(t)}

(* Variant: the tab is locked when it has been found open. *)
TakeLater(c) ==
    /\ At(c, "seeking")
    /\ \E t \in Available(c) : Has(c, t)
    /\ Goto(c, "checking")
    /\ UNCHANGED <<tabs, sweep, faults>>

(* The tab is locked before the await that finds out whether it is open.     *)
TakeTab(c) ==
    /\ At(c, "seeking")
    /\ \E t \in Available(c) : inUse' = inUse \cup {t} /\ Has(c, t)
    /\ Goto(c, "checking")
    /\ UNCHANGED <<open, pool, uses, sweep, faults>>

(* A tab that has been closed leaves the pool; the lock of one that somebody *)
(* has removed meanwhile is gone.                                            *)
CheckTab(c) ==
    /\ At(c, "checking")
    /\ \/ /\ tab[c] \in open
          /\ uses' = [uses EXCEPT ![tab[c]] = @ + 1]
          /\ Goto(c, "holding")
          /\ UNCHANGED <<pool, inUse, tab>>
       \/ /\ tab[c] \notin open
          /\ Forget(tab[c])
          /\ Goto(c, "seeking") /\ Has(c, NoTab)
    /\ UNCHANGED <<open, sweep, faults>>

(* The number of tabs is looked at here, and the tab is created later.       *)
BeginCreate(c) ==
    /\ At(c, "seeking") /\ Available(c) = {}
    /\ Cardinality(pool) < MaxTabs
    /\ Goto(c, IF Cardinality(open \cap OfAccount(c)) < MaxTabs THEN "creating"
               ELSE "clearing")
    /\ UNCHANGED <<tabs, tab, sweep, faults>>

(* Orphans have been closed to make room. *)
EndClearing(c) ==
    /\ At(c, "clearing")
    /\ Goto(c, IF Cardinality(open \cap OfAccount(c)) < MaxTabs THEN "creating"
               ELSE "seeking")
    /\ UNCHANGED <<tabs, tab, sweep, faults>>

NewPage(c) ==
    /\ At(c, "creating")
    /\ \E t \in OfAccount(c) :
          Fresh(t) /\ open' = open \cup {t} /\ Has(c, t)
    /\ Goto(c, "preparing")
    /\ UNCHANGED <<pool, inUse, uses, sweep, faults>>

(* The page has its headers and is registered, even if it was closed while   *)
(* the answer was under way.                                                 *)
Register(c) ==
    /\ At(c, "preparing")
    /\ pool' = pool \cup {tab[c]}
    /\ inUse' = inUse \cup {tab[c]}
    /\ uses' = [uses EXCEPT ![tab[c]] = 1]
    /\ Goto(c, "holding")
    /\ UNCHANGED <<open, tab, sweep, faults>>

(* Variant: only the error is passed on. *)
PrepareFailsOpen(c) ==
    /\ pc[c] \in {"creating", "preparing"}
    /\ Returns(c)
    /\ UNCHANGED <<tabs, sweep, faults>>

(* An error: the finally block closes a page that is not registered.  The    *)
(* close may fail, and new_page may time out and open the page nevertheless. *)
PrepareFails(c) ==
    /\ pc[c] \in {"creating", "preparing"}
    /\ \/ open' = open \ {tab[c]} /\ UNCHANGED faults
       \/ At(c, "preparing") /\ Fault("browser") /\ UNCHANGED open
       \/ /\ At(c, "creating") /\ Fault("browser")
          /\ \E t \in OfAccount(c) : Fresh(t) /\ open' = open \cup {t}
    /\ Returns(c)
    /\ UNCHANGED <<pool, inUse, uses, sweep>>

TimesOut(c) ==
    /\ At(c, "seeking")
    /\ Returns(c)
    /\ UNCHANGED <<tabs, sweep, faults>>

-----------------------------------------------------------------------------
(* The caller. *)

ClosePage(c) ==
    /\ At(c, "holding") /\ c \in Closers
    /\ open' = open \ {tab[c]}
    /\ Goto(c, "leaving")
    /\ UNCHANGED <<pool, inUse, uses, tab, sweep, faults>>

(* release_tab; those who wait begin the loop again, now or in 5 seconds.    *)
Release(c) ==
    /\ At(c, IF c \in Closers THEN "leaving" ELSE "holding")
    /\ inUse' = inUse \ {tab[c]}
    /\ Returns(c)
    /\ UNCHANGED <<open, pool, uses, sweep, faults>>

(* The call is cancelled at an await: nothing undoes a lock on a tab that is *)
(* being checked; a page that is being prepared is closed.                   *)
Cancel(c) ==
    /\ Fault("cancel") /\ pc[c] \notin {"idle", "holding", "leaving"}
    /\ open' = IF At(c, "preparing") THEN open \ {tab[c]} ELSE open
    /\ sweep' = [sweep EXCEPT ![c] = {}]
    /\ Returns(c)
    /\ UNCHANGED <<pool, inUse, uses>>

Call(c) ==
    \/ TakeTab(c) \/ CheckTab(c)
    \/ BeginCreate(c) \/ EndClearing(c) \/ NewPage(c) \/ Register(c)
    \/ PrepareFails(c) \/ TimesOut(c)
    \/ ClosePage(c) \/ Release(c)

-----------------------------------------------------------------------------
Next == \E c \in Callers : Cleanup(c) \/ Cancel(c) \/ Call(c)

Spec == Init /\ [][Next]_vars

-----------------------------------------------------------------------------
(* Properties. *)

(* No two coroutines have the same tab, whatever is cleaned up, closed or    *)
(* cancelled while one of them waits for its browser, as long as the browser *)
(* closes the pages that are swept.  (The lock of get_tab is a flag that is  *)
(* set before the await; cleanup_old_tabs removes flags, also that of a tab  *)
(* that it could not close.)                                                 *)
TabIsExclusive ==
    "browser" \notin faults =>
        \A c, d \in Callers : c # d /\ tab[c] # NoTab => tab[c] # tab[d]
                              \/ "closing" \in {pc[c], pc[d]}

(* A tab that is handed out again is open, and stays open while it is held:  *)
(* no cleanup retires it under its user, and one whose user has closed it is *)
(* found out.  (Tabs that are used up are not available, and those in use    *)
(* are not collected.  A tab that has been idle for ten minutes may be       *)
(* closed under its user, and so may a page that is being prepared, and a    *)
(* tab whose uses are forgotten when it could not be closed.)                *)
ReusedIsOpen ==
    {"idle", "browser"} \cap faults = {} =>
        \A c \in Callers : At(c, "holding") /\ uses[tab[c]] > 1 => tab[c] \in open

(* Nothing is lost, unless a call is cancelled: a lock has a holder, and an  *)
(* open page that is not in the pool is being prepared by somebody, or the   *)
(* browser has failed to close it.  (Every way out of get_tab, release_tab   *)
(* and cleanup_old_tabs.)                                                    *)
NothingIsLost ==
    "cancel" \notin faults =>
        /\ \A t \in inUse : \E c \in Callers : tab[c] = t
        /\ \A t \in open \ pool : \/ \E c \in Callers : tab[c] = t
                                 \/ "browser" \in faults
=============================================================================

----------------------------- MODULE MergeTurn -----------------------------
(***************************************************************************)
(* What the merge queue promises, without Redis: a line of runners, and    *)
(* threads that ask for the turn of their runner.  A turn is granted only  *)
(* to a thread whose runner is first in line; nobody enters the line twice *)
(* or anywhere but at its end.  The promise is no stronger than that: a    *)
(* runner can be dropped from the line while its thread still asks or      *)
(* still has the turn.                                                     *)
(***************************************************************************)
EXTENDS Sequences, SequencesExt

CONSTANTS
    Threads,    \* the threads that ask
    Runners,    \* who can be in line
    RunnerOf    \* the runner a thread asks for

VARIABLES
    line,   \* runners in order of arrival
    state   \* of each thread: "out", "asking" or "granted"

turnVars == <<line, state>>

States == {"out", "asking", "granted"}

Init ==
    /\ line = <<>>
    /\ state = [t \in Threads |-> "out"]

Ask(t) ==
    /\ state[t] = "out"
    /\ state' = [state EXCEPT ![t] = "asking"]
    /\ UNCHANGED line

Join(t) ==
    /\ state[t] = "asking"
    /\ ~ Contains(line, RunnerOf[t])
    /\ line' = Append(line, RunnerOf[t])
    /\ UNCHANGED state

Grant(t) ==
    /\ state[t] = "asking"
    /\ line # <<>>
    /\ Head(line) = RunnerOf[t]
    /\ state' = [state EXCEPT ![t] = "granted"]
    /\ UNCHANGED line

(* Threads give up, finish, or die together. *)
Leave(S) ==
    /\ state' = [t \in Threads |-> IF t \in S THEN "out" ELSE state[t]]
    /\ UNCHANGED line

Drop(r) ==
    /\ line' = RemoveFirst(line, r)
    /\ UNCHANGED state

(* A thread that gives up takes its runner with it. *)
Withdraw(t) ==
    /\ state[t] = "asking"
    /\ state' = [state EXCEPT ![t] = "out"]
    /\ line' = RemoveFirst(line, RunnerOf[t])

Vanish ==
    /\ line' = <<>>
    /\ UNCHANGED state

Next ==
    \/ \E t \in Threads : Ask(t) \/ Join(t) \/ Grant(t) \/ Withdraw(t)
    \/ \E S \in SUBSET Threads : Leave(S)
    \/ \E r \in Runners : Drop(r)
    \/ Vanish

TurnSpec == Init /\ [][Next]_turnVars
=============================================================================

------------------------------- MODULE SemAbs -------------------------------
(***************************************************************************)
(* What a counting semaphore promises its callers: a number of units that  *)
(* is never negative, tasks that wait for one while there is none, and     *)
(* posts that hand a unit to a waiting task of the highest priority or     *)
(* keep it.  NxSem implements this with the one signed counter of sem_t.   *)
(***************************************************************************)
EXTENDS Naturals, FiniteSets

CONSTANTS Tasks, Sems, Prios, Counts

VARIABLES
  value,  \* units available, per semaphore
  waits,  \* the tasks that wait, per semaphore
  out,    \* how the call of a task stands: idle, waiting, got or gaveup
  prio    \* priority of each task

vars == <<value, waits, out, prio>>

Init ==
  /\ value \in [Sems -> Nat]
  /\ waits = [s \in Sems |-> {}]
  /\ out = [t \in Tasks |-> "idle"]
  /\ prio \in [Tasks -> Prios]

(* A unit is available: the call goes on with it, or returns at once *)
Take(t, s) ==
  /\ out[t] = "idle" /\ value[s] > 0
  /\ value' = [value EXCEPT ![s] = @ - 1]
  /\ \E o \in {"got", "idle"} : out' = [out EXCEPT ![t] = o]
  /\ UNCHANGED <<waits, prio>>

(* The call fails without waiting *)
Refuse(t) ==
  /\ out[t] = "idle"
  /\ out' = [out EXCEPT ![t] = "gaveup"]
  /\ UNCHANGED <<value, waits, prio>>

(* The call returns what it has got *)
Return(t) ==
  /\ out[t] \in {"got", "gaveup"}
  /\ out' = [out EXCEPT ![t] = "idle"]
  /\ UNCHANGED <<value, waits, prio>>

Wait(t, s) ==
  /\ out[t] = "idle" /\ value[s] = 0
  /\ waits' = [waits EXCEPT ![s] = @ \cup {t}]
  /\ out' = [out EXCEPT ![t] = "waiting"]
  /\ UNCHANGED <<value, prio>>

(* A signal or a timeout ends the wait *)
GiveUp(t, s) ==
  /\ t \in waits[s]
  /\ waits' = [waits EXCEPT ![s] = @ \ {t}]
  /\ out' = [out EXCEPT ![t] = "gaveup"]
  /\ UNCHANGED <<value, prio>>

(* n of the waiting tasks with the highest priorities get a unit each, and *)
(* r units are available then                                              *)
Deal(s, n, r) ==
  \E G \in SUBSET waits[s] :
    /\ Cardinality(G) = n
    /\ \A t \in G, u \in waits[s] \ G : prio[u] <= prio[t]
    /\ waits' = [waits EXCEPT ![s] = @ \ G]
    /\ out' = [t \in Tasks |-> IF t \in G THEN "got" ELSE out[t]]
    /\ value' = [value EXCEPT ![s] = r]
    /\ UNCHANGED prio

Post(s) ==
  IF waits[s] = {} THEN Deal(s, 0, value[s] + 1) ELSE Deal(s, 1, value[s])

Reset(s, c) ==
  LET w == Cardinality(waits[s])
  IN IF c <= w THEN Deal(s, c, 0) ELSE Deal(s, w, c - w)

(* The task is deleted or starts over, with a priority of its own *)
Renew(t, p) ==
  /\ waits' = [s \in Sems |-> waits[s] \ {t}]
  /\ out' = [out EXCEPT ![t] = "idle"]
  /\ prio' = [prio EXCEPT ![t] = p]
  /\ UNCHANGED value

SetPriority(t, p) ==
  /\ prio' = [prio EXCEPT ![t] = p]
  /\ UNCHANGED <<value, waits, out>>

Next ==
  \/ \E t \in Tasks : Refuse(t) \/ Return(t)
  \/ \E t \in Tasks, p \in Prios : Renew(t, p) \/ SetPriority(t, p)
  \/ \E t \in Tasks, s \in Sems : Take(t, s) \/ Wait(t, s) \/ GiveUp(t, s)
  \/ \E s \in Sems : Post(s)
  \/ \E s \in Sems, c \in Counts : Reset(s, c)

Spec == Init /\ [][Next]_vars
=============================================================================

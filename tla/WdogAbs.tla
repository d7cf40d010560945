------------------------------ MODULE WdogAbs -------------------------------
(***************************************************************************)
(* What the watchdog timers promise their users: a timer that was started  *)
(* with a delay runs its function once, in the tick in which its time is   *)
(* up and in no other, unless it is cancelled or started anew.  Wdog       *)
(* implements this with a list of differences.                             *)
(***************************************************************************)
EXTENDS Integers

CONSTANTS Timers, Delays

Inactive == -1

VARIABLE rem   \* ticks until each timer runs, or Inactive

Running(w) == rem[w] # Inactive

(* A delay of d ticks is over at the tick d + 1, for the first tick may    *)
(* come at once; no delay at all is over at the next tick                  *)
Ticks(d) == IF d = 0 THEN 1 ELSE d + 1

Init == rem = [w \in Timers |-> Inactive]

Start(w, d) == rem' = [rem EXCEPT ![w] = Ticks(d)]

Cancel(w) == Running(w) /\ rem' = [rem EXCEPT ![w] = Inactive]

(* No tick passes before the timers that are due have run *)
Tick ==
  /\ \A w \in Timers : Running(w) => rem[w] > 0
  /\ rem' = [w \in Timers |-> IF Running(w) THEN rem[w] - 1 ELSE Inactive]

Expire(w) == rem[w] = 0 /\ rem' = [rem EXCEPT ![w] = Inactive]

Next ==
  \/ Tick
  \/ \E w \in Timers : Expire(w) \/ Cancel(w) \/ \E d \in Delays : Start(w, d)

Spec == Init /\ [][Next]_rem
=============================================================================

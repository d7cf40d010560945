-------------------------------- MODULE Wdog --------------------------------
(***************************************************************************)
(* The watchdog timers of the kernel, src/nuttx/sched/wdog, built without  *)
(* CONFIG_SCHED_TICKLESS: g_wdactivelist holds the running timers in the   *)
(* order of their expiration, each with its lag behind the one before it,  *)
(* and the timer interrupt counts down the head.                           *)
(*                                                                         *)
(* Every operation is one critical section and one step.  wd_expiration()  *)
(* is a loop of steps, one per timer that is due: the functions it calls   *)
(* may themselves create, start, cancel and delete timers, also their own. *)
(***************************************************************************)
EXTENDS Integers, Sequences, FiniteSets, SequencesExt, FiniteSetsExt

CONSTANTS
  Pool,        \* g_wdpool, CONFIG_PREALLOC_WDOGS structures
  Heap,        \* structures the kernel heap can provide
  Static,      \* structures that are part of another one (WDOGF_STATIC)
  IntReserve,  \* CONFIG_WDOG_INTRESERVE
  Delays       \* the delays that timers are started with

Timers == Pool \cup Heap \cup Static
INT32_MAX == 2147483647

(* A delay of INT32_MAX is left out: delay + 1 overflows.  wdog.h refuses  *)
(* a reserve that is as large as the pool                                  *)
ASSUME WdogAssumption ==
  /\ IsFiniteSet(Timers)
  /\ Pool \cap Heap = {} /\ Pool \cap Static = {} /\ Heap \cap Static = {}
  /\ IntReserve \in Nat /\ IntReserve < Cardinality(Pool)
  /\ IsFiniteSet(Delays) /\ Delays # {} /\ Delays \subseteq 0 .. INT32_MAX - 1

VARIABLES
  active,     \* g_wdactivelist
  lag,        \* wdog->lag, 0 for a timer that does not run (it is not read then)
  flagged,    \* the timers with WDOGF_ACTIVE
  freelist,   \* g_wdfreelist
  wdnfree,    \* g_wdnfree
  live,       \* the timers that somebody holds
  byTask,     \* those of them that were created outside of interrupts
  irq         \* the timer interrupt: none, in the loop of wd_expiration(), or
              \* in a function that it calls

vars == <<active, lag, flagged, freelist, wdnfree, live, byTask, irq>>

MaxLag == Max(Delays) + 1

TypeOK ==
  /\ active \in Seq(Timers) /\ freelist \in Seq(Pool)
  /\ lag \in [Timers -> 0 .. MaxLag]
  /\ flagged \subseteq Timers
  /\ wdnfree \in 0 .. Cardinality(Pool)
  /\ live \subseteq Timers /\ byTask \subseteq live
  /\ irq \in {"none", "loop", "function"}

(* wd_initialize() *)
Init ==
  /\ active = <<>>
  /\ lag = [w \in Timers |-> 0]
  /\ flagged = {}
  /\ freelist = SetToSeq(Pool)
  /\ wdnfree = Cardinality(Pool)
  /\ live = Static
  /\ byTask = {}
  /\ irq = "none"

(* The ticks after which the timer at each place of a list runs: the lags  *)
(* up to there                                                             *)
Due(list, lags) ==
  LET due[i \in 0 .. Len(list)] == IF i = 0 THEN 0 ELSE due[i - 1] + lags[list[i]] IN due

IndexOf(w) == SelectInSeq(active, LAMBDA x : x = w)

(* wd_gettime(): 0 for a timer that does not run *)
wd_gettime(w) == IF w \in flagged THEN Due(active, lag)[IndexOf(w)] ELSE 0

-----------------------------------------------------------------------------
(* Mutant: the timers behind come early by what the cancelled one had left *)
UnlinkLosesLag(w) ==
  [list |-> RemoveAt(active, IndexOf(w)), lags |-> [lag EXCEPT ![w] = 0]]

(* The list without w: the timer behind it inherits its lag *)
Unlink(w) ==
  LET i == IndexOf(w) IN
  [list |-> RemoveAt(active, i),
   lags |-> IF i < Len(active)
            THEN [lag EXCEPT ![w] = 0, ![active[i + 1]] = @ + lag[w]]
            ELSE [lag EXCEPT ![w] = 0]]

(* wd_start() finds the first timer that runs later than w will, puts w    *)
(* before it and takes w's lag from its lag; or it appends w               *)
Link(list, lags, w, ticks) ==
  LET n == Len(list)
      due == Due(list, lags)
      later == {i \in 1 .. n : due[i] > ticks}
      i == IF later # {} THEN Min(later) ELSE n + 1
      d == ticks - due[i - 1]
  IN [list |-> InsertAt(list, i, w),
      lags |-> IF later # {} THEN [lags EXCEPT ![w] = d, ![list[i]] = @ - d]
               ELSE [lags EXCEPT ![w] = d]]

(* Mutant: a delay of 0 is no delay at all *)
DelayTicksZero(delay) == IF delay <= 0 THEN 0 ELSE delay + 1

(* "Calculate delay+1, forcing the delay into a range that we can handle" *)
DelayTicks(delay) == IF delay <= 0 THEN 1 ELSE delay + 1

wd_start(w, delay) ==
  /\ w \in live
  /\ LET u == IF w \in flagged THEN Unlink(w) ELSE [list |-> active, lags |-> lag]
         l == Link(u.list, u.lags, w, DelayTicks(delay))
     IN active' = l.list /\ lag' = l.lags
  /\ flagged' = flagged \cup {w}
  /\ UNCHANGED <<freelist, wdnfree, live, byTask, irq>>

(* The part of wd_cancel() that wd_delete() shares *)
Stop(w) ==
  IF w \in flagged
  THEN LET u == Unlink(w) IN
       active' = u.list /\ lag' = u.lags /\ flagged' = flagged \ {w}
  ELSE UNCHANGED <<active, lag, flagged>>

wd_cancel(w) ==
  /\ w \in live
  /\ Stop(w)
  /\ UNCHANGED <<freelist, wdnfree, live, byTask, irq>>

(* Mutant: tasks may take the timers that are reserved for interrupts *)
wd_createUnreserved(intr) ==
  /\ IF wdnfree > 0
     THEN /\ wdnfree' = wdnfree - 1
          /\ freelist' = Tail(freelist)
          /\ live' = live \cup {Head(freelist)}
          /\ byTask' = IF intr THEN byTask ELSE byTask \cup {Head(freelist)}
     ELSE /\ ~intr
          /\ \E w \in Heap \ live : live' = live \cup {w} /\ byTask' = byTask \cup {w}
          /\ UNCHANGED <<freelist, wdnfree>>
  /\ UNCHANGED <<active, lag, flagged, irq>>

(* Interrupts take a timer from the pool or none; tasks leave a reserve in *)
(* the pool and go to the heap instead, which may be exhausted             *)
wd_create(intr) ==
  /\ IF wdnfree > IntReserve \/ intr
     THEN /\ freelist # <<>>
          /\ wdnfree' = wdnfree - 1
          /\ freelist' = Tail(freelist)
          /\ live' = live \cup {Head(freelist)}
          /\ byTask' = IF intr THEN byTask ELSE byTask \cup {Head(freelist)}
     ELSE /\ \E w \in Heap \ live : live' = live \cup {w} /\ byTask' = byTask \cup {w}
          /\ UNCHANGED <<freelist, wdnfree>>
  /\ UNCHANGED <<active, lag, flagged, irq>>

(* Mutant: the timer is given back while it runs *)
wd_deleteRunning(w) ==
  /\ w \in live
  /\ live' = live \ {w} /\ byTask' = byTask \ {w}
  /\ IF w \in Pool
     THEN freelist' = Append(freelist, w) /\ wdnfree' = wdnfree + 1
     ELSE UNCHANGED <<freelist, wdnfree>>
  /\ UNCHANGED <<active, lag, flagged, irq>>

(* Stop the timer and give it back to where it came from.  The holder of a *)
(* static timer keeps it                                                   *)
wd_delete(w) ==
  /\ w \in live
  /\ Stop(w)
  /\ live' = live \ ({w} \ Static) /\ byTask' = byTask \ {w}
  /\ IF w \in Pool
     THEN freelist' = Append(freelist, w) /\ wdnfree' = wdnfree + 1
     ELSE UNCHANGED <<freelist, wdnfree>>
  /\ UNCHANGED irq

-----------------------------------------------------------------------------
(* The timer interrupt *)
wd_timer ==
  /\ irq = "none"
  /\ active # <<>>
  /\ lag' = [lag EXCEPT ![Head(active)] = @ - 1]
  /\ irq' = IF lag'[Head(active)] <= 0 THEN "loop" ELSE "none"
  /\ UNCHANGED <<active, flagged, freelist, wdnfree, live, byTask>>

(* wd_expiration(): take the head off the list and call its function *)
Expire ==
  /\ irq = "loop"
  /\ active # <<>> /\ lag[Head(active)] <= 0
  /\ active' = Tail(active)
  /\ lag' = IF Len(active) > 1
            THEN [lag EXCEPT ![Head(active)] = 0, ![active[2]] = @ + lag[Head(active)]]
            ELSE [lag EXCEPT ![Head(active)] = 0]
  /\ flagged' = flagged \ {Head(active)}
  /\ irq' = "function"
  /\ UNCHANGED <<freelist, wdnfree, live, byTask>>

(* The function returns to the loop *)
ExpireReturn ==
  /\ irq = "function"
  /\ irq' = "loop"
  /\ UNCHANGED <<active, lag, flagged, freelist, wdnfree, live, byTask>>

(* The loop ends at a timer that is not due *)
ExpireDone ==
  /\ irq = "loop"
  /\ active # <<>> => lag[Head(active)] > 0
  /\ irq' = "none"
  /\ UNCHANGED <<active, lag, flagged, freelist, wdnfree, live, byTask>>

(* Tasks, other interrupts, and the functions of expired timers *)
Call ==
  /\ irq # "loop"
  /\ \/ \E w \in Timers : wd_cancel(w) \/ wd_delete(w) \/ \E d \in Delays : wd_start(w, d)
     \/ wd_create(TRUE)
     \/ irq = "none" /\ wd_create(FALSE)

Next == Call \/ wd_timer \/ Expire \/ ExpireReturn \/ ExpireDone

Spec == Init /\ [][Next]_vars

(* The interrupt handler runs on, and the functions it calls return.       *)
(* Nothing is assumed of the other callers                                 *)
FairSpec == Spec /\ WF_vars(Expire \/ ExpireReturn \/ ExpireDone)

-----------------------------------------------------------------------------
(* The list of differences counts every timer down by one per tick and     *)
(* runs it exactly when its time is up, however timers are started anew,   *)
(* cancelled and deleted around it, also from the functions of timers that *)
(* expire in the same tick                                                 *)
Remaining == [w \in Timers |-> IF w \in flagged THEN wd_gettime(w) ELSE -1]

Abs == INSTANCE WdogAbs WITH rem <- Remaining

TimersExact == Abs!Spec

(* The state is well-formed, no lag is negative, the list and the flags    *)
(* agree, and a timer that was given back neither runs nor is anybody's:   *)
(* nothing deleted stays linked                                            *)
ListsConsistent ==
  /\ TypeOK
  /\ ToSet(active) = flagged /\ IsInjective(active)
  /\ flagged \subseteq live
  /\ ToSet(freelist) = Pool \ live /\ IsInjective(freelist)
  /\ wdnfree = Len(freelist)

(* Interrupt handlers find a timer in the pool unless interrupt handlers   *)
(* hold the reserve already: tasks never eat into it, in whatever order    *)
(* timers are taken and given back                                         *)
ReserveKept ==
  Cardinality(byTask \cap Pool) + IntReserve <= Cardinality(Pool)

(* The timer interrupt returns although the functions it calls start       *)
(* timers again, also without delay                                        *)
ExpirationEnds == irq # "none" ~> irq = "none"
=============================================================================

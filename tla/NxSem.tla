------------------------------- MODULE NxSem --------------------------------
(***************************************************************************)
(* The counting semaphores of the kernel, src/nuttx/sched/semaphore, that  *)
(* every driver of the flight controller locks and waits with: the signed  *)
(* counter of sem_t, the prioritized list of the tasks that wait, and the  *)
(* four ways a wait can end: a post, a timeout, a signal and the end of    *)
(* the task.  One CPU, no priority inheritance, no cancellation points, as *)
(* the configuration builds it.                                            *)
(*                                                                         *)
(* Code between enter_critical_section() and leave_critical_section() is   *)
(* one step.  Interrupt handlers and other tasks run between the steps.  A *)
(* task that has been woken stays READY until it runs (Resume), and the    *)
(* timeout, a signal or another post may come first.                       *)
(***************************************************************************)
EXTENDS Integers, Sequences, FiniteSets, SequencesExt, FiniteSetsExt

CONSTANTS
  Tasks, Sems, Prios,
  NoSem,          \* a null sem_t pointer
  MaxCount,       \* bound on semcount, SEM_VALUE_MAX in the code
  DeleteWaiting   \* whether tasks that wait are deleted, or only others

ASSUME SemAssumption ==
  /\ IsFiniteSet(Tasks) /\ NoSem \notin Sems
  /\ Prios \subseteq Nat
  /\ MaxCount \in Nat \ {0}
  /\ DeleteWaiting \in BOOLEAN

VARIABLES
  semcount,   \* sem_t: counts available, or minus the tasks that wait
  state,      \* task_state of a TCB
  waitsem,    \* the semaphore a TCB waits for
  pterrno,    \* in a wait: why it has ended; else "errno", some value of errno
  waitdog,    \* the watchdog of a timed wait
  prio,       \* sched_priority
  waiting,    \* g_waitingforsemaphore
  call        \* the wait a task is in, with its result when it has one

kernel == <<semcount, state, waitsem, pterrno, waitdog, prio, waiting>>
vars == <<kernel, call>>

(* Results of a timed wait.  A call that fails without waiting (EAGAIN,    *)
(* EINVAL, or ETIMEDOUT for a time that is over) is refused.               *)
Results == {"none", "OK", "EINTR", "ETIMEDOUT", "refused"}
Counts == 0 .. MaxCount
NoCall == [kind |-> "none"]
Calls ==
  {NoCall} \cup
  [kind : {"wait", "timed", "tick"}, sem : Sems, stage : {"begin", "block", "delete"},
   ret : Results]

TypeOK ==
  /\ semcount \in [Sems -> -Cardinality(Tasks) .. MaxCount]
  /\ state \in [Tasks -> {"READY", "WAIT_SEM", "INVALID", "GONE"}]
  /\ waitsem \in [Tasks -> Sems \cup {NoSem}]
  /\ pterrno \in [Tasks -> {"errno", "OK", "EINTR", "ETIMEDOUT"}]
  /\ waitdog \in [Tasks -> {"NULL", "idle", "active"}]
  /\ prio \in [Tasks -> Prios]
  /\ waiting \in Seq(Tasks)
  /\ call \in [Tasks -> Calls]

Init ==
  /\ semcount \in [Sems -> {0, 1}]
  /\ state = [t \in Tasks |-> "READY"]
  /\ waitsem = [t \in Tasks |-> NoSem]
  /\ pterrno = [t \in Tasks |-> "errno"]
  /\ waitdog = [t \in Tasks |-> "NULL"]
  /\ prio \in [Tasks -> Prios]
  /\ waiting = <<>>
  /\ call = [t \in Tasks |-> NoCall]

-----------------------------------------------------------------------------
(* The list of waiting tasks *)

(* sched_addprioritized(): before the first task of a lower priority *)
AddPrioritized(q, t, p) ==
  LET later == {i \in DOMAIN q : p > prio[q[i]]}
  IN IF later = {} THEN Append(q, t) ELSE InsertAt(q, Min(later), t)

(* dq_rem(): what is left of q without the tasks in W, in the same order *)
Without(q, W) ==
  LET rest == ToSet(q) \ W
  IN {r \in [1 .. Cardinality(rest) -> rest] :
        /\ ToSet(r) = rest
        /\ \A i, j \in DOMAIN r : i < j =>
             \E k, l \in DOMAIN q : k < l /\ q[k] = r[i] /\ q[l] = r[j]}

(* The tasks of the list that wait for s *)
WaitingFor(s) == {t \in ToSet(waiting) : waitsem[t] = s}

(* The first n of them, each found by a walk from the head of the list *)
FirstWaiting(s, n) ==
  {W \in SUBSET WaitingFor(s) :
     /\ Cardinality(W) = n
     /\ \A i, j \in DOMAIN waiting :
          i < j /\ waiting[j] \in W /\ waitsem[waiting[i]] = s => waiting[i] \in W}

(* up_unblock_task() for the tasks in W *)
Unblock(W) ==
  /\ waiting' \in Without(waiting, W)
  /\ state' = [t \in Tasks |-> IF t \in W THEN "READY" ELSE state[t]]
  /\ waitsem' = [t \in Tasks |-> IF t \in W THEN NoSem ELSE waitsem[t]]

(* up_block_task() of a task whose count is not available *)
Block(t, s) ==
  /\ semcount' = [semcount EXCEPT ![s] = @ - 1]
  /\ waitsem' = [waitsem EXCEPT ![t] = s]
  /\ pterrno' = [pterrno EXCEPT ![t] = "OK"]
  /\ state' = [state EXCEPT ![t] = "WAIT_SEM"]
  /\ waiting' = AddPrioritized(waiting, t, prio[t])
  /\ UNCHANGED prio

-----------------------------------------------------------------------------
(* A task waits *)
Idle(t) == state[t] = "READY" /\ call[t] = NoCall

(* The counter gives the task a unit at once *)
TakeCount(t, s) ==
  /\ semcount[s] > 0
  /\ semcount' = [semcount EXCEPT ![s] = @ - 1]
  /\ waitsem' = [waitsem EXCEPT ![t] = NoSem]
  /\ UNCHANGED <<state, prio, waiting>>

(* The task starts a call that has no result yet *)
Start(t, k, s, g) ==
  call' = [call EXCEPT ![t] = [kind |-> k, sem |-> s, stage |-> g, ret |-> "none"]]

(* It has its result and only the watchdog is left to delete *)
Finish(t, r) == call' = [call EXCEPT ![t].stage = "delete", ![t].ret = r]

(* nxsem_wait() and sem_wait() *)
Wait(t, s) ==
  /\ Idle(t)
  /\ \/ TakeCount(t, s) /\ UNCHANGED <<pterrno, call>>    \* OK
     \/ /\ semcount[s] <= 0
        /\ Block(t, s)
        /\ Start(t, "wait", s, "block")
  /\ UNCHANGED waitdog

(* nxsem_trywait() and sem_trywait(): when no count is available they      *)
(* return EAGAIN and change nothing                                        *)
TryWait(t, s) == Idle(t) /\ TakeCount(t, s) /\ UNCHANGED <<pterrno, waitdog, call>>

(* nxsem_timedwait() and nxsem_tickwait() create a watchdog first; without *)
(* one they return ENOMEM and change nothing                               *)
TimedBegin(t, s, k) ==
  /\ Idle(t)
  /\ waitdog' = [waitdog EXCEPT ![t] = "idle"]
  /\ Start(t, k, s, "begin")
  /\ UNCHANGED <<semcount, state, waitsem, pterrno, prio, waiting>>

(* Mutant: the watchdog is not started *)
TimedEnterNoStart(t) ==
  LET c == call[t]
  IN /\ state[t] = "READY" /\ c # NoCall /\ c.stage = "begin"
     /\ semcount[c.sem] <= 0
     /\ Block(t, c.sem)
     /\ call' = [call EXCEPT ![t].stage = "block"]
     /\ UNCHANGED waitdog

(* Their critical section, up to the wait: a count is available, the time  *)
(* is invalid, zero or over, or the task waits with its watchdog running   *)
TimedEnter(t) ==
  LET c == call[t]
  IN /\ state[t] = "READY" /\ c # NoCall /\ c.stage = "begin"
     /\ \/ /\ TakeCount(t, c.sem)
           /\ Finish(t, "OK")
           /\ UNCHANGED <<pterrno, waitdog>>
        \/ /\ semcount[c.sem] <= 0
           /\ Finish(t, "refused")
           /\ UNCHANGED kernel
        \/ /\ semcount[c.sem] <= 0
           /\ waitdog' = [waitdog EXCEPT ![t] = "active"]
           /\ Block(t, c.sem)
           /\ call' = [call EXCEPT ![t].stage = "block"]

(* The woken task runs: nxsem_wait() returns what pterrno says.            *)
(* nxsem_timedwait() cancels the watchdog, nxsem_tickwait() only when the  *)
(* wait succeeded                                                          *)
Resume(t) ==
  LET c == call[t]
      r == pterrno[t]
  IN /\ state[t] = "READY" /\ c # NoCall /\ c.stage = "block"
     /\ IF c.kind = "wait"
          THEN /\ call' = [call EXCEPT ![t] = NoCall]
               /\ UNCHANGED waitdog
          ELSE /\ Finish(t, r)
               /\ waitdog' = IF c.kind = "timed" \/ r = "OK"
                               THEN [waitdog EXCEPT ![t] = "idle"] ELSE waitdog
     /\ pterrno' = [pterrno EXCEPT ![t] = "errno"]
     /\ UNCHANGED <<semcount, state, waitsem, prio, waiting>>

(* Mutant: a watchdog that still runs is left alone *)
TimedReturnKeeps(t) ==
  /\ state[t] = "READY" /\ call[t] # NoCall /\ call[t].stage = "delete"
  /\ waitdog' = [waitdog EXCEPT ![t] = IF @ = "active" THEN @ ELSE "NULL"]
  /\ call' = [call EXCEPT ![t] = NoCall]
  /\ UNCHANGED <<semcount, state, waitsem, pterrno, prio, waiting>>

(* wd_delete() and waitdog = NULL in one step, and the return: with one    *)
(* timer per task, a second wd_delete() of it, by wd_recover() between the *)
(* two, is beyond this module                                              *)
TimedReturn(t) ==
  /\ state[t] = "READY" /\ call[t] # NoCall /\ call[t].stage = "delete"
  /\ waitdog' = [waitdog EXCEPT ![t] = "NULL"]
  /\ call' = [call EXCEPT ![t] = NoCall]
  /\ UNCHANGED <<semcount, state, waitsem, pterrno, prio, waiting>>

-----------------------------------------------------------------------------
(* Others end the wait *)

(* nxsem_post(), from a task or an interrupt handler *)
Post(s) ==
  /\ semcount[s] < MaxCount
  /\ semcount' = [semcount EXCEPT ![s] = @ + 1]
  /\ IF semcount[s] + 1 <= 0 /\ WaitingFor(s) # {}
       THEN \E W \in FirstWaiting(s, 1) : Unblock(W)
       ELSE UNCHANGED <<waiting, state, waitsem>>
  /\ UNCHANGED <<pterrno, waitdog, prio, call>>

(* nxsem_reset(): as many posts as tasks wait, or as count allows *)
Reset(s, count) ==
  LET n == IF semcount[s] < 0 THEN Min({count, -semcount[s]}) ELSE 0
  IN /\ \E W \in FirstWaiting(s, Min({n, Cardinality(WaitingFor(s))})) : Unblock(W)
     /\ semcount' = [semcount EXCEPT ![s] = IF @ + n >= 0 THEN count - n ELSE @ + n]
     /\ UNCHANGED <<pterrno, waitdog, prio, call>>

(* Mutant: the count that the wait took is not given back *)
WaitIrqNoCount(t, errcode) ==
  IF state[t] = "WAIT_SEM"
    THEN /\ pterrno' = [pterrno EXCEPT ![t] = errcode]
         /\ Unblock({t})
         /\ UNCHANGED semcount
    ELSE UNCHANGED <<semcount, pterrno, waiting, state, waitsem>>

(* Mutant: the error is stored whether the task still waits or not *)
WaitIrqLate(t, errcode) ==
  /\ pterrno' = [pterrno EXCEPT ![t] = errcode]
  /\ IF state[t] = "WAIT_SEM"
       THEN /\ semcount' = [semcount EXCEPT ![waitsem[t]] = @ + 1]
            /\ Unblock({t})
       ELSE UNCHANGED <<semcount, waiting, state, waitsem>>

(* nxsem_wait_irq() *)
WaitIrq(t, errcode) ==
  IF state[t] = "WAIT_SEM"
    THEN /\ semcount' = [semcount EXCEPT ![waitsem[t]] = @ + 1]
         /\ pterrno' = [pterrno EXCEPT ![t] = errcode]
         /\ Unblock({t})
    ELSE UNCHANGED <<semcount, pterrno, waiting, state, waitsem>>

(* nxsem_timeout(), when the watchdog runs out *)
Timeout(t) ==
  /\ waitdog[t] = "active"
  /\ waitdog' = [waitdog EXCEPT ![t] = "idle"]
  /\ WaitIrq(t, "ETIMEDOUT")
  /\ UNCHANGED <<prio, call>>

(* nxsig_tcbdispatch() of an unmasked signal *)
Signal(t) ==
  /\ state[t] = "WAIT_SEM"
  /\ WaitIrq(t, "EINTR")
  /\ UNCHANGED <<waitdog, prio, call>>

(* Mutant: a blocked task keeps its place in the list *)
SetPriorityInPlace(t, p) ==
  /\ state[t] \in {"READY", "WAIT_SEM"}
  /\ prio' = [prio EXCEPT ![t] = p]
  /\ UNCHANGED <<semcount, state, waitsem, pterrno, waitdog, waiting, call>>

(* nxsched_setpriority() *)
SetPriority(t, p) ==
  /\ state[t] \in {"READY", "WAIT_SEM"}
  /\ prio' = [prio EXCEPT ![t] = p]
  /\ IF state[t] = "WAIT_SEM"
       THEN \E q \in Without(waiting, {t}) : waiting' = AddPrioritized(q, t, p)
       ELSE UNCHANGED waiting
  /\ UNCHANGED <<semcount, state, waitsem, pterrno, waitdog, call>>

-----------------------------------------------------------------------------
(* Tasks end and start *)

(* nxsem_recover() *)
Recover(t) ==
  IF state[t] = "WAIT_SEM"
    THEN /\ semcount' = [semcount EXCEPT ![waitsem[t]] = @ + 1]
         /\ waitsem' = [waitsem EXCEPT ![t] = NoSem]
    ELSE UNCHANGED <<semcount, waitsem>>

(* task_restart() of another task *)
Restart(t, p) ==
  /\ state[t] \in {"READY", "WAIT_SEM"}
  /\ Recover(t)
  /\ waitdog' = [waitdog EXCEPT ![t] = "NULL"]
  /\ waiting' \in Without(waiting, {t})
  /\ state' = [state EXCEPT ![t] = "READY"]
  /\ prio' = [prio EXCEPT ![t] = p]
  /\ call' = [call EXCEPT ![t] = NoCall]
  /\ pterrno' = [pterrno EXCEPT ![t] = "errno"]

(* nxtask_terminate(): the task leaves the list it is in *)
Terminate(t) ==
  /\ state[t] = "READY" \/ (state[t] = "WAIT_SEM" /\ DeleteWaiting)
  /\ state' = [state EXCEPT ![t] = "INVALID"]
  /\ waiting' \in Without(waiting, {t})
  /\ call' = [call EXCEPT ![t] = NoCall]
  /\ UNCHANGED <<semcount, waitsem, pterrno, waitdog, prio>>

(* nxtask_exithook(): nxtask_recover().  The TCB is released then *)
ExitHook(t) ==
  /\ state[t] = "INVALID"
  /\ Recover(t)
  /\ waitdog' = [waitdog EXCEPT ![t] = "NULL"]
  /\ state' = [state EXCEPT ![t] = "GONE"]
  /\ pterrno' = [pterrno EXCEPT ![t] = "errno"]
  /\ UNCHANGED <<prio, waiting, call>>

(* A new task gets the TCB *)
Create(t, p) ==
  /\ state[t] = "GONE"
  /\ state' = [state EXCEPT ![t] = "READY"]
  /\ waitsem' = [waitsem EXCEPT ![t] = NoSem]
  /\ prio' = [prio EXCEPT ![t] = p]
  /\ UNCHANGED <<semcount, pterrno, waitdog, waiting, call>>

Next ==
  \/ \E t \in Tasks, s \in Sems :
       Wait(t, s) \/ TryWait(t, s) \/ \E k \in {"timed", "tick"} : TimedBegin(t, s, k)
  \/ \E t \in Tasks : TimedEnter(t) \/ Resume(t) \/ TimedReturn(t)
  \/ \E s \in Sems : Post(s) \/ \E c \in Counts : Reset(s, c)
  \/ \E t \in Tasks : Timeout(t) \/ Signal(t) \/ Terminate(t) \/ ExitHook(t)
  \/ \E t \in Tasks, p \in Prios : SetPriority(t, p) \/ Restart(t, p) \/ Create(t, p)

Spec == Init /\ [][Next]_vars

(* A task that can run is run, and the timer interrupt comes *)
FairSpec ==
  /\ Spec
  /\ \A t \in Tasks : WF_vars(TimedEnter(t)) /\ WF_vars(Resume(t))
                      /\ WF_vars(TimedReturn(t)) /\ WF_vars(Timeout(t))
-----------------------------------------------------------------------------
WaitersOf(s) == {t \in Tasks : state[t] = "WAIT_SEM" /\ waitsem[t] = s}

(* "<0 -> Num tasks waiting for semaphore": a negative semcount counts the *)
(* tasks that wait, and none waits while it is not negative, whichever of  *)
(* post, timeout, signal and restart comes first                           *)
CountIsWaiters ==
  \A s \in Sems :
    Cardinality(WaitersOf(s)) = IF semcount[s] < 0 THEN -semcount[s] ELSE 0

(* nxsem_recover() says that a task deleted while it waits still has its   *)
(* state there, so that the count of its wait is released: once no         *)
(* deletion is under way the counter again counts the tasks that wait      *)
RecoveredOnDelete == (\A t \in Tasks : state[t] # "INVALID") => CountIsWaiters

(* The state is well-formed, and g_waitingforsemaphore holds each waiting  *)
(* task once, in the order of their priorities, also when these change     *)
ListConsistent ==
  /\ TypeOK
  /\ ToSet(waiting) = {t \in Tasks : state[t] = "WAIT_SEM"}
  /\ IsInjective(waiting)
  /\ \A i, j \in DOMAIN waiting : i < j => prio[waiting[i]] >= prio[waiting[j]]

(* No watchdog outlives the timed wait that started it, so none can end a  *)
(* later wait of the task, nor fire for a task that is gone                *)
NoStaleTimeout ==
  \A t \in Tasks :
    /\ waitdog[t] = "active" => (call[t] # NoCall /\ call[t].kind # "wait")
                                  \/ state[t] = "INVALID"
    /\ (call[t] # NoCall /\ call[t].stage = "block" /\ pterrno[t] = "ETIMEDOUT")
          => call[t].kind # "wait"

(* The semaphore the callers see: its units, and what has become of the    *)
(* call of a task                                                          *)
Units(s) == IF semcount[s] > 0 THEN semcount[s] ELSE 0

Outcome(t) ==
  IF state[t] = "WAIT_SEM" THEN "waiting"
  ELSE LET r == CASE call[t] = NoCall -> "none"
                  [] call[t] # NoCall /\ call[t].stage = "block" -> pterrno[t]
                  [] OTHER -> call[t].ret
       IN CASE r = "none" -> "idle" [] r = "OK" -> "got" [] OTHER -> "gaveup"

Abs == INSTANCE SemAbs WITH
  value <- [s \in Sems |-> Units(s)],
  waits <- [s \in Sems |-> WaitersOf(s)],
  out <- [t \in Tasks |-> Outcome(t)]

(* Units are neither lost nor handed out twice, a task that is told OK     *)
(* has got one and a task that is told an error has not                    *)
Semaphore == Abs!Spec

(* A timed wait returns, whatever the others do *)
TimedWaitReturns ==
  \A t \in Tasks :
    (call[t] # NoCall /\ call[t].kind # "wait") ~> call[t] = NoCall
=============================================================================

----------------------------- MODULE WorkQueue ------------------------------
(***************************************************************************)
(* A kernel work queue, src/nuttx/sched/wqueue: tasks and interrupts queue *)
(* and cancel work, one or more worker threads run it when its delay is    *)
(* over, and sleep as long as there is nothing to do.                      *)
(*                                                                         *)
(* A worker scans the queue in a critical section that ends only where it  *)
(* calls a work function or sleeps, so a scan is one step.  work_queue()   *)
(* is three: put the work into the queue, look for an idle thread, signal  *)
(* it.  A thread that was woken stays "ready", still not marked busy,      *)
(* until it runs.                                                          *)
(*                                                                         *)
(* Times are kept as differences (ticks of delay left, ticks since a scan  *)
(* began), which is what the unsigned subtractions of the code give as     *)
(* long as nothing is queued, and no scan lasts, for 2^32 ticks.           *)
(***************************************************************************)
EXTENDS Integers, Sequences, FiniteSets, SequencesExt, FiniteSetsExt

CONSTANTS
  Works,       \* work_s structures
  Callers,     \* contexts that call work_queue() and work_cancel()
  MaxThreads,  \* bound on the number of worker threads of the queue
  MaxDelay,    \* bound on the delay of work, less than WORK_DELAY_MAX
  NoWork       \* no work structure

ASSUME WorkAssumption ==
  /\ IsFiniteSet(Works) /\ NoWork \notin Works
  /\ MaxThreads \in Nat \ {0} /\ MaxDelay \in Nat

Forever == MaxDelay + 2   \* WORK_DELAY_MAX, and a wait without a timeout
Threads == 0 .. MaxThreads - 1
Idle == [at |-> "idle", work |-> NoWork, thread |-> 0]

VARIABLES
  n,        \* CONFIG_SCHED_HPNTHREADS or CONFIG_SCHED_LPNTHREADS
  queue,    \* wqueue->q
  armed,    \* the work whose worker field is not NULL
  left,     \* ticks until its delay is over
  pc,       \* where each worker thread is
  busy,     \* worker[].busy
  runs,     \* the work whose function each thread is in
  next,     \* work_process(): the shortest delay thread 0 has seen in this pass;
            \* the other threads make no use of theirs
  span,     \* ticks since the pass of thread 0 began
  timer,    \* ticks until the sleep of thread 0 ends
  caller    \* what each caller is doing

vars == <<n, queue, armed, left, pc, busy, runs, next, span, timer, caller>>
threadVars == <<pc, busy, runs, next, span, timer>>

TypeOK ==
  /\ n \in 1 .. MaxThreads
  /\ queue \in Seq(Works) /\ armed \subseteq Works
  /\ left \in [Works -> 0 .. MaxDelay]
  /\ pc \in [Threads -> {"none", "start", "scan", "run", "wait", "ready"}]
  /\ busy \in [Threads -> BOOLEAN]
  /\ runs \in [Threads -> Works \cup {NoWork}]
  /\ next \in 0 .. MaxDelay \cup {Forever}
  /\ span \in 0 .. MaxDelay
  /\ timer \in 0 .. Forever
  /\ caller \in [Callers -> [at : {"idle", "pick", "kill"}, work : Works \cup {NoWork},
                             thread : Threads]]

(* work_hpstart(), work_lpstart() *)
Init ==
  /\ n \in 1 .. MaxThreads
  /\ queue = <<>> /\ armed = {}
  /\ left = [w \in Works |-> 0]
  /\ pc = [i \in Threads |-> IF i < n THEN "start" ELSE "none"]
  /\ busy = [i \in Threads |-> TRUE]
  /\ runs = [i \in Threads |-> NoWork]
  /\ next = Forever /\ span = 0 /\ timer = 0
  /\ caller = [c \in Callers |-> Idle]

-----------------------------------------------------------------------------
(* Mutant: work that is queued already is put into the queue again *)
EnqueueTwice(w, d) ==
  /\ queue' = Append(queue, w)
  /\ armed' = armed \cup {w}
  /\ left' = [left EXCEPT ![w] = d]

(* work_qqueue(): pending work moves to the end with its new delay *)
Enqueue(w, d) ==
  /\ queue' = Append(IF w \in armed THEN RemoveFirst(queue, w) ELSE queue, w)
  /\ armed' = armed \cup {w}
  /\ left' = [left EXCEPT ![w] = d]

work_queue(c, w, d) ==
  /\ caller[c].at = "idle"
  /\ Enqueue(w, d)
  /\ caller' = [caller EXCEPT ![c] = [at |-> "pick", work |-> w, thread |-> 0]]
  /\ UNCHANGED <<n, threadVars>>

(* Mutant: any idle thread will do *)
PickThreadLast(c) ==
  /\ caller[c].at = "pick"
  /\ LET idle == {i \in Threads : i < n /\ ~busy[i]} IN
     caller' = [caller EXCEPT ![c] =
                  IF idle = {} THEN Idle
                  ELSE [at |-> "kill", work |-> @.work, thread |-> Max(idle)]]
  /\ UNCHANGED <<n, queue, armed, left, threadVars>>

(* work_signal(): find the first thread that is not busy.  If all are, one *)
(* of them finds the work when it has finished what it does                *)
PickThread(c) ==
  /\ caller[c].at = "pick"
  /\ LET idle == {i \in Threads : i < n /\ ~busy[i]} IN
     caller' = [caller EXCEPT ![c] =
                  IF idle = {} THEN Idle
                  ELSE [at |-> "kill", work |-> @.work, thread |-> Min(idle)]]
  /\ UNCHANGED <<n, queue, armed, left, threadVars>>

(* nxsig_kill(SIGWORK): wakes a thread that waits, also in nxsig_usleep(). *)
(* The signal is not masked and has no handler: any other thread is not    *)
(* affected                                                                *)
KillThread(c) ==
  /\ caller[c].at = "kill"
  /\ LET i == caller[c].thread IN
     IF pc[i] = "wait"
     THEN /\ pc' = [pc EXCEPT ![i] = "ready"]
          /\ timer' = IF i = 0 THEN 0 ELSE timer
     ELSE UNCHANGED <<pc, timer>>
  /\ caller' = [caller EXCEPT ![c] = Idle]
  /\ UNCHANGED <<n, queue, armed, left, busy, runs, next, span>>

work_cancel(c, w) ==
  /\ caller[c].at = "idle"
  /\ w \in armed
  /\ queue' = RemoveFirst(queue, w)
  /\ armed' = armed \ {w}
  /\ left' = [left EXCEPT ![w] = 0]
  /\ UNCHANGED <<n, threadVars, caller>>

-----------------------------------------------------------------------------
(* work_hpthread(), work_lpthread(): begin a pass of work_process() *)
StartPass(i) ==
  /\ pc[i] = "start"
  /\ pc' = [pc EXCEPT ![i] = "scan"]
  /\ IF i = 0 THEN next' = Forever /\ span' = 0 ELSE UNCHANGED <<next, span>>
  /\ UNCHANGED <<n, queue, armed, left, busy, runs, timer, caller>>

(* Mutant: the last work whose delay is over is run first *)
FirstReadyLast == SelectLastInSeq(queue, LAMBDA w : left[w] = 0)

(* The position of the first work whose delay is over, 0 if there is none *)
FirstReady == SelectInSeq(queue, LAMBDA w : left[w] = 0)

(* The shortest time that the first k of the queue still have, counted     *)
(* from the begin of the pass: no more than what they really have          *)
Shortest(k) == Min({next} \cup {Max({0, left[queue[j]] - span}) : j \in 1 .. k})

(* work_process(): take the first ready work and call its function *)
RunWork(i) ==
  /\ pc[i] = "scan"
  /\ FirstReady > 0
  /\ LET w == queue[FirstReady] IN
     /\ queue' = RemoveFirst(queue, w)
     /\ armed' = armed \ {w}
     /\ runs' = [runs EXCEPT ![i] = w]
  /\ next' = IF i = 0 THEN Shortest(FirstReady - 1) ELSE next
  /\ pc' = [pc EXCEPT ![i] = "run"]
  /\ UNCHANGED <<n, left, busy, span, timer, caller>>

(* The function returns: start back at the head of the list *)
WorkDone(i) ==
  /\ pc[i] = "run"
  /\ pc' = [pc EXCEPT ![i] = "scan"]
  /\ runs' = [runs EXCEPT ![i] = NoWork]
  /\ UNCHANGED <<n, queue, armed, left, busy, next, span, timer, caller>>

(* Nothing is ready: mark the thread idle and sleep.  Thread 0 sleeps      *)
(* until the next work is due, one tick more for the tick under way; a     *)
(* sleep of no time returns at once.  The others wait for a signal         *)
Sleep(i) ==
  /\ pc[i] = "scan"
  /\ FirstReady = 0
  /\ LET t == Shortest(Len(queue)) IN
     IF i = 0 /\ t = 0
     THEN /\ pc' = [pc EXCEPT ![i] = "start"]
          /\ UNCHANGED <<busy, timer>>
     ELSE /\ pc' = [pc EXCEPT ![i] = "wait"]
          /\ busy' = [busy EXCEPT ![i] = FALSE]
          /\ timer' = IF i > 0 THEN timer ELSE IF t = Forever THEN Forever ELSE t + 1
  /\ IF i = 0 THEN next' = Forever /\ span' = 0 ELSE UNCHANGED <<next, span>>
  /\ UNCHANGED <<n, queue, armed, left, runs, caller>>

(* A thread that was woken runs again *)
Resume(i) ==
  /\ pc[i] = "ready"
  /\ pc' = [pc EXCEPT ![i] = "start"]
  /\ busy' = [busy EXCEPT ![i] = TRUE]
  /\ UNCHANGED <<n, queue, armed, left, runs, next, span, timer, caller>>

(* The timer interrupt: delays run down and sleeps end *)
Tick ==
  /\ left' = [w \in Works |-> IF left[w] > 0 THEN left[w] - 1 ELSE 0]
  /\ span' = IF pc[0] \in {"scan", "run"} /\ span < MaxDelay THEN span + 1 ELSE span
  /\ timer' = IF timer \in 1 .. Forever - 1 THEN timer - 1 ELSE timer
  /\ pc' = IF pc[0] = "wait" /\ timer' = 0 THEN [pc EXCEPT ![0] = "ready"] ELSE pc
  /\ UNCHANGED <<n, queue, armed, busy, runs, next, caller>>

-----------------------------------------------------------------------------
Calls(c) ==
  \E w \in Works : work_cancel(c, w) \/ \E d \in 0 .. MaxDelay : work_queue(c, w, d)

Signal(c) == PickThread(c) \/ KillThread(c)

Worker(i) == StartPass(i) \/ RunWork(i) \/ Sleep(i) \/ Resume(i)

Next ==
  \/ \E c \in Callers : Calls(c) \/ Signal(c)
  \/ \E i \in Threads : Worker(i) \/ WorkDone(i)
  \/ Tick

Spec == Init /\ [][Next]_vars

(* Threads and callers that can run are run, work functions return, and    *)
(* the timer interrupt comes.  Nobody has to queue anything                *)
FairSpec ==
  /\ Spec
  /\ \A c \in Callers : WF_vars(Signal(c))
  /\ \A i \in Threads : WF_vars(Worker(i)) /\ WF_vars(WorkDone(i))
  /\ WF_vars(Tick)

-----------------------------------------------------------------------------
(* The state is well-formed, no sleep is negative, and work is in the      *)
(* queue once, and exactly while its worker field says so: queueing it     *)
(* again, from its own function too, and cancelling it never leave it      *)
(* linked twice or linked and free                                         *)
QueueConsistent == TypeOK /\ ToSet(queue) = armed /\ IsInjective(queue)

(* No lost wake-up: while thread 0 sleeps, its sleep ends no later than    *)
(* one tick after the delay of any work in the queue, or somebody who has  *)
(* just queued that work is about to signal it                             *)
NoOversleep ==
  pc[0] = "wait" =>
    \A w \in armed :
      \/ timer <= left[w] + 1
      \/ \E c \in Callers : caller[c].at # "idle" /\ caller[c].work = w

(* Queued work leaves the queue, to be run or cancelled, or is queued      *)
(* again: neither other work that is queued over and over nor a thread     *)
(* that sleeps keeps it waiting for ever                                   *)
WorkRuns ==
  \A w \in Works :
    w \in armed ~> (w \notin armed \/ \E c \in Callers : caller[c].at = "pick" /\ caller[c].work = w)
=============================================================================

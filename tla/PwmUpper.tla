------------------------------ MODULE PwmUpper ------------------------------
(***************************************************************************)
(* The upper half of the PWM driver, src/nuttx/drivers/pwm/pwm.c, with the *)
(* threads that call it interleaved between the steps the code takes       *)
(* under upper->exclsem.                                                   *)
(*                                                                         *)
(* Threads share open files as the threads of a task group do.  ioctl()    *)
(* looks the file up without a lock, so a call may reach the driver while  *)
(* another thread is closing the same file (src/nuttx/fs/vfs/fs_ioctl.c);  *)
(* close() gives the descriptor back whatever the driver answered          *)
(* (_files_close() in src/nuttx/fs/inode/fs_files.c).                      *)
(***************************************************************************)
EXTENDS PwmOps, FiniteSets

CONSTANTS Threads,        \* the callers
          Files,          \* struct file slots of the device
          MaxInterrupted  \* bound on the closes a signal may cut short

ASSUME ThreadsAssumption == IsFiniteSet(Threads)
ASSUME FilesAssumption   == IsFiniteSet(Files)
ASSUME MaxInterruptedAssumption == MaxInterrupted \in Nat

VARIABLES
  crefs, started, info, tim,  \* struct pwm_upperhalf_s and its timer
  avail,       \* exclsem: the positive part of semcount
  waiting,     \* exclsem: the threads blocked on it
  pc,          \* where each thread is: outside, blocked, first or second step
  call,        \* the call each thread is executing: operation, file, info
  tmp,         \* the uint8_t local of pwm_open()
  fstate,      \* the life of each struct file
  interrupted  \* closes abandoned with EINTR: references nobody will drop

devVars == <<crefs, started, info, tim>>
semVars == <<avail, waiting>>
vars == <<devVars, semVars, pc, call, tmp, fstate, interrupted>>

Ioctls == {"set", "get", "start", "stop"}

Calls == [op : {"set"}, file : Files, info : Infos]
         \cup [op : {"open", "close", "get", "start", "stop"}, file : Files,
               info : {NoInfo}]

(* No call in progress *)
NoCall == [op |-> "none"]

TypeOK ==
  /\ crefs \in 0 .. CrefLimit - 1
  /\ started \in BOOLEAN
  /\ info \in Infos \cup {NoInfo}
  /\ tim \in Timers
  /\ avail \in {0, 1}
  /\ waiting \in SUBSET Threads
  /\ pc \in [Threads -> {"idle", "wait", "first", "second"}]
  /\ call \in [Threads -> Calls \cup {NoCall}]
  /\ tmp \in [Threads -> 0 .. CrefLimit - 1]
  /\ fstate \in [Files -> {"free", "opening", "open", "closing"}]
  /\ interrupted \in 0 .. MaxInterrupted

Init ==
  /\ crefs = 0 /\ started = FALSE /\ info = NoInfo /\ tim = ResetTimer
  /\ avail = 1 /\ waiting = {}
  /\ pc = [t \in Threads |-> "idle"]
  /\ call = [t \in Threads |-> NoCall]
  /\ tmp = [t \in Threads |-> 0]
  /\ fstate = [f \in Files |-> "free"]
  /\ interrupted = 0

-----------------------------------------------------------------------------
(* Mutant: a semaphore that admits everybody *)
LockAlways(t) ==
  /\ avail' = 0
  /\ pc' = [pc EXCEPT ![t] = "first"]
  /\ UNCHANGED waiting

(* nxsem_wait(&upper->exclsem): take the count, or block *)
Lock(t) ==
  IF avail > 0
  THEN /\ avail' = avail - 1
       /\ pc' = [pc EXCEPT ![t] = "first"]
       /\ UNCHANGED waiting
  ELSE /\ waiting' = waiting \cup {t}
       /\ pc' = [pc EXCEPT ![t] = "wait"]
       /\ UNCHANGED avail

(* Mutant: the count is given back and nobody is woken *)
UnlockNoWakeup(t) ==
  /\ call' = [call EXCEPT ![t] = NoCall]
  /\ avail' = 1
  /\ pc' = [pc EXCEPT ![t] = "idle"]
  /\ UNCHANGED waiting

(* nxsem_post(&upper->exclsem) as t leaves: the count goes to a blocked    *)
(* thread if there is one, else back to the semaphore                      *)
Unlock(t) ==
  /\ call' = [call EXCEPT ![t] = NoCall]
  /\ \/ /\ waiting = {}
        /\ avail' = avail + 1
        /\ pc' = [pc EXCEPT ![t] = "idle"]
        /\ UNCHANGED waiting
     \/ \E w \in waiting :
          /\ waiting' = waiting \ {w}
          /\ pc' = [pc EXCEPT ![t] = "idle", ![w] = "first"]
          /\ UNCHANGED avail

(* On to the second step, the semaphore still held *)
Continue(t) == pc' = [pc EXCEPT ![t] = "second"] /\ UNCHANGED <<semVars, call>>

At(t, label, op) == pc[t] = label /\ call[t].op = op

(* What the file system does with the file once the driver has returned *)
FileBecomes(t, s) == fstate' = [fstate EXCEPT ![call[t].file] = s]

-----------------------------------------------------------------------------
(* open() allocates a struct file and calls pwm_open() *)
EnterOpen(t, f) ==
  /\ pc[t] = "idle" /\ fstate[f] = "free"
  /\ call' = [call EXCEPT ![t] = [op |-> "open", file |-> f, info |-> NoInfo]]
  /\ fstate' = [fstate EXCEPT ![f] = "opening"]
  /\ Lock(t)
  /\ UNCHANGED <<devVars, tmp, interrupted>>

(* close() calls pwm_close() *)
EnterClose(t, f) ==
  /\ pc[t] = "idle" /\ fstate[f] = "open"
  /\ call' = [call EXCEPT ![t] = [op |-> "close", file |-> f, info |-> NoInfo]]
  /\ fstate' = [fstate EXCEPT ![f] = "closing"]
  /\ Lock(t)
  /\ UNCHANGED <<devVars, tmp, interrupted>>

(* ioctl() calls pwm_ioctl(): the inode is still set in a file that another *)
(* thread is closing                                                        *)
EnterIoctl(t, f, op, i) ==
  /\ pc[t] = "idle" /\ fstate[f] \in {"open", "closing"}
  /\ call' = [call EXCEPT ![t] = [op |-> op, file |-> f, info |-> i]]
  /\ Lock(t)
  /\ UNCHANGED <<devVars, tmp, fstate, interrupted>>

(* A signal ends the wait: nxsem_wait() returns -EINTR, the call returns   *)
(* it, and the file system releases the descriptor of an open or a close   *)
Interrupt(t) ==
  /\ pc[t] = "wait"
  /\ call[t].op = "close" => interrupted < MaxInterrupted
  /\ waiting' = waiting \ {t}
  /\ pc' = [pc EXCEPT ![t] = "idle"]
  /\ IF call[t].op \in {"open", "close"} THEN FileBecomes(t, "free")
                                         ELSE UNCHANGED fstate
  /\ interrupted' = IF call[t].op = "close" THEN interrupted + 1 ELSE interrupted
  /\ call' = [call EXCEPT ![t] = NoCall]
  /\ UNCHANGED <<devVars, avail, tmp>>

-----------------------------------------------------------------------------
(* pwm_open(): refuse a count that wraps, set the timer up for the first *)
OpenSetup(t) ==
  /\ At(t, "first", "open")
  /\ IF NextCref(crefs) = 0
     THEN Unlock(t) /\ FileBecomes(t, "free") /\ UNCHANGED <<tim, tmp>>
     ELSE /\ tmp' = [tmp EXCEPT ![t] = NextCref(crefs)]
          /\ Continue(t)
          /\ tim' = IF NextCref(crefs) = 1 THEN TimerSetup(tim) ELSE tim
          /\ UNCHANGED fstate
  /\ UNCHANGED <<crefs, started, info, interrupted>>

(* pwm_open(): save the new count and leave *)
OpenSave(t) ==
  /\ At(t, "second", "open")
  /\ crefs' = tmp[t]
  /\ tmp' = [tmp EXCEPT ![t] = 0]
  /\ Unlock(t)
  /\ FileBecomes(t, "open")
  /\ UNCHANGED <<started, info, tim, interrupted>>

(* Mutant: the last but one close already shuts down *)
CloseDropEarly(t) ==
  /\ At(t, "first", "close")
  /\ IF crefs > 2
     THEN crefs' = crefs - 1 /\ Unlock(t) /\ FileBecomes(t, "free")
     ELSE crefs' = 0 /\ Continue(t) /\ UNCHANGED fstate
  /\ UNCHANGED <<started, info, tim, tmp, interrupted>>

(* pwm_close(): drop one of several references and leave, or go on *)
CloseDrop(t) ==
  /\ At(t, "first", "close")
  /\ IF crefs > 1
     THEN crefs' = crefs - 1 /\ Unlock(t) /\ FileBecomes(t, "free")
     ELSE crefs' = 0 /\ Continue(t) /\ UNCHANGED fstate
  /\ UNCHANGED <<started, info, tim, tmp, interrupted>>

(* pwm_close(): the last reference is gone, shut the timer down *)
CloseShutdown(t) ==
  /\ At(t, "second", "close")
  /\ tim' = TimerShutdown(tim)
  /\ Unlock(t)
  /\ FileBecomes(t, "free")
  /\ UNCHANGED <<crefs, started, info, tmp, interrupted>>

(* PWMIOC_SETCHARACTERISTICS: save the characteristics ... *)
SetSave(t) ==
  /\ At(t, "first", "set")
  /\ info' = call[t].info
  /\ Continue(t)
  /\ UNCHANGED <<crefs, started, tim, tmp, fstate, interrupted>>

(* Mutant: an unchanged frequency is taken for unchanged characteristics *)
SetRestartLazy(t) ==
  /\ At(t, "second", "set")
  /\ tim' = IF started /\ info.frequency # tim.frequency
            THEN TimerStart(tim, info) ELSE tim
  /\ Unlock(t)
  /\ UNCHANGED <<crefs, started, info, tmp, fstate, interrupted>>

(* ... and restart a started output with them *)
SetRestart(t) ==
  /\ At(t, "second", "set")
  /\ tim' = IF started THEN TimerStart(tim, info) ELSE tim
  /\ Unlock(t)
  /\ UNCHANGED <<crefs, started, info, tmp, fstate, interrupted>>

(* PWMIOC_GETCHARACTERISTICS, and an unknown command answered ENOTTY *)
Get(t) ==
  /\ At(t, "first", "get")
  /\ Unlock(t)
  /\ UNCHANGED <<devVars, tmp, fstate, interrupted>>

(* PWMIOC_START, pwm_start(): nothing when already started *)
StartTimer(t) ==
  /\ At(t, "first", "start")
  /\ IF started THEN Unlock(t) /\ UNCHANGED tim
                ELSE Continue(t) /\ tim' = TimerStart(tim, info)
  /\ UNCHANGED <<crefs, started, info, tmp, fstate, interrupted>>

StartMark(t) ==
  /\ At(t, "second", "start")
  /\ started' = TRUE
  /\ Unlock(t)
  /\ UNCHANGED <<crefs, info, tim, tmp, fstate, interrupted>>

(* PWMIOC_STOP: nothing when not started *)
StopTimer(t) ==
  /\ At(t, "first", "stop")
  /\ IF started THEN Continue(t) /\ tim' = TimerStop(tim)
                ELSE Unlock(t) /\ UNCHANGED tim
  /\ UNCHANGED <<crefs, started, info, tmp, fstate, interrupted>>

StopMark(t) ==
  /\ At(t, "second", "stop")
  /\ started' = FALSE
  /\ Unlock(t)
  /\ UNCHANGED <<crefs, info, tim, tmp, fstate, interrupted>>

-----------------------------------------------------------------------------
(* A call begins *)
Enter(t) ==
  \E f \in Files :
    \/ EnterOpen(t, f)
    \/ EnterClose(t, f)
    \/ \E op \in Ioctls \ {"set"} : EnterIoctl(t, f, op, NoInfo)
    \/ \E i \in Infos : EnterIoctl(t, f, "set", i)

(* A thread inside the driver takes its next step *)
Step(t) ==
  \/ OpenSetup(t) \/ OpenSave(t)
  \/ CloseDrop(t) \/ CloseShutdown(t)
  \/ SetSave(t) \/ SetRestart(t)
  \/ Get(t)
  \/ StartTimer(t) \/ StartMark(t)
  \/ StopTimer(t) \/ StopMark(t)

Next == \E t \in Threads : Enter(t) \/ Interrupt(t) \/ Step(t)

Spec == Init /\ [][Next]_vars

(* exclsem is handed to t *)
Granted(t) == pc[t] = "wait" /\ (\E u \in Threads : Step(u)) /\ pc'[t] = "first"

(* The driver never blocks while it holds exclsem, so a thread inside it   *)
(* is runnable and the scheduler lets it run.  nxsem_post() wakes waiters  *)
(* of equal priority in the order they came, so a post that could wake a   *)
(* thread again and again does wake it.  Nothing makes a thread call the   *)
(* driver, and no signal need ever arrive.                                 *)
FairSpec ==
  /\ Spec
  /\ \A t \in Threads : WF_vars(Step(t)) /\ SF_vars(Granted(t))
-----------------------------------------------------------------------------
(* The thread is between nxsem_wait() and nxsem_post() *)
Inside(t) == pc[t] \in {"first", "second"}

(* No thread is in the middle of an update *)
Quiet == \A t \in Threads : pc[t] # "second"

(* Files that hold a reference: opened, and not yet let go by pwm_close() *)
Referenced == {f \in Files : fstate[f] \in {"open", "closing"}}

(* Mutual exclusion: exclsem admits one thread to pwm_open(), pwm_close()  *)
(* and pwm_ioctl() at a time, across hand-overs to blocked threads and     *)
(* waits that a signal cuts short                                          *)
MutualExclusion ==
  \A s, t \in Threads : Inside(s) /\ Inside(t) => s = t

(* No reference is lost or counted twice: between updates crefs is the     *)
(* number of files that still hold a reference plus the closes that gave   *)
(* up with EINTR before they could drop theirs                             *)
CrefsAccounting ==
  Quiet => crefs = Cardinality(Referenced) + interrupted

(* pwm_close() of one file never gates the timer under another that is     *)
(* open                                                                    *)
PoweredWhileOpen ==
  (\E f \in Files : fstate[f] = "open") => tim.clk

(* Once the last reference is dropped the timer is stopped and its clock   *)
(* is off: no ioctl that comes late from another thread turns it on again  *)
OffWhenUnreferenced ==
  (Quiet /\ crefs = 0) => (~tim.clk /\ ~Pulsing(tim))

(* The clock gate follows the references, through every interleaving of    *)
(* open, close and late ioctls                                             *)
ClockFollowsReferences == PoweredWhileOpen /\ OffWhenUnreferenced

(* Pulses always have the characteristics that the last completed          *)
(* PWMIOC_SETCHARACTERISTICS asked for                                     *)
OutputMatchesInfo ==
  (Quiet /\ Pulsing(tim)) =>
     tim.arr = info.frequency /\ tim.ccr = info.duty

(* A call that waits for exclsem or runs under it returns *)
CallReturns ==
  \A t \in Threads : (pc[t] # "idle") ~> (pc[t] = "idle")

-----------------------------------------------------------------------------
(* The device as its clients see it: an update in progress counts as done  *)
Doing(op) == \E t \in Threads : At(t, "second", op)

Completed ==
  [crefs   |-> IF Doing("open") THEN NextCref(crefs) ELSE crefs,
   started |-> IF Doing("start") THEN TRUE
               ELSE IF Doing("stop") THEN FALSE ELSE started,
   info    |-> info,
   tim     |-> IF Doing("close") THEN TimerShutdown(tim)
               ELSE IF Doing("set") /\ started THEN TimerStart(tim, info)
               ELSE tim]

Device == INSTANCE PwmDev WITH dev <- Completed

(* The locked, interleaved driver implements the atomic device: every step *)
(* of a handler is one whole operation of PwmDev or no step at all         *)
AtomicDevice == Device!Spec

-----------------------------------------------------------------------------
(* close() says that with the last copy of a descriptor "the resources     *)
(* associated with it are freed": with no file in use the timer is off     *)
ClosedMeansOff ==
  (\A f \in Files : fstate[f] = "free") => ~tim.clk
=============================================================================

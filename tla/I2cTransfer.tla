----------------------------- MODULE I2cTransfer ----------------------------
(***************************************************************************)
(* The interrupt handshake of the STM32 I2C bus driver,                    *)
(* src/nuttx/arch/arm/src/stm32/stm32f40xxx_i2c.c, built without DMA and   *)
(* without polling: threads that transfer and reset, the interrupt         *)
(* service routine, the timeout and signals.                               *)
(*                                                                         *)
(* The routine's work on the bytes is abstracted to the number of          *)
(* interrupts that the messages still need.  stm32_i2c_sem_waitdone() runs *)
(* with interrupts disabled except where nxsem_timedwait() sleeps, so      *)
(* between two sleeps it is one step; the routine, the timeout and a       *)
(* signal come while the thread sleeps, or after one of them has made it   *)
(* ready and before it runs again.                                         *)
(***************************************************************************)
EXTENDS Naturals

CONSTANTS
  Threads,     \* callers of stm32_i2c_transfer() and stm32_i2c_reset()
  NoThread,    \* priv->msgv is NULL
  Steps,       \* interrupts that a transfer needs
  Errors,      \* errno values that the error bits of SR1 stand for
  Spurious,    \* the controller interrupts in a state the routine cannot place
  MaxSignals   \* bound on the waits that a signal ends

ASSUME ThreadsAssumption == NoThread \notin Threads
ASSUME StepsAssumption == Steps \in Nat \ {0}
ASSUME ErrorsAssumption == {"none", "OK", "ETIMEDOUT"} \cap Errors = {}
ASSUME SpuriousAssumption == Spurious \in BOOLEAN
ASSUME MaxSignalsAssumption == MaxSignals \in Nat

VARIABLES
  pc,        \* where each thread is
  ret,       \* what nxsem_timedwait() returns to it: OK, EINTR or ETIMEDOUT
  avail,     \* sem_excl
  isrCount,  \* sem_isr: the posts that found no thread asleep
  intstate,  \* the interrupt handshake
  ints,      \* CR2: the event and error interrupts are enabled
  late,      \* an interrupt was latched while the thread had them masked
  port,      \* the controller is initialised
  left,      \* interrupts the messages on the bus still need, 0 when idle
  owner,     \* the thread whose buffers priv->msgv and priv->ptr refer to
  status,    \* priv->status: an error of Errors, or none
  outcome,   \* what became of the messages: none (yet), ok, error or broken
  signals,   \* waits that a signal has ended
  result     \* each thread's last transfer

vars == <<pc, ret, avail, isrCount, intstate, ints, late, port, left, owner, status,
          outcome, signals, result>>

busVars == <<isrCount, intstate, ints, late, left, owner, status, outcome>>

Outcomes == {"none", "ok", "error", "broken"}

Results == [ret : {"OK", "ETIMEDOUT"} \cup Errors, outcome : Outcomes]

TypeOK ==
  /\ pc \in [Threads -> {"idle", "lock", "setup", "wait", "asleep", "ready", "tail",
                         "lockreset", "reset"}]
  /\ ret \in [Threads -> {"OK", "EINTR", "ETIMEDOUT"}]
  /\ avail \in {0, 1}
  /\ isrCount \in {0, 1}
  /\ intstate \in {"IDLE", "WAITING", "DONE"}
  /\ ints \in BOOLEAN /\ late \in BOOLEAN /\ port \in BOOLEAN
  /\ left \in 0 .. Steps
  /\ owner \in Threads \cup {NoThread}
  /\ status \in Errors \cup {"none"}
  /\ outcome \in Outcomes
  /\ signals \in 0 .. MaxSignals
  /\ result \in [Threads -> Results]

Init ==
  /\ pc = [t \in Threads |-> "idle"]
  /\ ret = [t \in Threads |-> "OK"]
  /\ avail = 1 /\ isrCount = 0
  /\ intstate = "IDLE" /\ ints = FALSE /\ late = FALSE
  /\ port = TRUE
  /\ left = 0 /\ owner = NoThread /\ status = "none" /\ outcome = "none"
  /\ signals = 0
  /\ result = [t \in Threads |-> [ret |-> "ETIMEDOUT", outcome |-> "none"]]

Goto(t, l) == pc' = [pc EXCEPT ![t] = l]

-----------------------------------------------------------------------------
(* stm32_i2c_sem_wait(): waits that a signal ends are taken up again *)
Begin(t) ==
  /\ pc[t] = "idle"
  /\ Goto(t, "lock") \/ Goto(t, "lockreset")
  /\ UNCHANGED <<ret, avail, busVars, port, signals, result>>

Acquire(t) ==
  /\ avail > 0
  /\ avail' = avail - 1
  /\ \/ pc[t] = "lock" /\ Goto(t, "setup")
     \/ pc[t] = "lockreset" /\ Goto(t, "reset")
  /\ UNCHANGED <<ret, busVars, port, signals, result>>

(* stm32_i2c_transfer() up to stm32_i2c_sem_waitdone(): clear what is left *)
(* of the last transfer, store the messages, send START                    *)
Setup(t) ==
  /\ pc[t] = "setup"
  /\ owner' = t
  /\ left' = Steps
  /\ status' = "none" /\ outcome' = "none"
  /\ Goto(t, "wait")
  /\ UNCHANGED <<ret, avail, isrCount, intstate, ints, late, port, signals, result>>

(* Mutant: any post ends the wait *)
WaitEnterOnce(t) ==
  /\ pc[t] = "wait"
  /\ intstate' = IF isrCount > 0 THEN "IDLE" ELSE "WAITING"
  /\ ints' = (isrCount = 0)
  /\ isrCount' = 0
  /\ Goto(t, IF isrCount > 0 THEN "tail" ELSE "asleep")
  /\ ret' = [ret EXCEPT ![t] = "OK"]
  /\ UNCHANGED <<avail, late, port, left, owner, status, outcome, signals, result>>

(* stm32_i2c_sem_waitdone(): enable interrupts, announce the wait, sleep.  *)
(* A post left over from an earlier transfer does not end the wait: the    *)
(* loop finds the state not DONE and sleeps on                             *)
WaitEnter(t) ==
  /\ pc[t] = "wait"
  /\ ints' = TRUE
  /\ intstate' = "WAITING"
  /\ isrCount' = 0
  /\ Goto(t, "asleep")
  /\ UNCHANGED <<ret, avail, late, port, left, owner, status, outcome, signals,
                 result>>

(* nxsem_timeout(): the watchdog ends the wait *)
Timeout(t) ==
  /\ pc[t] = "asleep"
  /\ Goto(t, "ready")
  /\ ret' = [ret EXCEPT ![t] = "ETIMEDOUT"]
  /\ UNCHANGED <<avail, isrCount, intstate, ints, late, port, left, owner, status, outcome,
                 signals, result>>

(* A signal ends the wait *)
Signal(t) ==
  /\ pc[t] = "asleep"
  /\ signals < MaxSignals
  /\ signals' = signals + 1
  /\ Goto(t, "ready")
  /\ ret' = [ret EXCEPT ![t] = "EINTR"]
  /\ UNCHANGED <<avail, busVars, port, result>>

(* Mutant: interrupts stay enabled after a timeout *)
ResumeLeavesInts(t) ==
  /\ pc[t] = "ready"
  /\ IF ret[t] # "ETIMEDOUT" /\ intstate # "DONE"
     THEN /\ isrCount' = 0
          /\ Goto(t, "asleep")
          /\ UNCHANGED <<intstate, late>>
     ELSE /\ intstate' = "IDLE"
          /\ late' = FALSE
          /\ Goto(t, "tail")
          /\ UNCHANGED isrCount
  /\ UNCHANGED <<ret, avail, ints, port, left, owner, status, outcome, signals,
                 result>>

(* The thread runs again: sleep on after a signal, or leave the wait with  *)
(* the interrupts disabled.  An interrupt of the controller that the mask  *)
(* held back is latched and comes as soon as the mask is lifted            *)
Resume(t) ==
  /\ pc[t] = "ready"
  /\ IF ret[t] # "ETIMEDOUT" /\ intstate # "DONE"
     THEN /\ isrCount' = 0
          /\ Goto(t, "asleep")
          /\ UNCHANGED <<intstate, ints, late>>
     ELSE /\ intstate' = "IDLE"
          /\ ints' = FALSE
          /\ late' \in {FALSE, port /\ left > 0}
          /\ Goto(t, "tail")
          /\ UNCHANGED isrCount
  /\ UNCHANGED <<ret, avail, port, left, owner, status, outcome, signals, result>>

(* Mutant: the status is looked at only when the wait succeeded *)
TailTimeoutFirst(t) ==
  /\ pc[t] = "tail" /\ ~late
  /\ result' = [result EXCEPT ![t] =
                  [ret     |-> IF ret[t] # "OK" THEN "ETIMEDOUT"
                               ELSE IF status = "none" THEN "OK" ELSE status,
                   outcome |-> outcome]]
  /\ owner' = NoThread
  /\ avail' = avail + 1
  /\ Goto(t, "idle")
  /\ UNCHANGED <<ret, isrCount, intstate, ints, late, port, left, status, outcome,
                 signals>>

(* Mutant: the bus is not given back *)
TailKeepsBus(t) ==
  /\ pc[t] = "tail" /\ ~late
  /\ result' = [result EXCEPT ![t] =
                  [ret     |-> IF status # "none" THEN status
                               ELSE IF ret[t] = "OK" THEN "OK" ELSE "ETIMEDOUT",
                   outcome |-> outcome]]
  /\ owner' = NoThread
  /\ Goto(t, "idle")
  /\ UNCHANGED <<ret, avail, isrCount, intstate, ints, late, port, left, status, outcome,
                 signals>>

(* stm32_i2c_transfer() after the wait: a wait that failed is a timeout,   *)
(* an error status overrides it; forget the buffers and give the bus back  *)
TransferTail(t) ==
  /\ pc[t] = "tail" /\ ~late
  /\ result' = [result EXCEPT ![t] =
                  [ret     |-> IF status # "none" THEN status
                               ELSE IF ret[t] = "OK" THEN "OK" ELSE "ETIMEDOUT",
                   outcome |-> outcome]]
  /\ owner' = NoThread
  /\ avail' = avail + 1
  /\ Goto(t, "idle")
  /\ UNCHANGED <<ret, isrCount, intstate, ints, late, port, left, status, outcome,
                 signals>>

(* stm32_i2c_reset(): clock the bus by hand, re-initialise the controller, *)
(* or give up when a slave does not let go                                 *)
Reset(t) ==
  /\ pc[t] = "reset"
  /\ port' \in BOOLEAN
  /\ left' = 0
  /\ avail' = avail + 1
  /\ Goto(t, "idle")
  /\ UNCHANGED <<ret, isrCount, intstate, ints, late, owner, status, outcome,
                 signals, result>>

-----------------------------------------------------------------------------
(* nxsem_post(&priv->sem_isr) *)
PostIsr ==
  \/ \E t \in Threads :
       /\ pc[t] = "asleep"
       /\ Goto(t, "ready")
       /\ ret' = [ret EXCEPT ![t] = "OK"]
       /\ UNCHANGED isrCount
  \/ /\ \A t \in Threads : pc[t] # "asleep"
     /\ isrCount' = isrCount + 1
     /\ UNCHANGED <<pc, ret>>

(* stm32_i2c_isr_process() at the end of the messages, and after an error: *)
(* shut the interrupts down and tell a thread that waits                   *)
Finish(s, o) ==
  /\ status' = s
  /\ outcome' = o
  /\ left' = 0
  /\ ints' = FALSE
  /\ IF intstate = "WAITING"
     THEN PostIsr /\ intstate' = "DONE"
     ELSE UNCHANGED <<pc, ret, isrCount, intstate>>

(* stm32_i2c_isr_process(): move a byte, finish, finish with an error bit, *)
(* or give up in a state that it does not know                             *)
IsrProcess ==
  /\ left > 0
  /\ \/ /\ left > 1
        /\ left' = left - 1
        /\ UNCHANGED <<pc, ret, isrCount, intstate, ints, status, outcome>>
     \/ left = 1 /\ Finish("none", "ok")
     \/ \E e \in Errors : Finish(e, "error")
     \/ Spurious /\ Finish("none", "broken")
  /\ UNCHANGED <<avail, port, owner, signals, result>>

Isr == ints /\ port /\ IsrProcess /\ UNCHANGED late

(* The interrupt that was latched comes before the thread goes on *)
LateIsr == late /\ IsrProcess /\ late' = FALSE

-----------------------------------------------------------------------------
Step(t) == Setup(t) \/ WaitEnter(t) \/ Resume(t) \/ TransferTail(t) \/ Reset(t)

Next ==
  \/ \E t \in Threads : Begin(t) \/ Acquire(t) \/ Step(t) \/ Timeout(t) \/ Signal(t)
  \/ Isr
  \/ LateIsr

Spec == Init /\ [][Next]_vars

(* Threads that can run are run, the watchdog fires, a latched interrupt   *)
(* is taken, and sem_excl goes to each of its waiters (equal priorities)   *)
(* in turn.  Nothing is assumed of the bus.                                *)
FairSpec ==
  /\ Spec
  /\ \A t \in Threads : WF_vars(Step(t)) /\ WF_vars(Timeout(t)) /\ SF_vars(Acquire(t))
  /\ WF_vars(LateIsr)
-----------------------------------------------------------------------------
(* The thread is between stm32_i2c_sem_wait() and stm32_i2c_sem_post() *)
Holds(t) == pc[t] \in {"setup", "wait", "asleep", "ready", "tail", "reset"}

(* One thread at a time programs the controller *)
Exclusive == \A s, t \in Threads : Holds(s) /\ Holds(t) => s = t

(* The interrupt routine works only on the buffers of a thread that is     *)
(* still waiting in stm32_i2c_transfer(): none of its runs, the latched    *)
(* one included, writes to a message whose owner has returned              *)
BuffersOwned ==
  (ints \/ late) =>
     \E t \in Threads : owner = t /\ pc[t] \in {"asleep", "ready", "tail"}

(* A transfer returns OK only after the interrupt routine has ended it     *)
(* without an error bit: neither a post left over from a transfer that     *)
(* timed out nor a signal makes it return early                            *)
OkMeansDone ==
  \A t \in Threads : result[t].ret = "OK" => result[t].outcome \in {"ok", "broken"}

(* A transfer whose error the interrupt routine saw does not pass for OK   *)
(* or for a plain timeout                                                  *)
ErrorsReported ==
  \A t \in Threads : result[t].outcome = "error" => result[t].ret \in Errors

(* A transfer returns although the bus may hang, signals come, and a post  *)
(* may be missed                                                           *)
TransferReturns ==
  \A t \in Threads : (pc[t] # "idle") ~> (pc[t] = "idle")
=============================================================================

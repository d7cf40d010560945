-------------------------- MODULE I2cTransferProofs -------------------------
(***************************************************************************)
(* Proofs about the transfers of the I2C bus driver: the handshake of      *)
(* I2cTransfer for every number of threads, errors and interrupts, and     *)
(* then the byte machine of I2cIsr for every set of message lists.         *)
(***************************************************************************)
EXTENDS I2cTransfer, I2cIsr, SequenceTheorems, NaturalsInduction, WellFoundedInduction,
        TLAPS

(* The part of a transfer in which priv->msgv is the caller's *)
Active(t) == pc[t] \in {"wait", "asleep", "ready", "tail"}

(* sem_excl counts the threads that hold the bus *)
LockInv ==
  /\ Exclusive
  /\ \A t \in Threads : Holds(t) => avail = 0

(* Interrupts belong to the thread whose messages are on the bus *)
OwnerInv ==
  /\ \A t \in Threads : Active(t) <=> owner = t
  /\ ints => \E t \in Threads : pc[t] \in {"asleep", "ready"}
  /\ late => \E t \in Threads : pc[t] = "tail"

(* The handshake: a sleeping thread is announced and finds no stale post,  *)
(* and DONE means that the routine has finished its messages               *)
HandshakeInv ==
  /\ \A t \in Threads : pc[t] = "asleep" => intstate = "WAITING"
  /\ \A t \in Threads : pc[t] = "ready" => intstate # "IDLE"
  /\ intstate # "IDLE" => \E t \in Threads : pc[t] \in {"asleep", "ready"}
  /\ intstate = "WAITING" => isrCount = 0
  /\ intstate = "DONE" => outcome # "none"
  /\ \A t \in Threads : pc[t] = "ready" /\ ret[t] = "OK" => intstate = "DONE"
  /\ \A t \in Threads : pc[t] = "tail" /\ ret[t] = "OK" => outcome # "none"

(* What priv->status says of the messages on the bus *)
OutcomeInv ==
  /\ \A t \in Threads : Active(t) => (left = 0 <=> outcome # "none")
  /\ \A t \in Threads : Active(t) => (status # "none" <=> outcome = "error")

Inv == TypeOK /\ LockInv /\ OwnerInv /\ HandshakeInv /\ OutcomeInv

LEMMA InvInit == Init => Inv
<1> SUFFICES ASSUME Init PROVE Inv
  OBVIOUS
<1>1. TypeOK
  <2>1. [ret |-> "ETIMEDOUT", outcome |-> "none"] \in Results
    BY DEF Results, Outcomes
  <2>2. result \in [Threads -> Results]
    BY <2>1 DEF Init
  <2>3. left \in 0 .. Steps /\ signals \in 0 .. MaxSignals
    BY StepsAssumption, MaxSignalsAssumption DEF Init
  <2>4. ret \in [Threads -> {"OK", "EINTR", "ETIMEDOUT"}]
    BY DEF Init
  <2>5. pc \in [Threads -> {"idle", "lock", "setup", "wait", "asleep", "ready", "tail",
                            "lockreset", "reset"}]
    BY DEF Init
  <2> QED BY <2>2, <2>3, <2>4, <2>5 DEF Init, TypeOK, Outcomes
<1>2. LockInv
  BY DEF Init, LockInv, Exclusive, Holds
<1>3. OwnerInv
  BY ThreadsAssumption DEF Init, OwnerInv, Active
<1>4. HandshakeInv
  BY DEF Init, HandshakeInv
<1>5. OutcomeInv
  BY DEF Init, OutcomeInv, Active
<1> QED BY <1>1, <1>2, <1>3, <1>4, <1>5 DEF Inv

(* Steps before the messages are stored *)
LEMMA BeginStep ==
  ASSUME Inv, NEW t \in Threads, Begin(t) \/ Acquire(t)
  PROVE  Inv'
<1> USE DEF Inv, Begin, Acquire, Goto, busVars
<1>1. TypeOK'
  BY DEF TypeOK
<1>2. LockInv'
  BY DEF TypeOK, LockInv, Exclusive, Holds
<1>3. OwnerInv'
  BY DEF TypeOK, OwnerInv, Active
<1>4. HandshakeInv'
  BY DEF TypeOK, HandshakeInv
<1>5. OutcomeInv'
  BY DEF TypeOK, OutcomeInv, Active
<1> QED BY <1>1, <1>2, <1>3, <1>4, <1>5

LEMMA SetupStep ==
  ASSUME Inv, NEW t \in Threads, Setup(t)
  PROVE  Inv'
<1> USE DEF Inv, Setup, Goto
<1>0. \A u \in Threads : u # t => ~Holds(u)
  BY DEF LockInv, Exclusive, Holds
<1>1. TypeOK'
  <2>1. left' \in 0 .. Steps
    BY StepsAssumption
  <2> QED BY <2>1 DEF TypeOK, Outcomes
<1>2. LockInv'
  BY DEF TypeOK, LockInv, Exclusive, Holds
<1>3. OwnerInv'
  BY <1>0 DEF TypeOK, OwnerInv, Active, Holds
<1>4. HandshakeInv'
  BY <1>0 DEF TypeOK, HandshakeInv, Holds
<1>5. OutcomeInv'
  BY <1>0, StepsAssumption DEF TypeOK, OutcomeInv, Active, Holds
<1> QED BY <1>1, <1>2, <1>3, <1>4, <1>5

LEMMA WaitEnterStep ==
  ASSUME Inv, NEW t \in Threads, WaitEnter(t)
  PROVE  Inv'
<1> USE DEF Inv, WaitEnter, Goto
<1>0. \A u \in Threads : u # t => ~Holds(u)
  BY DEF LockInv, Exclusive, Holds
<1>1. TypeOK'
  BY DEF TypeOK
<1>2. LockInv'
  BY DEF TypeOK, LockInv, Exclusive, Holds
<1>3. OwnerInv'
  BY <1>0 DEF TypeOK, OwnerInv, Active, Holds
<1>4. HandshakeInv'
  BY <1>0 DEF TypeOK, HandshakeInv, Holds
<1>5. OutcomeInv'
  BY <1>0 DEF TypeOK, OutcomeInv, Active, Holds
<1> QED BY <1>1, <1>2, <1>3, <1>4, <1>5

LEMMA WakeStep ==
  ASSUME Inv, NEW t \in Threads, Timeout(t) \/ Signal(t)
  PROVE  Inv'
<1> USE DEF Inv, Timeout, Signal, Goto, busVars
<1>0. \A u \in Threads : u # t => ~Holds(u)
  BY DEF LockInv, Exclusive, Holds
<1>1. TypeOK'
  <2>1. CASE Timeout(t)
    BY <2>1 DEF TypeOK
  <2>2. CASE Signal(t)
    <3>1. signals' \in 0 .. MaxSignals
      BY <2>2, MaxSignalsAssumption DEF TypeOK
    <3> QED BY <2>2, <3>1 DEF TypeOK
  <2> QED BY <2>1, <2>2
<1>2. LockInv'
  BY DEF TypeOK, LockInv, Exclusive, Holds
<1>3. OwnerInv'
  BY <1>0 DEF TypeOK, OwnerInv, Active, Holds
<1>4. HandshakeInv'
  BY <1>0 DEF TypeOK, HandshakeInv, Holds
<1>5. OutcomeInv'
  BY <1>0 DEF TypeOK, OutcomeInv, Active, Holds
<1> QED BY <1>1, <1>2, <1>3, <1>4, <1>5

LEMMA ResumeStep ==
  ASSUME Inv, NEW t \in Threads, Resume(t)
  PROVE  Inv'
<1> USE DEF Inv, Resume, Goto
<1>0. \A u \in Threads : u # t => ~Holds(u)
  BY DEF LockInv, Exclusive, Holds
<1>1. TypeOK'
  BY DEF TypeOK
<1>2. LockInv'
  BY DEF TypeOK, LockInv, Exclusive, Holds
<1>3. OwnerInv'
  BY <1>0 DEF TypeOK, OwnerInv, Active, Holds
<1>4. HandshakeInv'
  BY <1>0 DEF TypeOK, HandshakeInv, Holds
<1>5. OutcomeInv'
  BY <1>0 DEF TypeOK, OutcomeInv, Active, Holds
<1> QED BY <1>1, <1>2, <1>3, <1>4, <1>5

LEMMA ReleaseStep ==
  ASSUME Inv, NEW t \in Threads, TransferTail(t) \/ Reset(t)
  PROVE  Inv'
<1> USE DEF Inv, TransferTail, Reset, Goto
<1>0. \A u \in Threads : u # t => ~Holds(u)
  BY DEF LockInv, Exclusive, Holds
<1>1. TypeOK'
  BY StepsAssumption DEF TypeOK, Results, LockInv, Holds
<1>2. LockInv'
  BY <1>0 DEF TypeOK, LockInv, Exclusive, Holds
<1>3. OwnerInv'
  BY <1>0, ThreadsAssumption DEF TypeOK, OwnerInv, Active, Holds
<1>4. HandshakeInv'
  BY <1>0 DEF TypeOK, HandshakeInv, Holds
<1>5. OutcomeInv'
  BY <1>0 DEF TypeOK, OutcomeInv, Active, Holds
<1> QED BY <1>1, <1>2, <1>3, <1>4, <1>5

(* What a run of the interrupt routine leaves alone *)
LEMMA PostIsrFacts ==
  ASSUME Inv, PostIsr, intstate = "WAITING"
  PROVE  /\ pc' \in [Threads -> {"idle", "lock", "setup", "wait", "asleep", "ready", "tail",
                                 "lockreset", "reset"}]
         /\ ret' \in [Threads -> {"OK", "EINTR", "ETIMEDOUT"}]
         /\ isrCount' \in {0, 1}
         /\ \A u \in Threads : pc'[u] # "asleep"
         /\ \A u \in Threads : pc'[u] # pc[u] => pc[u] = "asleep" /\ pc'[u] = "ready"
         /\ \A u \in Threads : ret'[u] # ret[u] => pc[u] = "asleep"
<1> USE DEF Inv, TypeOK, PostIsr, Goto
<1>1. CASE \A t \in Threads : pc[t] # "asleep"
  BY <1>1 DEF HandshakeInv
<1>2. CASE \E t \in Threads : pc[t] = "asleep"
  <2>1. PICK t \in Threads : /\ pc[t] = "asleep"
                             /\ pc' = [pc EXCEPT ![t] = "ready"]
                             /\ ret' = [ret EXCEPT ![t] = "OK"]
                             /\ isrCount' = isrCount
    BY <1>2
  <2>2. \A u \in Threads : pc[u] = "asleep" => u = t
    BY <2>1 DEF LockInv, Exclusive, Holds
  <2> QED BY <2>1, <2>2
<1> QED BY <1>1, <1>2

LEMMA IsrFacts ==
  ASSUME Inv, IsrProcess
  PROVE  /\ pc' \in [Threads -> {"idle", "lock", "setup", "wait", "asleep", "ready", "tail",
                                 "lockreset", "reset"}]
         /\ ret' \in [Threads -> {"OK", "EINTR", "ETIMEDOUT"}]
         /\ isrCount' \in {0, 1}
         /\ \A u \in Threads : pc'[u] # pc[u] => pc[u] = "asleep" /\ pc'[u] = "ready"
         /\ \A u \in Threads : ret'[u] # ret[u] => pc[u] = "asleep"
<1>1. CASE intstate = "WAITING" /\ PostIsr
  BY <1>1, PostIsrFacts
<1>2. CASE UNCHANGED <<pc, ret, isrCount>>
  BY <1>2 DEF Inv, TypeOK
<1> QED BY <1>1, <1>2 DEF IsrProcess, Finish

(* The routine runs only for a transfer whose messages are unfinished *)
LEMMA IsrStep ==
  ASSUME Inv, Isr \/ LateIsr
  PROVE  Inv'
<1> USE DEF Inv
<1>0. IsrProcess
  BY DEF Isr, LateIsr
<1>1. /\ pc' \in [Threads -> {"idle", "lock", "setup", "wait", "asleep", "ready", "tail",
                              "lockreset", "reset"}]
      /\ ret' \in [Threads -> {"OK", "EINTR", "ETIMEDOUT"}]
      /\ isrCount' \in {0, 1}
      /\ \A u \in Threads : pc'[u] # pc[u] => pc[u] = "asleep" /\ pc'[u] = "ready"
      /\ \A u \in Threads : ret'[u] # ret[u] => pc[u] = "asleep"
  BY <1>0, IsrFacts
<1>2. PICK t \in Threads : /\ ints => pc[t] \in {"asleep", "ready"}
                           /\ late => pc[t] = "tail"
                           /\ Active(t)
  <2>1. CASE Isr
    <3>1. PICK t \in Threads : pc[t] \in {"asleep", "ready"}
      BY <2>1 DEF Isr, OwnerInv
    <3>2. ~late
      BY <3>1 DEF OwnerInv, LockInv, Exclusive, Holds
    <3> QED BY <3>1, <3>2 DEF Active
  <2>2. CASE LateIsr
    <3>1. PICK t \in Threads : pc[t] = "tail"
      BY <2>2 DEF LateIsr, OwnerInv
    <3>2. ~ints
      BY <3>1 DEF OwnerInv, LockInv, Exclusive, Holds
    <3> QED BY <3>1, <3>2 DEF Active
  <2> QED BY <2>1, <2>2
<1>3. \A u \in Threads : u # t => ~Holds(u) /\ ~Active(u) /\ pc'[u] = pc[u]
  BY <1>1, <1>2 DEF LockInv, Exclusive, Holds, Active
<1>4. Active(t)' /\ Holds(t)' /\ Holds(t)
  BY <1>1, <1>2 DEF Active, Holds
<1>5. avail' = avail /\ port' = port /\ owner' = owner /\ signals' = signals
      /\ result' = result
  BY <1>0 DEF IsrProcess
<1>6. ~late'
  BY <1>2 DEF Isr, LateIsr
<1>7. outcome = "none" /\ left > 0 /\ status = "none"
  BY <1>0, <1>2 DEF IsrProcess, OutcomeInv, TypeOK
<1>8. TypeOK'
  <2>1. left' \in 0 .. Steps
    BY <1>0, StepsAssumption DEF IsrProcess, Finish, TypeOK
  <2>2. ints' \in BOOLEAN /\ late' = FALSE
    BY <1>0, <1>2 DEF IsrProcess, Finish, TypeOK, Isr, LateIsr
  <2>3. status' \in Errors \cup {"none"} /\ outcome' \in Outcomes
    BY <1>0 DEF IsrProcess, Finish, TypeOK, Outcomes
  <2>4. intstate' \in {"IDLE", "WAITING", "DONE"}
    BY <1>0 DEF IsrProcess, Finish, TypeOK
  <2> QED BY <1>1, <1>5, <2>1, <2>2, <2>3, <2>4 DEF TypeOK
<1>9. LockInv'
  BY <1>3, <1>4, <1>5 DEF LockInv, Exclusive, Holds
<1>10. OwnerInv'
  <2>1. ints' => pc'[t] \in {"asleep", "ready"}
    BY <1>0, <1>1, <1>2 DEF IsrProcess, Finish
  <2> QED BY <1>2, <1>3, <1>4, <1>5, <1>6, <2>1 DEF OwnerInv, Active
<1>11. HandshakeInv'
  <2>1. CASE UNCHANGED <<pc, ret, isrCount, intstate>> /\ outcome' = "none"
    BY <1>7, <2>1 DEF HandshakeInv
  <2>2. CASE UNCHANGED <<pc, ret, isrCount, intstate>> /\ outcome' # "none"
    BY <1>7, <2>2 DEF HandshakeInv
  <2>3. CASE intstate = "WAITING" /\ PostIsr /\ intstate' = "DONE" /\ outcome' # "none"
    <3>1. \A u \in Threads : pc'[u] # "asleep"
      BY <2>3, PostIsrFacts
    <3>2. pc'[t] = "ready"
      BY <1>1, <1>2, <1>4, <2>3, <3>1 DEF HandshakeInv, Active, TypeOK, LockInv, Exclusive, Holds
    <3> QED BY <1>1, <1>2, <1>3, <2>3, <3>1, <3>2 DEF HandshakeInv, Holds
  <2> QED BY <1>0, <1>7, <2>1, <2>2, <2>3 DEF IsrProcess, Finish
<1>12. OutcomeInv'
  <2>1. (left' = 0 <=> outcome' # "none") /\ (status' # "none" <=> outcome' = "error")
    BY <1>0, <1>7, ErrorsAssumption DEF IsrProcess, Finish, TypeOK
  <2> QED BY <2>1 DEF OutcomeInv
<1> QED BY <1>8, <1>9, <1>10, <1>11, <1>12

LEMMA InvStep == Inv /\ [Next]_vars => Inv'
<1> SUFFICES ASSUME Inv, [Next]_vars PROVE Inv'
  OBVIOUS
<1>1. CASE UNCHANGED vars
  BY <1>1 DEF Inv, TypeOK, LockInv, Exclusive, Holds, OwnerInv, Active, HandshakeInv,
              OutcomeInv, vars
<1>2. ASSUME NEW t \in Threads,
             Begin(t) \/ Acquire(t) \/ Step(t) \/ Timeout(t) \/ Signal(t)
      PROVE  Inv'
  BY <1>2, BeginStep, SetupStep, WaitEnterStep, WakeStep, ResumeStep, ReleaseStep DEF Step
<1>3. CASE Isr \/ LateIsr
  BY <1>3, IsrStep
<1> QED BY <1>1, <1>2, <1>3 DEF Next

(* The variables of the bus driver keep their types: in particular sem_isr *)
(* never holds more than one stale post                                    *)
THEOREM TypeCorrect == Spec => []TypeOK
<1>1. Inv => TypeOK
  BY DEF Inv
<1> QED BY <1>1, InvInit, InvStep, PTL DEF Spec

(* One thread at a time programs the controller *)
THEOREM Exclusion == Spec => []Exclusive
<1>1. Inv => Exclusive
  BY DEF Inv, LockInv
<1> QED BY <1>1, InvInit, InvStep, PTL DEF Spec

(* No run of the interrupt routine, the latched one included, works on the *)
(* buffers of a transfer that has returned                                 *)
THEOREM Ownership == Spec => []BuffersOwned
<1>1. Inv => BuffersOwned
  BY DEF Inv, OwnerInv, BuffersOwned, Active
<1> QED BY <1>1, InvInit, InvStep, PTL DEF Spec

(* What a transfer that ends puts into its result *)
LEMMA ResultStep ==
  ASSUME Inv, [Next]_vars, NEW u \in Threads, result'[u] # result[u]
  PROVE  /\ pc[u] = "tail"
         /\ result'[u] = [ret     |-> IF status # "none" THEN status
                                      ELSE IF ret[u] = "OK" THEN "OK" ELSE "ETIMEDOUT",
                          outcome |-> outcome]
<1>1. PICK t \in Threads : TransferTail(t)
  BY DEF vars, Next, Begin, Acquire, Step, Setup, WaitEnter, Resume, Reset, Timeout, Signal,
         Isr, LateIsr, IsrProcess
<1>2. u = t
  BY <1>1 DEF TransferTail, Inv, TypeOK
<1> QED BY <1>1, <1>2 DEF TransferTail, Inv, TypeOK

(* A transfer returns OK only after the interrupt routine has ended it     *)
(* without an error bit, whatever stale posts and signals are around       *)
THEOREM Completion == Spec => []OkMeansDone
<1>1. Init => OkMeansDone
  BY DEF Init, OkMeansDone
<1>2. Inv /\ OkMeansDone /\ [Next]_vars => OkMeansDone'
  <2> SUFFICES ASSUME Inv, OkMeansDone, [Next]_vars, NEW u \in Threads,
                      result'[u].ret = "OK"
               PROVE  result'[u].outcome \in {"ok", "broken"}
    BY DEF OkMeansDone
  <2>1. CASE result'[u] = result[u]
    BY <2>1 DEF OkMeansDone
  <2>2. CASE result'[u] # result[u]
    <3>0. /\ pc[u] = "tail" /\ result'[u].outcome = outcome
          /\ result'[u].ret = IF status # "none" THEN status
                              ELSE IF ret[u] = "OK" THEN "OK" ELSE "ETIMEDOUT"
      <4>1. /\ pc[u] = "tail"
            /\ result'[u] = [ret     |-> IF status # "none" THEN status
                                         ELSE IF ret[u] = "OK" THEN "OK" ELSE "ETIMEDOUT",
                             outcome |-> outcome]
        BY <2>2, ResultStep
      <4> QED BY <4>1
    <3>1. pc[u] = "tail" /\ status = "none" /\ ret[u] = "OK" /\ result'[u].outcome = outcome
      BY <3>0, ErrorsAssumption DEF Inv, TypeOK
    <3>2. outcome # "none" /\ outcome # "error"
      BY <3>1 DEF Inv, HandshakeInv, OutcomeInv, Active
    <3> QED BY <3>1, <3>2 DEF Inv, TypeOK, Outcomes
  <2> QED BY <2>1, <2>2
<1> QED BY <1>1, <1>2, InvInit, InvStep, PTL DEF Spec

(* An error that the interrupt routine saw is what the transfer returns,   *)
(* also when the timeout fired or a signal came at the same time           *)
THEOREM Reporting == Spec => []ErrorsReported
<1>1. Init => ErrorsReported
  BY DEF Init, ErrorsReported
<1>2. Inv /\ ErrorsReported /\ [Next]_vars => ErrorsReported'
  <2> SUFFICES ASSUME Inv, ErrorsReported, [Next]_vars, NEW u \in Threads,
                      result'[u].outcome = "error"
               PROVE  result'[u].ret \in Errors
    BY DEF ErrorsReported
  <2>1. CASE result'[u] = result[u]
    BY <2>1 DEF ErrorsReported
  <2>2. CASE result'[u] # result[u]
    <3>1. /\ pc[u] = "tail"
          /\ result'[u] = [ret     |-> IF status # "none" THEN status
                                       ELSE IF ret[u] = "OK" THEN "OK" ELSE "ETIMEDOUT",
                           outcome |-> outcome]
      BY <2>2, ResultStep
    <3>2. outcome = "error"
      BY <3>1
    <3>3. status # "none"
      BY <3>1, <3>2 DEF Inv, OutcomeInv, Active
    <3> QED BY <3>1, <3>3 DEF Inv, TypeOK
  <2> QED BY <2>1, <2>2
<1> QED BY <1>1, <1>2, InvInit, InvStep, PTL DEF Spec
-----------------------------------------------------------------------------
(* The byte machine, module I2cIsr.                                        *)

(* The two structures are records of these fields *)
IsPriv(p) ==
  /\ p = [x \in DOMAIN p |-> p[x]]
  /\ DOMAIN p = {"dcnt", "msgc", "msgv", "cur", "ptr", "check", "status", "done", "branch"}

IsHw(h) ==
  /\ h = [x \in DOMAIN h |-> h[x]]
  /\ DOMAIN h = {"mode", "sr1", "dr", "shift", "ack", "pos", "start", "stop", "itevt",
                 "itbuf", "k", "nacked"}

IsRun(s) == s = [x \in DOMAIN s |-> s[x]] /\ DOMAIN s = {"p", "h", "b", "st"}

LEMMA PutDrIs ==
  ASSUME NEW h, IsHw(h), NEW v
  PROVE  LET g == PutDr(h, v)
         IN /\ IsHw(g)
            /\ g.ack = h.ack /\ g.pos = h.pos /\ g.start = h.start /\ g.stop = h.stop
            /\ g.itevt = h.itevt /\ g.itbuf = h.itbuf /\ g.k = h.k /\ g.nacked = h.nacked
            /\ h.mode = "sb" => /\ g.mode = "addr" /\ g.sr1 = h.sr1 \ {"SB"}
                                /\ g.dr = v /\ g.shift = h.shift
            /\ h.mode # "sb" =>
                 /\ g.mode = h.mode
                 /\ h.shift = <<>> => /\ g.shift = v /\ g.dr = h.dr
                                      /\ g.sr1 = h.sr1 \ {"BTF"}
                 /\ h.shift # <<>> => /\ g.shift = h.shift /\ g.dr = v
                                      /\ g.sr1 = h.sr1 \ {"TXE", "BTF"}
BY DEF IsHw, PutDr, NONE

LEMMA TakeDrIs ==
  ASSUME NEW h, IsHw(h)
  PROVE  LET g == TakeDr(h)
         IN /\ IsHw(g) /\ g.mode = h.mode
            /\ g.ack = h.ack /\ g.pos = h.pos /\ g.start = h.start /\ g.stop = h.stop
            /\ g.itevt = h.itevt /\ g.itbuf = h.itbuf /\ g.k = h.k /\ g.nacked = h.nacked
            /\ h.mode = "rx" /\ h.shift # <<>> =>
                 g.dr = h.shift /\ g.shift = <<>> /\ g.sr1 = h.sr1 \ {"BTF"}
            /\ ~(h.mode = "rx" /\ h.shift # <<>>) =>
                 g.dr = h.dr /\ g.shift = h.shift /\ g.sr1 = h.sr1 \ {"RXNE", "BTF"}
BY DEF IsHw, TakeDr, NONE

LEMMA ReadSr2Is ==
  ASSUME NEW h, IsHw(h)
  PROVE  LET g == ReadSr2(h)
         IN /\ IsHw(g)
            /\ g.ack = h.ack /\ g.pos = h.pos /\ g.start = h.start /\ g.stop = h.stop
            /\ g.itevt = h.itevt /\ g.itbuf = h.itbuf
            /\ "ADDR" \notin h.sr1 => g = h
            /\ "ADDR" \in h.sr1 /\ h.dr[2] =>
                 /\ g.mode = "rx" /\ g.sr1 = h.sr1 \ {"ADDR"} /\ g.dr = <<>> /\ g.shift = <<>>
                 /\ g.k = 0 /\ g.nacked = FALSE
            /\ "ADDR" \in h.sr1 /\ ~h.dr[2] =>
                 /\ g.mode = "tx" /\ g.sr1 = (h.sr1 \ {"ADDR"}) \union {"TXE"}
                 /\ g.dr = <<>> /\ g.shift = <<>> /\ g.k = h.k /\ g.nacked = h.nacked
BY DEF IsHw, ReadSr2, NONE

LEMMA LatchIs ==
  ASSUME IsPriv(priv), NEW st, NEW b
  PROVE  LET p == Latch(st, b)
         IN /\ IsPriv(p) /\ p.status = st /\ p.branch = b /\ p.dcnt = priv.dcnt
            /\ p.msgc = priv.msgc /\ p.msgv = priv.msgv /\ p.cur = priv.cur
            /\ p.ptr = priv.ptr /\ p.check = priv.check /\ p.done = priv.done
BY DEF IsPriv, Latch

LEMMA SwitchIs ==
  ASSUME NEW p, IsPriv(p)
  PROVE  LET q == SwitchMessage(p)
         IN /\ IsPriv(q) /\ q.status = p.status /\ q.branch = p.branch
            /\ q.check = p.check /\ q.done = p.done /\ q.cur = p.msgv /\ q.ptr = 1
            /\ q.dcnt = msgs[p.msgv].length /\ q.msgc = p.msgc - 1
            /\ q.msgv = IF p.msgc = 1 THEN p.msgv ELSE p.msgv + 1
BY DEF IsPriv, SwitchMessage, Msgv

Err(st) == st \cap ErrorBits # {}

(* The end of a run of the routine *)
Over(p) == p.dcnt = -1 /\ p.msgc = 0

LEMMA HwOff ==
  ASSUME NEW h, IsHw(h)
  PROVE  IsHw([h EXCEPT !.itevt = FALSE, !.itbuf = FALSE])
BY DEF IsHw

LEMMA OverEnd ==
  ASSUME NEW s, IsRun(s), IsPriv(s.p), IsHw(s.h), Over(s.p)
  PROVE  LET r == Shutdown(s)
         IN /\ r.b = s.b /\ IsPriv(r.p) /\ IsHw(r.h)
            /\ r.p = [s.p EXCEPT !.done = TRUE]
            /\ r.h = [s.h EXCEPT !.itevt = FALSE, !.itbuf = FALSE]
<1> DEFINE r == Shutdown(s)
<1>1. r = [s EXCEPT !.h.itevt = FALSE, !.h.itbuf = FALSE, !.p.done = TRUE]
  BY DEF Over, Shutdown
<1>2. /\ r.b = s.b /\ r.p = [s.p EXCEPT !.done = TRUE]
      /\ r.h = [s.h EXCEPT !.itevt = FALSE, !.itbuf = FALSE]
  BY <1>1 DEF IsRun
<1> HIDE DEF r
<1>3. IsPriv(r.p)
  BY <1>2 DEF IsPriv
<1>4. IsHw(r.h)
  BY <1>2, HwOff
<1> QED BY <1>2, <1>3, <1>4 DEF r

LEMMA ErrorEnd ==
  ASSUME NEW s, IsRun(s), IsPriv(s.p), IsHw(s.h)
  PROVE  LET r == Shutdown(CheckErrors(s, TRUE))
         IN /\ r.b = s.b /\ IsPriv(r.p) /\ IsHw(r.h)
            /\ r.p = [s.p EXCEPT !.dcnt = -1, !.msgc = 0, !.done = TRUE]
            /\ r.h = [s.h EXCEPT !.sr1 = @ \ ErrorBits, !.itevt = FALSE, !.itbuf = FALSE]
<1> DEFINE t == CheckErrors(s, TRUE)
<1>1. t = [s EXCEPT !.h.sr1 = @ \ ErrorBits, !.p.dcnt = -1, !.p.msgc = 0]
  BY DEF CheckErrors
<1>2. /\ IsRun(t) /\ t.b = s.b /\ t.p = [s.p EXCEPT !.dcnt = -1, !.msgc = 0]
      /\ t.h = [s.h EXCEPT !.sr1 = @ \ ErrorBits]
  BY <1>1 DEF IsRun
<1> HIDE DEF t
<1>3. IsPriv(t.p) /\ Over(t.p)
  BY <1>2, ZenonT(40) DEF IsPriv, Over
<1>4. IsHw(t.h)
  BY <1>2 DEF IsHw
<1>5. LET r == Shutdown(t)
      IN /\ r.b = s.b /\ IsPriv(r.p) /\ IsHw(r.h)
         /\ r.p = [t.p EXCEPT !.done = TRUE]
         /\ r.h = [t.h EXCEPT !.itevt = FALSE, !.itbuf = FALSE]
  BY <1>2, <1>3, <1>4, OverEnd
<1> QED BY <1>2, <1>5 DEF t

LEMMA NoError == \A s : CheckErrors(s, FALSE) = s
BY DEF CheckErrors

LEMMA NotOverEnd ==
  ASSUME NEW s, ~Over(s.p)
  PROVE  Shutdown(s) = s
BY DEF Over, Shutdown

(* What a run of the routine works on *)
Taken(b) ==
  LET p == Latch(hw.sr1, b)
  IN IF BetweenMessages(priv) THEN SwitchMessage(p) ELSE p

Run(b) == [p |-> Taken(b), h |-> hw, b |-> buf, st |-> hw.sr1]

LEMMA RunIs ==
  ASSUME NEW b, IsPriv(priv), IsHw(hw)
  PROVE  /\ IsRun(Run(b)) /\ IsPriv(Run(b).p) /\ IsHw(Run(b).h)
         /\ Run(b).p = Taken(b) /\ Run(b).h = hw /\ Run(b).b = buf /\ Run(b).st = hw.sr1
         /\ Taken(b).status = hw.sr1 /\ Taken(b).branch = b
         /\ Taken(b).check = priv.check /\ Taken(b).done = priv.done
         /\ ~BetweenMessages(priv) =>
              /\ Taken(b).dcnt = priv.dcnt /\ Taken(b).msgc = priv.msgc
              /\ Taken(b).msgv = priv.msgv /\ Taken(b).cur = priv.cur /\ Taken(b).ptr = priv.ptr
         /\ BetweenMessages(priv) =>
              /\ Taken(b).dcnt = msgs[priv.msgv].length /\ Taken(b).msgc = priv.msgc - 1
              /\ Taken(b).msgv = (IF priv.msgc = 1 THEN priv.msgv ELSE priv.msgv + 1)
              /\ Taken(b).cur = priv.msgv /\ Taken(b).ptr = 1
<1>1. IsPriv(Latch(hw.sr1, b))
  BY LatchIs
<1>2. IsPriv(Taken(b))
  BY <1>1, SwitchIs DEF Taken
<1>3. /\ IsRun(Run(b)) /\ Run(b).p = Taken(b) /\ Run(b).h = hw /\ Run(b).b = buf
      /\ Run(b).st = hw.sr1
  BY DEF IsRun, Run
<1>4. CASE ~BetweenMessages(priv)
  BY <1>2, <1>3, <1>4, LatchIs DEF Taken
<1>5. CASE BetweenMessages(priv)
  BY <1>1, <1>2, <1>3, <1>5, LatchIs, SwitchIs DEF Taken
<1> QED BY <1>4, <1>5

LEMMA BranchRun ==
  ASSUME NEW b, IsrBranch(b)
  PROVE  LET r == Shutdown(CheckErrors(Branch(b, Run(b)), Err(hw.sr1)))
         IN /\ IrqPending /\ (BetweenMessages(priv) => MayBegin(priv, hw.sr1))
            /\ BranchOf(Taken(b), hw.sr1) = b
            /\ priv' = r.p /\ hw' = r.h /\ buf' = r.b
            /\ msgs' = msgs /\ wire' = wire /\ faulted' = faulted
BY DEF IsrBranch, Apply, Run, Taken, Err

-----------------------------------------------------------------------------
(* The bytes 1 to n of a message *)
Got(n) == [k \in 1 .. n |-> <<k>>]

(* What a message can store *)
Room(i) == IF msgs[i].read THEN msgs[i].length ELSE 0

(* The buffers when n bytes of the current message have been stored *)
Stored(n) ==
  \A i \in DOMAIN msgs :
    buf[i] = Got(IF i < priv.cur THEN Room(i) ELSE IF i = priv.cur THEN n ELSE 0)

Prefixed == \A i \in DOMAIN msgs : \E n \in 0 .. Room(i) : buf[i] = Got(n)

Typed ==
  /\ IsPriv(priv) /\ IsHw(hw) /\ ByteTypeOK
  /\ DOMAIN buf = DOMAIN msgs /\ Prefixed

(* The bus is between two bytes and no byte is on its way *)
Quiet ==
  /\ hw.mode \in {"idle", "held", "tx", "rx"}
  /\ hw.mode = "tx" => hw.shift = <<>>
  /\ hw.mode = "rx" => hw.nacked

(* No transfer is under way *)
Rest ==
  /\ priv.done /\ ~priv.check /\ ~hw.itevt /\ ~hw.itbuf /\ ~hw.start /\ Quiet
  /\ hw.sr1 \subseteq {"TXE", "BTF"}
  /\ ~hw.stop => hw.sr1 \subseteq {"TXE"} /\ hw.mode \in {"idle", "held"}
  /\ msgs # <<>> /\ (~faulted \/ priv.branch = "nack") => hw.stop \/ hw.mode = "idle"
  /\ faulted => "AF" \in priv.status
  /\ ~faulted => ~Err(priv.status) /\ priv.branch \notin {"unknown", "state"}
  /\ msgs # <<>> /\ ~faulted => \A i \in DOMAIN msgs : buf[i] = Got(Room(i))

(* A transfer is under way: where the routine is in the list *)
Placed ==
  /\ ~priv.done /\ hw.itevt /\ msgs \in Lists
  /\ priv.cur \in 0 .. Len(msgs) /\ priv.msgc = Len(msgs) - priv.cur
  /\ priv.msgv = IF priv.msgc = 0 THEN priv.cur ELSE priv.cur + 1

Sound ==
  Placed /\ ~faulted /\ ~Err(priv.status) /\ priv.branch \notin {"unknown", "state"}

(* A message is due, with a start condition *)
Due ==
  /\ Sound /\ priv.dcnt = -1 /\ priv.msgc > 0 /\ ~msgs[priv.msgv].nostart
  /\ ~priv.check /\ ~hw.itbuf /\ ~hw.stop
  /\ Stored(Room(priv.cur))

(* The start condition is asked for *)
Starting == Due /\ hw.start /\ hw.sr1 \subseteq {"TXE"} /\ Quiet

Started == Due /\ ~hw.start /\ hw.sr1 = {"SB"} /\ hw.mode = "sb"

(* The address of the current message is in the data register *)
Selecting ==
  /\ Sound /\ priv.cur > 0 /\ priv.dcnt = msgs[priv.cur].length /\ priv.ptr = 1
  /\ priv.check /\ ~hw.start /\ ~hw.stop /\ ~hw.itbuf /\ hw.ack /\ ~hw.pos
  /\ hw.dr[2] = msgs[priv.cur].read
  /\ Stored(0)

Addressing == Selecting /\ hw.mode = "addr" /\ hw.sr1 = {}

Addressed == Selecting /\ hw.mode = "wait" /\ hw.sr1 = {"ADDR"}

(* The current message is written: bytes are left, or the last one is on   *)
(* its way and the bus has to become idle, or the next message continues   *)
Writing ==
  /\ Sound /\ priv.cur > 0 /\ ~msgs[priv.cur].read /\ ~priv.check
  /\ ~hw.start /\ ~hw.stop /\ hw.mode = "tx" /\ hw.sr1 \subseteq {"TXE", "BTF"}
  /\ "TXE" \in hw.sr1 <=> hw.dr = <<>>
  /\ "BTF" \in hw.sr1 <=> hw.shift = <<>>
  /\ hw.shift = <<>> => hw.dr = <<>>
  /\ Stored(0)
  /\ \/ priv.dcnt > 0 /\ hw.itbuf
     \/ priv.dcnt = 0 /\ ~NextContinues(priv) /\ ~hw.itbuf
     \/ priv.dcnt = -1 /\ NextContinues(priv) /\ hw.itbuf
  /\ priv.ptr = msgs[priv.cur].length + 1 - (IF priv.dcnt = -1 THEN 0 ELSE priv.dcnt)
  /\ priv.ptr > 0

(* Received and not yet stored *)
Unread == (IF "RXNE" \in hw.sr1 THEN 1 ELSE 0) + (IF hw.shift # <<>> THEN 1 ELSE 0)

(* A single byte is read: the stop condition is asked for beforehand *)
Single ==
  /\ msgs[priv.cur].length = 1 /\ priv.dcnt = 1 /\ priv.msgc = 0
  /\ hw.itbuf /\ ~hw.ack /\ ~hw.pos /\ hw.shift = <<>>
  /\ \/ hw.mode = "rx" /\ hw.stop
     \/ hw.mode = "idle" /\ ~hw.stop /\ "RXNE" \in hw.sr1

(* Several are: the last two, or three, wait for each other *)
Several ==
  /\ msgs[priv.cur].length > 1 /\ priv.dcnt \in 2 .. msgs[priv.cur].length
  /\ hw.mode = "rx" /\ ~hw.stop
  /\ hw.itbuf <=> priv.dcnt > 3
  /\ hw.ack <=> priv.dcnt > 2
  /\ hw.pos <=> msgs[priv.cur].length = 2
  /\ priv.dcnt = 2 /\ msgs[priv.cur].length > 2 => "RXNE" \in hw.sr1

Reading ==
  /\ Sound /\ priv.cur > 0 /\ msgs[priv.cur].read /\ ~priv.check /\ ~hw.start
  /\ hw.sr1 \subseteq {"RXNE", "BTF"}
  /\ "BTF" \in hw.sr1 <=> hw.shift # <<>>
  /\ hw.shift # <<>> => "RXNE" \in hw.sr1 /\ hw.shift = <<hw.k>>
  /\ "RXNE" \in hw.sr1 => hw.dr = <<hw.k - Unread + 1>>
  /\ priv.ptr + priv.dcnt = msgs[priv.cur].length + 1
  /\ hw.k = msgs[priv.cur].length - priv.dcnt + Unread
  /\ hw.nacked <=> hw.k = msgs[priv.cur].length
  /\ Stored(msgs[priv.cur].length - priv.dcnt)
  /\ Single \/ Several

(* The slave has refused the address or a byte *)
Refused ==
  /\ Placed /\ faulted /\ priv.cur > 0
  /\ hw.mode = "held" /\ "AF" \in hw.sr1 /\ hw.sr1 \subseteq {"AF", "TXE"}
  /\ ~hw.start /\ ~hw.stop
  /\ \/ priv.check /\ priv.dcnt > 0
     \/ /\ ~priv.check /\ ~msgs[priv.cur].read /\ priv.dcnt >= -1
        /\ priv.dcnt = -1 => NextContinues(priv)

BytesInv ==
  /\ Typed
  /\ \/ Rest \/ Starting \/ Started \/ Addressing \/ Addressed \/ Writing \/ Reading
     \/ Refused

-----------------------------------------------------------------------------
LEMMA GotIs ==
  /\ Got(0) = <<>>
  /\ \A n \in Nat : Got(n) \in Seq(Seq(Nat)) /\ Len(Got(n)) = n
  /\ \A n \in Nat : Append(Got(n), <<n + 1>>) = Got(n + 1)
<1>1. Got(0) = <<>>
  BY DEF Got
<1>2. ASSUME NEW n \in Nat PROVE Got(n) \in Seq(Seq(Nat)) /\ Len(Got(n)) = n
  BY DEF Got
<1>3. ASSUME NEW n \in Nat PROVE Append(Got(n), <<n + 1>>) = Got(n + 1)
  BY DEF Got
<1> QED BY <1>1, <1>2, <1>3

LEMMA ListFacts ==
  ASSUME NEW l \in Lists
  PROVE  /\ l \in Seq(Message) /\ Len(l) \in Nat \ {0} /\ DOMAIN l = 1 .. Len(l)
         /\ l # <<>> /\ ~l[1].nostart
         /\ \A i \in 1 .. Len(l) : /\ l[i] \in Message /\ l[i].length \in Nat \ {0}
                                   /\ l[i].read \in BOOLEAN
         /\ \A i \in 1 .. Len(l) - 1 :
              /\ l[i].read => l[i].length > 1
              /\ l[i + 1].nostart => ~l[i].read /\ ~l[i + 1].read
<1>1. l \in Seq(Message) /\ l # <<>> /\ Handled(l)
  BY ListsAssumption
<1>2. Len(l) \in Nat \ {0} /\ DOMAIN l = 1 .. Len(l)
  BY <1>1
<1>3. \A i \in 1 .. Len(l) : /\ l[i] \in Message /\ l[i].length \in Nat /\ l[i].length > 0
                             /\ l[i].read \in BOOLEAN
  <2>1. \A i \in 1 .. Len(l) : l[i] \in Message
    BY <1>1
  <2> QED BY <1>1, <1>2, <2>1 DEF Message, Handled
<1> QED BY <1>1, <1>2, <1>3 DEF Handled

LEMMA BytesInit == ByteInit => BytesInv
<1> SUFFICES ASSUME ByteInit PROVE BytesInv
  OBVIOUS
<1>1. IsPriv(priv)
  BY DEF ByteInit, IsPriv
<1>2. IsHw(hw)
  BY DEF ByteInit, InitHw, NONE, IsHw
<1>3. ByteTypeOK
  <2>1. /\ priv.dcnt = 0 /\ priv.msgc = 0 /\ priv.msgv = 0 /\ priv.cur = 0 /\ priv.ptr = 0
        /\ priv.check = FALSE /\ priv.done = TRUE /\ faulted = FALSE /\ priv.status = {}
        /\ priv.branch = "none" /\ msgs = <<>>
    BY DEF ByteInit
  <2>2. hw.mode = "idle" /\ hw.sr1 = {}
    BY DEF ByteInit, InitHw
  <2>3. /\ msgs \in Lists \union {<<>>} /\ Len(msgs) = 0
    BY <2>1
  <2>4. /\ priv.dcnt \in Nat \union {-1} /\ priv.msgc \in 0 .. Len(msgs)
        /\ priv.msgv \in 0 .. Len(msgs) /\ priv.cur \in 0 .. Len(msgs) /\ priv.ptr \in Nat
    BY <2>1, <2>3
  <2>5. /\ {priv.check, priv.done, faulted} \subseteq BOOLEAN
    BY <2>1
  <2>6. priv.branch \in Branches \union {"none", "state"}
    BY <2>1
  <2> QED BY <2>1, <2>2, <2>3, <2>4, <2>5, <2>6 DEF ByteTypeOK
<1>4. DOMAIN buf = DOMAIN msgs /\ DOMAIN msgs = {}
  BY DEF ByteInit
<1>5. Rest
  BY DEF ByteInit, InitHw, NONE, Rest, Quiet, Err
<1> QED BY <1>1, <1>2, <1>3, <1>4, <1>5 DEF BytesInv, Typed, Prefixed

(* What distinguishes the phases *)
LEMMA Phases ==
  ASSUME BytesInv
  PROVE  /\ priv.done => Rest
         /\ hw.start => Starting
         /\ hw.mode = "addr" => Addressing
         /\ hw.mode = "tx" /\ hw.shift # <<>> => Writing
         /\ hw.mode = "rx" /\ ~hw.nacked => Reading
         /\ hw.stop => Rest \/ Reading
         /\ IrqPending => Started \/ Addressed \/ Writing \/ Reading \/ Refused
<1>1. hw.start => Starting
  BY DEF BytesInv, Rest, Due, Started, Selecting, Addressing, Addressed, Writing, Reading, Refused
<1>2. priv.done => Rest
  BY DEF BytesInv, Starting, Due, Started, Selecting, Addressing, Addressed, Writing, Reading,
         Refused, Sound, Placed
<1>3. hw.mode = "addr" => Addressing
  BY DEF BytesInv, Rest, Quiet, Starting, Started, Addressed, Writing, Reading, Single, Several,
         Refused
<1>4. hw.mode = "tx" /\ hw.shift # <<>> => Writing
  BY DEF BytesInv, Rest, Quiet, Starting, Started, Addressing, Addressed, Reading, Single, Several,
         Refused
<1>5. hw.mode = "rx" /\ ~hw.nacked => Reading
  BY DEF BytesInv, Rest, Quiet, Starting, Started, Addressing, Addressed, Writing, Refused
<1>6. hw.stop => Rest \/ Reading
  BY DEF BytesInv, Starting, Due, Started, Selecting, Addressing, Addressed, Writing, Refused
<1>7. IrqPending => Started \/ Addressed \/ Writing \/ Reading \/ Refused
  <2>1. Rest => ~IrqPending
    BY DEF Rest, IrqPending
  <2>2. Starting => ~IrqPending
    BY DEF Starting, Due, IrqPending, ErrorBits
  <2>3. Addressing => ~IrqPending
    BY DEF Addressing, IrqPending
  <2> QED BY <2>1, <2>2, <2>3 DEF BytesInv
<1> QED BY <1>1, <1>2, <1>3, <1>4, <1>5, <1>6, <1>7

LEMMA BytesSetup ==
  ASSUME BytesInv, SetupBytes
  PROVE  BytesInv' /\ Starting' /\ priv'.cur = 0 /\ wire' = <<>>
<1>1. Rest /\ ~hw.stop /\ Typed
  BY Phases DEF SetupBytes, BytesInv
<1>2. msgs' \in Lists /\ msgs' \in Seq(Message) /\ Len(msgs') \in Nat \ {0}
      /\ DOMAIN msgs' = 1 .. Len(msgs') /\ msgs' # <<>> /\ ~msgs'[1].nostart
      /\ \A i \in 1 .. Len(msgs') : msgs'[i].length \in Nat \ {0}
  BY ListFacts DEF SetupBytes
<1>3. /\ IsPriv(priv') /\ priv'.dcnt = -1 /\ priv'.ptr = 0 /\ priv'.msgv = 1
      /\ priv'.msgc = Len(msgs') /\ priv'.status = {} /\ priv'.cur = 0 /\ priv'.done = FALSE
      /\ priv'.branch = "none" /\ priv'.check = priv.check
  <2>1. priv' = [priv EXCEPT !.dcnt = -1, !.ptr = 0, !.msgv = 1, !.msgc = Len(msgs'),
                             !.status = {}, !.cur = 0, !.done = FALSE, !.branch = "none"]
    BY DEF SetupBytes
  <2>2. IsPriv(priv)
    BY <1>1 DEF Typed
  <2> QED BY <2>1, <2>2 DEF IsPriv
<1>4. /\ IsHw(hw') /\ hw'.mode = hw.mode /\ hw'.sr1 = hw.sr1 \ ErrorBits /\ hw'.shift = hw.shift
      /\ hw'.start = TRUE /\ hw'.stop = FALSE /\ hw'.itevt = TRUE /\ hw'.itbuf = hw.itbuf
      /\ hw'.nacked = hw.nacked
  <2>1. IsHw(hw)
    BY <1>1 DEF Typed
  <2>2. LET h == stm32_i2c_sendstart(stm32_i2c_clrstart(hw))
        IN /\ IsHw(h) /\ h.mode = hw.mode /\ h.sr1 = hw.sr1 /\ h.shift = hw.shift
           /\ h.start = TRUE /\ h.stop = FALSE /\ h.itbuf = hw.itbuf /\ h.nacked = hw.nacked
    BY <2>1 DEF IsHw, stm32_i2c_sendstart, stm32_i2c_clrstart
  <2>3. hw' = [stm32_i2c_sendstart(stm32_i2c_clrstart(hw)) EXCEPT
                 !.sr1 = @ \ ErrorBits, !.itevt = TRUE]
    BY DEF SetupBytes
  <2> QED BY <2>2, <2>3 DEF IsHw
<1>5. buf' = [i \in 1 .. Len(msgs') |-> <<>>] /\ faulted' = FALSE /\ wire' = <<>>
  BY DEF SetupBytes
<1>6. Stored(Room(priv.cur))' /\ Prefixed' /\ DOMAIN buf' = DOMAIN msgs'
  <2>1. \A i \in DOMAIN msgs' : buf'[i] = Got(0) /\ i > 0
    BY <1>2, <1>5, GotIs
  <2>2. Stored(Room(priv.cur))'
    BY <1>2, <1>3, <2>1 DEF Stored
  <2>3. Prefixed'
    BY <1>2, <2>1 DEF Prefixed, Room
  <2> QED BY <1>2, <1>5, <2>2, <2>3
<1>7. ByteTypeOK'
  <2>1. /\ priv'.dcnt \in Nat \union {-1} /\ priv'.msgc \in 0 .. Len(msgs')
        /\ priv'.msgv \in 0 .. Len(msgs') /\ priv'.cur \in 0 .. Len(msgs') /\ priv'.ptr \in Nat
        /\ priv'.msgv \in DOMAIN msgs' /\ ~(priv'.dcnt >= 0)
    BY <1>2, <1>3
  <2>2. {priv'.check, priv'.done, faulted'} \subseteq BOOLEAN
    BY <1>1, <1>3, <1>5 DEF Typed, ByteTypeOK
  <2>3. /\ hw'.mode \in {"idle", "sb", "addr", "wait", "tx", "rx", "held"}
        /\ hw'.sr1 \subseteq {"SB", "ADDR", "TXE", "BTF", "RXNE"} \union ErrorBits
    BY <1>1, <1>4 DEF Typed, ByteTypeOK
  <2>4. priv'.branch \in Branches \union {"none", "state"}
    BY <1>3
  <2> QED BY <1>2, <1>3, <2>1, <2>2, <2>3, <2>4 DEF ByteTypeOK
<1>8. Starting'
  <2>1. Sound'
    BY <1>2, <1>3, <1>4, <1>5 DEF Sound, Placed, Err
  <2>2. Due'
    BY <1>1, <1>2, <1>3, <1>4, <1>6, <2>1 DEF Due, Rest
  <2>3. Quiet'
    BY <1>1, <1>4 DEF Rest, Quiet
  <2> QED BY <1>1, <1>4, <2>2, <2>3 DEF Starting, Rest
<1> QED BY <1>3, <1>4, <1>5, <1>6, <1>7, <1>8 DEF BytesInv, Typed

-----------------------------------------------------------------------------
(* The steps of the controller and the slave *)
Bits == {"SB", "ADDR", "TXE", "BTF", "RXNE"} \union ErrorBits

Modes == {"idle", "sb", "addr", "wait", "tx", "rx", "held"}

HwStep ==
  /\ priv' = priv /\ msgs' = msgs /\ buf' = buf
  /\ IsHw(hw') /\ hw'.mode \in Modes /\ hw'.sr1 \subseteq Bits

LEMMA HwTyped ==
  ASSUME Typed, HwStep, faulted' \in BOOLEAN
  PROVE  Typed'
<1>1. ByteTypeOK'
  <2>1. {priv'.check, priv'.done, faulted'} \subseteq BOOLEAN
    BY DEF Typed, ByteTypeOK, HwStep
  <2> QED BY <2>1 DEF Typed, ByteTypeOK, HwStep, Bits, Modes, Current
<1>2. Prefixed'
  BY DEF Typed, HwStep, Prefixed, Room
<1> QED BY <1>1, <1>2 DEF Typed, HwStep

LEMMA HwSound ==
  ASSUME HwStep, faulted' = faulted, hw'.itevt = hw.itevt
  PROVE  /\ Sound => Sound'
         /\ \A n : Stored(n) => Stored(n)'
         /\ Stored(Room(priv.cur)) => Stored(Room(priv.cur))'
BY DEF HwStep, Sound, Placed, Stored, Room

LEMMA StartStep ==
  ASSUME BytesInv, StartCondition
  PROVE  /\ BytesInv' /\ msgs' = msgs /\ priv' = priv /\ faulted' = faulted
         /\ Starting /\ Started' /\ wire' = wire \o <<START>>
<1>1. Starting /\ Typed
  BY Phases DEF StartCondition, BytesInv
<1>2. /\ IsHw(hw') /\ hw'.mode = "sb" /\ hw'.sr1 = (hw.sr1 \ {"TXE", "BTF"}) \union {"SB"}
      /\ hw'.start = FALSE /\ hw'.stop = hw.stop /\ hw'.itevt = hw.itevt /\ hw'.itbuf = hw.itbuf
  BY <1>1 DEF StartCondition, Hardware, Typed, IsHw
<1>3. hw'.sr1 = {"SB"}
  BY <1>1, <1>2 DEF Starting
<1>4. HwStep /\ faulted' = faulted /\ faulted \in BOOLEAN
  BY <1>1, <1>2, <1>3 DEF HwStep, StartCondition, Hardware, Typed, ByteTypeOK, Bits, Modes
<1>5. Due'
  BY <1>1, <1>2, <1>4, HwSound DEF Starting, Due, HwStep
<1>6. wire' = wire \o <<START>>
  BY DEF StartCondition, Hardware
<1> QED BY <1>1, <1>2, <1>3, <1>4, <1>5, <1>6, HwTyped DEF BytesInv, Started, HwStep

LEMMA StopStep ==
  ASSUME BytesInv, StopCondition
  PROVE  /\ BytesInv' /\ msgs' = msgs /\ priv' = priv /\ faulted' = faulted
         /\ hw.stop /\ wire' = wire \o <<STOP>> /\ ~hw'.stop /\ hw'.mode = "idle"
         /\ \/ priv.done
            \/ Reading /\ ~hw'.start /\ hw.mode = "rx" /\ hw.k = 1 /\ msgs[priv.cur].length = 1
<1>1. (Rest \/ Reading) /\ Typed /\ hw.stop
  BY Phases DEF StopCondition, BytesInv
<1>2. /\ IsHw(hw') /\ hw'.mode = "idle" /\ hw'.sr1 = hw.sr1 \ {"TXE", "BTF"}
      /\ hw'.start = hw.start /\ hw'.stop = FALSE /\ hw'.itevt = hw.itevt /\ hw'.itbuf = hw.itbuf
      /\ hw'.dr = hw.dr /\ hw'.shift = hw.shift /\ hw'.k = hw.k /\ hw'.nacked = hw.nacked
      /\ hw'.ack = hw.ack /\ hw'.pos = hw.pos
  BY <1>1 DEF StopCondition, Hardware, Typed, IsHw
<1>3. HwStep /\ faulted' = faulted /\ faulted \in BOOLEAN
  BY <1>1, <1>2 DEF HwStep, StopCondition, Hardware, Typed, ByteTypeOK, Bits, Modes
<1>4. Typed'
  BY <1>1, <1>3, HwTyped
<1>7. wire' = wire \o <<STOP>> /\ msgs' = msgs /\ priv' = priv
  BY DEF StopCondition, Hardware
<1>5. CASE Rest
  <2>1. Rest'
    BY <1>2, <1>3, <1>5 DEF Rest, Quiet, HwStep, Room
  <2> QED BY <1>1, <1>2, <1>3, <1>4, <1>7, <1>5, <2>1 DEF BytesInv, Rest
<1>6. CASE Reading
  <2>1. Single /\ hw.mode = "rx"
    BY <1>1, <1>6 DEF Reading, Single, Several
  <2>2. "RXNE" \in hw.sr1
    BY <1>6, <2>1 DEF StopCondition, BetweenBytes, NONE, Reading, Single, Unread
  <2>3. hw'.sr1 = {"RXNE"} /\ hw.sr1 = {"RXNE"}
    BY <1>2, <1>6, <2>1, <2>2 DEF Reading, Single
  <2>4. Sound' /\ Stored(msgs[priv.cur].length - priv.dcnt)'
    BY <1>2, <1>3, <1>6, HwSound DEF Reading, HwStep
  <2>5. Single'
    BY <1>2, <1>3, <2>1, <2>3 DEF Single, HwStep
  <2>6. Unread' = Unread
    BY <1>2, <2>3 DEF Unread
  <2>7. Reading'
    BY <1>2, <1>3, <1>6, <2>1, <2>3, <2>4, <2>5, <2>6 DEF Reading, HwStep, Single
  <2>8. msgs[priv.cur].length = 1 /\ hw.k = 1
    BY <1>6, <2>1, <2>3 DEF Reading, Single, Unread
  <2> QED BY <1>1, <1>2, <1>3, <1>4, <1>6, <1>7, <2>1, <2>7, <2>8 DEF BytesInv, Reading
<1> QED BY <1>1, <1>5, <1>6

LEMMA AckStep ==
  ASSUME BytesInv, AddressAck
  PROVE  /\ BytesInv' /\ msgs' = msgs /\ priv' = priv /\ faulted' = faulted
         /\ Addressing /\ Addressed' /\ wire' = wire \o <<ADDRESS(hw.dr[1], hw.dr[2])>>
<1>1. Addressing /\ Typed
  BY Phases DEF AddressAck, BytesInv
<1>2. /\ IsHw(hw') /\ hw'.mode = "wait" /\ hw'.sr1 = hw.sr1 \union {"ADDR"}
      /\ hw'.start = hw.start /\ hw'.stop = hw.stop /\ hw'.itevt = hw.itevt
      /\ hw'.itbuf = hw.itbuf /\ hw'.dr = hw.dr /\ hw'.ack = hw.ack /\ hw'.pos = hw.pos
  BY <1>1 DEF AddressAck, Hardware, Typed, IsHw
<1>3. hw'.sr1 = {"ADDR"}
  BY <1>1, <1>2 DEF Addressing
<1>4. HwStep /\ faulted' = faulted /\ faulted \in BOOLEAN
  BY <1>1, <1>2, <1>3 DEF HwStep, AddressAck, Hardware, Typed, ByteTypeOK, Bits, Modes
<1>5. Selecting'
  BY <1>1, <1>2, <1>4, HwSound DEF Addressing, Selecting, HwStep
<1>6. wire' = wire \o <<ADDRESS(hw.dr[1], hw.dr[2])>>
  BY DEF AddressAck, Hardware
<1> QED BY <1>1, <1>2, <1>3, <1>4, <1>5, <1>6, HwTyped DEF BytesInv, Addressed, HwStep

LEMMA SendStep ==
  ASSUME BytesInv, SendByte
  PROVE  /\ BytesInv' /\ msgs' = msgs /\ priv' = priv /\ faulted' = faulted
         /\ Writing /\ Writing' /\ hw.shift # <<>> /\ wire' = wire \o <<WRITTEN(hw.shift)>>
         /\ hw'.shift = hw.dr /\ hw'.dr = <<>>
<1>1. Writing /\ Typed /\ hw.shift # <<>>
  BY Phases DEF SendByte, BytesInv, NONE
<1>2. /\ IsHw(hw') /\ hw'.mode = "tx" /\ hw'.start = hw.start /\ hw'.stop = hw.stop
      /\ hw'.itevt = hw.itevt /\ hw'.itbuf = hw.itbuf /\ hw'.dr = <<>>
      /\ hw.dr # <<>> => hw'.shift = hw.dr /\ hw'.sr1 = hw.sr1 \union {"TXE"}
      /\ hw.dr = <<>> => hw'.shift = <<>> /\ hw'.sr1 = hw.sr1 \union {"BTF"}
  BY <1>1 DEF SendByte, Hardware, Typed, IsHw, NONE
<1>3. HwStep /\ faulted' = faulted /\ faulted \in BOOLEAN
  BY <1>1, <1>2 DEF HwStep, SendByte, Hardware, Typed, ByteTypeOK, Bits, Modes
<1>4. Sound' /\ Stored(0)'
  BY <1>1, <1>2, <1>3, HwSound DEF Writing
<1>5. Writing'
  BY <1>1, <1>2, <1>3, <1>4 DEF Writing, HwStep, NextContinues, Msgv
<1>6. wire' = wire \o <<WRITTEN(hw.shift)>>
  BY DEF SendByte, Hardware
<1> QED BY <1>1, <1>2, <1>3, <1>5, <1>6, HwTyped DEF BytesInv, HwStep

LEMMA ReceiveStep ==
  ASSUME BytesInv, ReceiveByte
  PROVE  /\ BytesInv' /\ msgs' = msgs /\ priv' = priv /\ faulted' = faulted
         /\ Reading /\ Reading' /\ hw.mode = "rx" /\ hw'.mode = "rx"
         /\ hw.k \in 0 .. msgs[priv.cur].length /\ hw.k < msgs[priv.cur].length
         /\ hw'.k = hw.k + 1
         /\ wire' = wire \o <<RECEIVED(hw.k + 1, hw.k + 1 < msgs[priv.cur].length)>>
<1> DEFINE k == hw.k + 1
           ack == hw.ack \/ (hw.pos /\ k = 1)
           n == msgs[priv.cur].length
<1>1. Reading /\ Typed /\ hw.shift = <<>> /\ hw.mode = "rx" /\ ~hw.nacked
  BY Phases DEF ReceiveByte, BytesInv, NONE
<1>2. /\ IsHw(hw') /\ hw'.mode = "rx" /\ hw'.start = hw.start /\ hw'.stop = hw.stop
      /\ hw'.itevt = hw.itevt /\ hw'.itbuf = hw.itbuf /\ hw'.ack = hw.ack /\ hw'.pos = hw.pos
      /\ hw'.k = k /\ hw'.nacked = ~ack
      /\ "RXNE" \in hw.sr1 => /\ hw'.shift = <<k>> /\ hw'.sr1 = hw.sr1 \union {"BTF"}
                              /\ hw'.dr = hw.dr
      /\ "RXNE" \notin hw.sr1 => /\ hw'.dr = <<k>> /\ hw'.sr1 = hw.sr1 \union {"RXNE"}
                                 /\ hw'.shift = hw.shift
  <2>1. IsHw(hw)
    BY <1>1 DEF Typed
  <2>2. LET h == [hw EXCEPT !.k = k, !.nacked = ~ack]
        IN /\ IsHw(h) /\ h.mode = hw.mode /\ h.start = hw.start /\ h.stop = hw.stop
           /\ h.itevt = hw.itevt /\ h.itbuf = hw.itbuf /\ h.ack = hw.ack /\ h.pos = hw.pos
           /\ h.k = k /\ h.nacked = ~ack /\ h.sr1 = hw.sr1 /\ h.dr = hw.dr /\ h.shift = hw.shift
    BY <2>1 DEF IsHw
  <2>3. LET h == [hw EXCEPT !.k = k, !.nacked = ~ack]
        IN hw' = IF "RXNE" \in hw.sr1
                   THEN [h EXCEPT !.shift = <<k>>, !.sr1 = @ \union {"BTF"}]
                   ELSE [h EXCEPT !.dr = <<k>>, !.sr1 = @ \union {"RXNE"}]
    BY DEF ReceiveByte, Hardware
  <2> QED BY <1>1, <2>2, <2>3 DEF IsHw
<1>3. HwStep /\ faulted' = faulted /\ faulted \in BOOLEAN
  BY <1>1, <1>2 DEF HwStep, ReceiveByte, Hardware, Typed, ByteTypeOK, Bits, Modes
<1>4. Sound' /\ Stored(n - priv.dcnt)'
  BY <1>1, <1>2, <1>3, HwSound DEF Reading, HwStep
<1>5. /\ n \in Nat /\ n > 0 /\ priv.dcnt \in Nat /\ priv.dcnt > 0 /\ hw.k \in Int
      /\ Unread \in {0, 1} /\ hw.k = n - priv.dcnt + Unread /\ hw.k # n
  <2>1. n \in Nat /\ n > 0
    BY <1>1, ListFacts DEF Reading, Sound, Placed
  <2>2. Unread \in {0, 1} /\ hw.k = n - priv.dcnt + Unread /\ hw.k # n
    BY <1>1 DEF Reading, Unread
  <2>3. priv.dcnt \in Nat /\ priv.dcnt > 0
    BY <1>1, <2>1 DEF Reading, Single, Several
  <2> QED BY <2>1, <2>2, <2>3
<1>6. Unread' = Unread + 1 /\ (Unread = 1 <=> "RXNE" \in hw.sr1)
  <2>1. <<k>> # <<>>
    OBVIOUS
  <2>2. CASE "RXNE" \in hw.sr1
    <3>1. hw'.shift # <<>> /\ "RXNE" \in hw'.sr1
      BY <1>2, <2>1, <2>2
    <3> QED BY <1>1, <2>2, <3>1 DEF Unread
  <2>3. CASE "RXNE" \notin hw.sr1
    BY <1>1, <1>2, <2>3 DEF Unread
  <2> QED BY <2>2, <2>3
<1>7. (~ack <=> k = n) /\ (Single' \/ Several')
  <2>1. CASE Single
    <3>1. Unread = 0
      BY <1>5, <2>1 DEF Single
    <3>2. Single'
      BY <1>1, <1>2, <1>3, <1>6, <2>1, <3>1 DEF Single, HwStep
    <3> QED BY <1>5, <2>1, <3>1, <3>2 DEF Single
  <2>2. CASE Several
    <3>1. Several'
      BY <1>1, <1>2, <1>3, <2>2 DEF Several, HwStep
    <3>2. ~ack <=> k = n
      BY <1>5, <1>6, <2>2 DEF Several
    <3> QED BY <3>1, <3>2
  <2> QED BY <1>1, <2>1, <2>2 DEF Reading
<1>8. Reading'
  <2>1. /\ hw'.sr1 \subseteq {"RXNE", "BTF"} /\ "RXNE" \in hw'.sr1
        /\ "BTF" \in hw'.sr1 <=> hw'.shift # <<>>
        /\ hw'.shift # <<>> => hw'.shift = <<k>>
    <3>1. <<k>> # <<>>
      OBVIOUS
    <3> QED BY <1>1, <1>2, <3>1 DEF Reading
  <2>2. hw'.dr = <<k - Unread' + 1>>
    <3>1. CASE "RXNE" \in hw.sr1
      <4>1. hw.k - Unread + 1 = k - Unread' + 1
        BY <1>5, <1>6
      <4> QED BY <1>1, <1>2, <3>1, <4>1 DEF Reading
    <3>2. CASE "RXNE" \notin hw.sr1
      <4>1. k = k - Unread' + 1
        BY <1>5, <1>6, <3>2, SMTT(30)
      <4> QED BY <1>2, <3>2, <4>1
    <3> QED BY <3>1, <3>2
  <2>3. k = n - priv.dcnt + Unread'
    BY <1>5, <1>6
  <2> QED BY <1>1, <1>2, <1>3, <1>4, <1>7, <2>1, <2>2, <2>3 DEF Reading, HwStep
<1>9. hw.k \in 0 .. n /\ hw.k < n
  <2>1. priv.dcnt <= n
    BY <1>1, <1>5 DEF Reading, Single, Several
  <2> HIDE DEF n
  <2> QED BY <1>5, <2>1
<1>10. wire' = wire \o <<RECEIVED(hw.k + 1, hw.k + 1 < n)>>
  <2>1. wire' = wire \o <<RECEIVED(k, ack)>>
    BY DEF ReceiveByte, Hardware
  <2>2. ack <=> k < n
    <3> HIDE DEF n, ack
    <3> QED BY <1>5, <1>7, <1>9
  <2>3. ack = (k < n)
    <3>1. ack \in BOOLEAN
      BY <1>1 DEF Typed, IsHw
    <3> HIDE DEF ack, n, k
    <3> QED BY <2>2, <3>1
  <2> HIDE DEF ack, n
  <2> QED BY <2>1, <2>3
<1> QED BY <1>1, <1>2, <1>3, <1>8, <1>9, <1>10, HwTyped DEF BytesInv, HwStep

LEMMA RefuseStep ==
  ASSUME BytesInv, Refuse
  PROVE  BytesInv'
<1>1. (Addressing \/ Writing) /\ Typed
  BY Phases DEF Refuse, BytesInv, NONE
<1>2. /\ IsHw(hw') /\ hw'.mode = "held" /\ hw'.sr1 = hw.sr1 \union {"AF"}
      /\ hw'.start = hw.start /\ hw'.stop = hw.stop /\ hw'.itevt = hw.itevt
  BY <1>1 DEF Refuse, Hardware, Typed, IsHw
<1>3. HwStep /\ faulted' = TRUE
  BY <1>1, <1>2 DEF HwStep, Refuse, Hardware, Typed, ByteTypeOK, Bits, Modes, ErrorBits
<1>4. hw'.sr1 \subseteq {"AF", "TXE"}
  BY <1>1, <1>2 DEF Refuse, NONE, Addressing, Writing
<1>5. Placed' /\ priv.cur > 0 /\ ~hw.start /\ ~hw.stop
  BY <1>1, <1>2, <1>3 DEF Addressing, Selecting, Writing, Sound, Placed, HwStep
<1>6. \/ priv.check /\ priv.dcnt > 0
      \/ /\ ~priv.check /\ ~msgs[priv.cur].read /\ priv.dcnt >= -1
         /\ priv.dcnt = -1 => NextContinues(priv)
  <2>1. CASE Addressing
    BY <2>1, ListFacts DEF Addressing, Selecting, Sound, Placed
  <2>2. CASE Writing
    BY <1>1, <2>2 DEF Writing, Typed, ByteTypeOK
  <2> QED BY <1>1, <2>1, <2>2
<1>7. Refused'
  BY <1>2, <1>3, <1>4, <1>5, <1>6 DEF Refused, HwStep, NextContinues, Msgv
<1> QED BY <1>1, <1>3, <1>7, HwTyped DEF BytesInv

-----------------------------------------------------------------------------
(* The branches of the routine *)
IsState(s) == IsRun(s) /\ IsPriv(s.p) /\ IsHw(s.h)

(* Two private states differ in ptr, dcnt and check at most *)
SamePlace(p, q) ==
  /\ q.msgc = p.msgc /\ q.msgv = p.msgv /\ q.cur = p.cur /\ q.status = p.status
  /\ q.done = p.done /\ q.branch = p.branch

(* Two states of the controller differ in sr1, dr and shift at most *)
SameControl(h, g) ==
  /\ g.mode = h.mode /\ g.ack = h.ack /\ g.pos = h.pos /\ g.start = h.start /\ g.stop = h.stop
  /\ g.itevt = h.itevt /\ g.itbuf = h.itbuf /\ g.k = h.k /\ g.nacked = h.nacked

LEMMA SendStopIs ==
  ASSUME NEW h, IsHw(h)
  PROVE  LET g == stm32_i2c_sendstop(h)
         IN /\ IsHw(g) /\ g.ack = FALSE /\ g.stop = TRUE /\ g.mode = h.mode /\ g.sr1 = h.sr1
            /\ g.dr = h.dr /\ g.shift = h.shift /\ g.pos = h.pos /\ g.start = h.start
            /\ g.itevt = h.itevt /\ g.itbuf = h.itbuf /\ g.k = h.k /\ g.nacked = h.nacked
BY DEF IsHw, stm32_i2c_sendstop

LEMMA SendStartIs ==
  ASSUME NEW h, IsHw(h)
  PROVE  LET g == stm32_i2c_sendstart(h)
         IN /\ IsHw(g) /\ g.ack = FALSE /\ g.start = TRUE /\ g.mode = h.mode /\ g.sr1 = h.sr1
            /\ g.dr = h.dr /\ g.shift = h.shift /\ g.pos = h.pos /\ g.stop = h.stop
            /\ g.itevt = h.itevt /\ g.itbuf = h.itbuf /\ g.k = h.k /\ g.nacked = h.nacked
BY DEF IsHw, stm32_i2c_sendstart

LEMMA NackedIs ==
  ASSUME NEW s, IsState(s)
  PROVE  LET r == AddressNacked(s)
         IN /\ IsState(r) /\ r.b = s.b
            /\ r.p.msgv = s.p.msgv /\ r.p.cur = s.p.cur /\ r.p.status = s.p.status
            /\ r.p.branch = s.p.branch /\ r.p.ptr = s.p.ptr /\ r.p.check = FALSE
            /\ r.h.mode = s.h.mode /\ r.h.sr1 = s.h.sr1 /\ r.h.start = s.h.start
            /\ r.h.stop = TRUE
<1> DEFINE r == AddressNacked(s)
<1>1. /\ IsRun(r) /\ r.b = s.b /\ r.p = [s.p EXCEPT !.dcnt = -1, !.msgc = 0, !.check = FALSE]
      /\ r.h = stm32_i2c_sendstop(s.h)
  BY DEF IsState, IsRun, AddressNacked
<1> HIDE DEF r
<1>2. /\ IsPriv(r.p) /\ r.p.msgv = s.p.msgv /\ r.p.cur = s.p.cur /\ r.p.status = s.p.status
      /\ r.p.branch = s.p.branch /\ r.p.ptr = s.p.ptr /\ r.p.check = FALSE
  BY <1>1 DEF IsState, IsPriv
<1>3. /\ IsHw(r.h) /\ r.h.mode = s.h.mode /\ r.h.sr1 = s.h.sr1 /\ r.h.start = s.h.start
      /\ r.h.stop = TRUE
  <2>1. IsHw(s.h) /\ r.h = stm32_i2c_sendstop(s.h)
    BY <1>1 DEF IsState
  <2> QED BY <2>1, SendStopIs, ZenonT(40)
<1> QED BY <1>1, <1>2, <1>3 DEF r, IsState

LEMMA UnknownIs ==
  ASSUME NEW s, IsState(s), "ADDR" \notin s.h.sr1
  PROVE  LET r == UnknownState(s)
         IN /\ IsState(r) /\ r.b = s.b /\ r.h = s.h
            /\ r.p.msgv = s.p.msgv /\ r.p.cur = s.p.cur /\ r.p.status = s.p.status
            /\ r.p.branch = s.p.branch /\ r.p.ptr = s.p.ptr /\ r.p.check = s.p.check
<1> DEFINE r == UnknownState(s)
<1>1. /\ IsRun(r) /\ r.b = s.b /\ r.p = [s.p EXCEPT !.dcnt = -1, !.msgc = 0]
      /\ r.h = ReadSr2(s.h)
  BY DEF IsState, IsRun, UnknownState
<1> HIDE DEF r
<1>2. /\ IsPriv(r.p) /\ r.p.msgv = s.p.msgv /\ r.p.cur = s.p.cur /\ r.p.status = s.p.status
      /\ r.p.branch = s.p.branch /\ r.p.ptr = s.p.ptr /\ r.p.check = s.p.check
  BY <1>1 DEF IsState, IsPriv
<1>3. IsHw(r.h) /\ r.h = s.h
  BY <1>1, ReadSr2Is DEF IsState
<1> QED BY <1>1, <1>2, <1>3 DEF r, IsState

LEMMA PutByteIs ==
  ASSUME NEW s, IsState(s)
  PROVE  LET r == PutByte(s)
         IN /\ IsState(r) /\ r.b = s.b /\ r.st = s.st
            /\ SamePlace(s.p, r.p) /\ r.p.check = s.p.check
            /\ r.p.ptr = s.p.ptr + 1 /\ r.p.dcnt = s.p.dcnt - 1
            /\ r.h = PutDr(s.h, <<s.p.cur, s.p.ptr>>)
<1> DEFINE r == PutByte(s)
<1>1. /\ IsRun(r) /\ r.b = s.b /\ r.st = s.st
      /\ r.p = [s.p EXCEPT !.ptr = @ + 1, !.dcnt = @ - 1]
      /\ r.h = PutDr(s.h, <<s.p.cur, s.p.ptr>>)
  BY DEF IsState, IsRun, PutByte
<1> HIDE DEF r
<1>2. /\ IsPriv(r.p) /\ SamePlace(s.p, r.p) /\ r.p.check = s.p.check
      /\ r.p.ptr = s.p.ptr + 1 /\ r.p.dcnt = s.p.dcnt - 1
  BY <1>1 DEF IsState, IsPriv, SamePlace
<1>3. IsHw(r.h)
  BY <1>1, PutDrIs DEF IsState
<1> QED BY <1>1, <1>2, <1>3 DEF r, IsState

LEMMA TakeByteIs ==
  ASSUME NEW s, IsState(s)
  PROVE  LET r == TakeByte(s)
         IN /\ IsState(r) /\ r.b = [s.b EXCEPT ![s.p.cur] = Append(@, s.h.dr)]
            /\ SamePlace(s.p, r.p) /\ r.p.check = s.p.check
            /\ r.p.ptr = s.p.ptr + 1 /\ r.p.dcnt = s.p.dcnt - 1
            /\ r.h = TakeDr(s.h)
<1> DEFINE r == TakeByte(s)
<1>1. /\ IsRun(r) /\ r.b = [s.b EXCEPT ![s.p.cur] = Append(@, s.h.dr)]
      /\ r.p = [s.p EXCEPT !.ptr = @ + 1, !.dcnt = @ - 1]
      /\ r.h = TakeDr(s.h)
  BY DEF IsState, IsRun, TakeByte
<1> HIDE DEF r
<1>2. /\ IsPriv(r.p) /\ SamePlace(s.p, r.p) /\ r.p.check = s.p.check
      /\ r.p.ptr = s.p.ptr + 1 /\ r.p.dcnt = s.p.dcnt - 1
  BY <1>1, ZenonT(40) DEF IsState, IsPriv, SamePlace
<1>3. IsHw(r.h)
  BY <1>1, TakeDrIs DEF IsState
<1> QED BY <1>1, <1>2, <1>3 DEF r, IsState

(* How many bytes a run writes *)
Puts(s) == IF "ADDR" \in s.st /\ s.p.dcnt > 1 THEN 2 ELSE 1

LEMMA WriteByteIs ==
  ASSUME NEW s, IsState(s), s.p.dcnt \in Nat \ {0}, s.p.ptr \in Nat, s.st = s.h.sr1,
         NEW g, g = ReadSr2(s.h), g.mode # "sb", "ADDR" \in s.st => ~s.h.dr[2]
  PROVE  LET r == WriteByte(s)
             m == Puts(s)
             cont == NextContinues(s.p)
         IN /\ IsState(r) /\ r.b = s.b
            /\ SamePlace(s.p, r.p) /\ r.p.check = FALSE
            /\ r.p.ptr = s.p.ptr + m
            /\ r.p.dcnt = (IF s.p.dcnt = m /\ cont THEN -1 ELSE s.p.dcnt - m)
            /\ r.h.mode = g.mode /\ r.h.start = g.start /\ r.h.stop = g.stop
            /\ r.h.itevt = g.itevt
            /\ (r.h.itbuf <=> \/ g.itbuf /\ ~(s.p.dcnt = 1 /\ ~cont)
                              \/ "ADDR" \in s.st /\ s.p.dcnt > m
                              \/ cont)
            /\ g.shift = <<>> => r.h.shift = <<s.p.cur, s.p.ptr>>
            /\ g.shift # <<>> =>
                 /\ r.h.shift = g.shift /\ r.h.dr = <<s.p.cur, s.p.ptr>>
                 /\ r.h.sr1 = g.sr1 \ {"TXE", "BTF"}
            /\ g.shift = <<>> /\ m = 1 => r.h.dr = g.dr /\ r.h.sr1 = g.sr1 \ {"BTF"}
            /\ g.shift = <<>> /\ m = 2 =>
                 r.h.dr = <<s.p.cur, s.p.ptr + 1>> /\ r.h.sr1 = g.sr1 \ {"TXE", "BTF"}
<1> DEFINE first == "ADDR" \in s.st
           cont == NextContinues(s.p)
           keep == ~(s.p.dcnt = 1 /\ ~cont)
           h0 == [g EXCEPT !.itbuf = @ /\ keep]
           s0 == [s EXCEPT !.h = h0, !.p.check = FALSE]
           s1 == PutByte(s0)
           s2 == IF first /\ s1.p.dcnt > 0 THEN PutByte(s1) ELSE s1
           m == Puts(s)
           d == IF s2.p.dcnt = 0 /\ NextContinues(s2.p) THEN -1 ELSE s2.p.dcnt
           i == s2.h.itbuf \/ (first /\ s2.p.dcnt > 0) \/ NextContinues(s2.p)
           r == WriteByte(s)
<1>0. r = [s2 EXCEPT !.h.itbuf = i, !.p.dcnt = d]
  BY DEF WriteByte
<1>1. /\ IsHw(g) /\ (first => g.shift = <<>>)
  BY ReadSr2Is DEF IsState
<1>2. /\ IsHw(h0) /\ h0.mode = g.mode /\ h0.start = g.start /\ h0.stop = g.stop
      /\ h0.itevt = g.itevt /\ (h0.itbuf <=> g.itbuf /\ keep)
      /\ h0.shift = g.shift /\ h0.dr = g.dr /\ h0.sr1 = g.sr1
  BY <1>1 DEF IsHw
<1> HIDE DEF h0
<1>3. /\ IsState(s0) /\ s0.b = s.b /\ s0.st = s.st /\ s0.h = h0 /\ SamePlace(s.p, s0.p)
      /\ s0.p.check = FALSE /\ s0.p.ptr = s.p.ptr /\ s0.p.dcnt = s.p.dcnt
  <2>1. /\ IsRun(s0) /\ s0.b = s.b /\ s0.st = s.st /\ s0.h = h0
        /\ s0.p = [s.p EXCEPT !.check = FALSE]
    BY DEF IsState, IsRun
  <2> HIDE DEF s0
  <2>2. /\ IsPriv(s0.p) /\ SamePlace(s.p, s0.p)
        /\ s0.p.check = FALSE /\ s0.p.ptr = s.p.ptr /\ s0.p.dcnt = s.p.dcnt
    BY <2>1 DEF IsState, IsPriv, SamePlace
  <2> QED BY <1>2, <2>1, <2>2 DEF IsState
<1> HIDE DEF s0
<1>4. /\ IsState(s1) /\ s1.b = s.b /\ s1.st = s.st /\ SamePlace(s.p, s1.p)
      /\ s1.p.check = FALSE /\ s1.p.ptr = s.p.ptr + 1 /\ s1.p.dcnt = s.p.dcnt - 1
      /\ s1.h = PutDr(h0, <<s.p.cur, s.p.ptr>>)
  BY <1>3, PutByteIs DEF SamePlace
<1> HIDE DEF s1
<1>5. /\ SameControl(h0, s1.h)
      /\ g.shift = <<>> => /\ s1.h.shift = <<s.p.cur, s.p.ptr>> /\ s1.h.dr = g.dr
                           /\ s1.h.sr1 = g.sr1 \ {"BTF"}
      /\ g.shift # <<>> => /\ s1.h.shift = g.shift /\ s1.h.dr = <<s.p.cur, s.p.ptr>>
                           /\ s1.h.sr1 = g.sr1 \ {"TXE", "BTF"}
  BY <1>2, <1>4, PutDrIs DEF SameControl
<1>6. (first /\ s1.p.dcnt > 0 <=> m = 2) /\ m \in {1, 2}
  BY <1>4 DEF Puts
<1>7. /\ IsState(s2) /\ s2.b = s.b /\ SamePlace(s.p, s2.p) /\ s2.p.check = FALSE
      /\ s2.p.ptr = s.p.ptr + m /\ s2.p.dcnt = s.p.dcnt - m /\ SameControl(h0, s2.h)
      /\ m = 1 => s2 = s1
      /\ m = 2 => /\ s2.h.shift = <<s.p.cur, s.p.ptr>> /\ s2.h.dr = <<s.p.cur, s.p.ptr + 1>>
                  /\ s2.h.sr1 = g.sr1 \ {"TXE", "BTF"} /\ first
  <2>1. CASE m = 1
    BY <1>4, <1>5, <1>6, <2>1
  <2>2. CASE m = 2
    <3>1. s2 = PutByte(s1) /\ first
      BY <1>6, <2>2
    <3> HIDE DEF s2, first
    <3>2. /\ IsState(s2) /\ s2.b = s.b /\ SamePlace(s.p, s2.p) /\ s2.p.check = FALSE
          /\ s2.p.ptr = s.p.ptr + 2 /\ s2.p.dcnt = s.p.dcnt - 2
          /\ s2.h = PutDr(s1.h, <<s.p.cur, s.p.ptr + 1>>)
      BY <1>4, <3>1, PutByteIs DEF SamePlace
    <3>3. <<s.p.cur, s.p.ptr>> # <<>>
      OBVIOUS
    <3>4. s1.h.shift = <<s.p.cur, s.p.ptr>> /\ s1.h.shift # <<>> /\ s1.h.sr1 = g.sr1 \ {"BTF"}
      BY <1>1, <1>5, <3>1, <3>3
    <3>5. s1.h.mode # "sb" /\ IsHw(s1.h)
      BY <1>2, <1>4, <1>5 DEF SameControl, IsState
    <3>6. /\ SameControl(s1.h, s2.h) /\ s2.h.shift = s1.h.shift
          /\ s2.h.dr = <<s.p.cur, s.p.ptr + 1>> /\ s2.h.sr1 = s1.h.sr1 \ {"TXE", "BTF"}
      BY <3>2, <3>4, <3>5, PutDrIs, SMTT(30) DEF SameControl
    <3>7. SameControl(h0, s2.h)
      BY <1>5, <3>6 DEF SameControl
    <3> QED BY <2>2, <3>1, <3>2, <3>4, <3>6, <3>7
  <2> QED BY <1>6, <2>1, <2>2
<1> HIDE DEF s2
<1>8. NextContinues(s2.p) <=> cont
  BY <1>7 DEF SamePlace, NextContinues, Msgv
<1>9. /\ IsRun(r) /\ r.b = s2.b /\ r.p = [s2.p EXCEPT !.dcnt = d]
      /\ r.h = [s2.h EXCEPT !.itbuf = i]
  BY <1>0, <1>7, ZenonT(40) DEF IsState, IsRun
<1> HIDE DEF r, i, d
<1>10. /\ IsPriv(r.p) /\ SamePlace(s2.p, r.p) /\ r.p.check = s2.p.check /\ r.p.ptr = s2.p.ptr
       /\ r.p.dcnt = d
  BY <1>7, <1>9 DEF IsState, IsPriv, SamePlace
<1>11. /\ IsHw(r.h) /\ r.h.mode = s2.h.mode /\ r.h.start = s2.h.start /\ r.h.stop = s2.h.stop
       /\ r.h.itevt = s2.h.itevt /\ r.h.itbuf = i /\ r.h.shift = s2.h.shift
       /\ r.h.dr = s2.h.dr /\ r.h.sr1 = s2.h.sr1
  BY <1>7, <1>9 DEF IsState, IsHw
<1>12. d = (IF s.p.dcnt = m /\ cont THEN -1 ELSE s.p.dcnt - m)
  BY <1>6, <1>7, <1>8 DEF d
<1>13. i <=> (g.itbuf /\ ~(s.p.dcnt = 1 /\ ~cont)) \/ (first /\ s.p.dcnt > m) \/ cont
  <2>1. s2.p.dcnt > 0 <=> s.p.dcnt > m
    BY <1>6, <1>7
  <2>2. s2.h.itbuf <=> g.itbuf /\ keep
    BY <1>2, <1>7 DEF SameControl
  <2> HIDE DEF first, cont, m
  <2> QED BY <1>8, <2>1, <2>2 DEF i
<1>14. SamePlace(s.p, r.p) /\ IsState(r)
  BY <1>7, <1>9, <1>10, <1>11 DEF SamePlace, IsState
<1>15. /\ r.h.mode = g.mode /\ r.h.start = g.start /\ r.h.stop = g.stop /\ r.h.itevt = g.itevt
  BY <1>2, <1>7, <1>11 DEF SameControl
<1>16. /\ g.shift = <<>> => r.h.shift = <<s.p.cur, s.p.ptr>>
       /\ g.shift # <<>> =>
            /\ r.h.shift = g.shift /\ r.h.dr = <<s.p.cur, s.p.ptr>>
            /\ r.h.sr1 = g.sr1 \ {"TXE", "BTF"}
       /\ g.shift = <<>> /\ m = 1 => r.h.dr = g.dr /\ r.h.sr1 = g.sr1 \ {"BTF"}
       /\ g.shift = <<>> /\ m = 2 =>
            r.h.dr = <<s.p.cur, s.p.ptr + 1>> /\ r.h.sr1 = g.sr1 \ {"TXE", "BTF"}
  BY <1>1, <1>5, <1>6, <1>7, <1>11
<1>17. r.b = s.b /\ r.p.check = FALSE /\ r.p.ptr = s.p.ptr + m
  BY <1>7, <1>9, <1>10
<1>18. r.p.dcnt = (IF s.p.dcnt = m /\ cont THEN -1 ELSE s.p.dcnt - m)
  BY <1>10, <1>12
<1>19. r.h.itbuf <=> (g.itbuf /\ ~(s.p.dcnt = 1 /\ ~cont)) \/ (first /\ s.p.dcnt > m) \/ cont
  BY <1>11, <1>13
<1> HIDE DEF cont, m
<1> QED BY <1>14, <1>15, <1>16, <1>17, <1>18, <1>19, Zenon DEF r, m, cont

LEMMA SendAddressIs ==
  ASSUME NEW s, IsState(s), s.p.dcnt > 0, s.h.mode = "sb"
  PROVE  LET r == SendAddress(s)
         IN /\ IsState(r) /\ r.b = s.b
            /\ SamePlace(s.p, r.p) /\ r.p.ptr = s.p.ptr /\ r.p.dcnt = s.p.dcnt
            /\ r.p.check = TRUE
            /\ r.h.mode = "addr" /\ r.h.sr1 = s.h.sr1 \ {"SB"} /\ r.h.ack = TRUE
            /\ r.h.dr = <<msgs[s.p.msgv].addr, msgs[s.p.cur].read>>
            /\ r.h.pos = FALSE /\ r.h.start = s.h.start /\ r.h.stop = s.h.stop
            /\ r.h.itevt = s.h.itevt /\ r.h.itbuf = s.h.itbuf
<1> DEFINE r == SendAddress(s)
           h == [s.h EXCEPT !.pos = FALSE, !.ack = TRUE]
           v == <<msgs[s.p.msgv].addr, msgs[s.p.cur].read>>
<1>1. /\ IsRun(r) /\ r.b = s.b /\ r.h = PutDr(h, v) /\ r.p = [s.p EXCEPT !.check = TRUE]
  <2>1. r = [s EXCEPT !.h = PutDr(h, v), !.p.check = TRUE]
    BY DEF SendAddress, Msgv, Current
  <2> HIDE DEF h, v, r
  <2> QED BY <2>1 DEF IsState, IsRun
<1>2. /\ IsHw(h) /\ h.mode = "sb" /\ h.sr1 = s.h.sr1 /\ h.ack = TRUE /\ h.pos = FALSE
      /\ h.start = s.h.start /\ h.stop = s.h.stop /\ h.itevt = s.h.itevt /\ h.itbuf = s.h.itbuf
  BY DEF IsState, IsHw
<1> HIDE DEF h, r
<1>3. /\ IsPriv(r.p) /\ SamePlace(s.p, r.p) /\ r.p.ptr = s.p.ptr /\ r.p.dcnt = s.p.dcnt
      /\ r.p.check = TRUE
  BY <1>1, ZenonT(40) DEF IsState, IsPriv, SamePlace
<1> HIDE DEF v
<1>4. /\ IsHw(r.h) /\ r.h.mode = "addr" /\ r.h.sr1 = s.h.sr1 \ {"SB"} /\ r.h.ack = TRUE
      /\ r.h.dr = v /\ r.h.pos = FALSE /\ r.h.start = s.h.start /\ r.h.stop = s.h.stop
      /\ r.h.itevt = s.h.itevt /\ r.h.itbuf = s.h.itbuf
  BY <1>1, <1>2, PutDrIs
<1> QED BY <1>1, <1>3, <1>4 DEF r, v, IsState

(* A run that reads the address acknowledge: h0 is what it sets before *)
LEMMA AckedIs ==
  ASSUME NEW s, IsState(s), s.p.dcnt \in Nat \ {0}, s.h.sr1 = {"ADDR"}, s.h.dr[2],
         s.p.dcnt = 1 => s.p.msgc = 0
  PROVE  LET r == AddressAckedRead(s)
         IN /\ IsState(r) /\ r.b = s.b
            /\ SamePlace(s.p, r.p) /\ r.p.ptr = s.p.ptr /\ r.p.dcnt = s.p.dcnt
            /\ r.p.check = FALSE
            /\ r.h.mode = "rx" /\ r.h.sr1 = {} /\ r.h.dr = <<>> /\ r.h.shift = <<>>
            /\ r.h.k = 0 /\ r.h.nacked = FALSE
            /\ r.h.start = s.h.start /\ r.h.itevt = s.h.itevt
            /\ s.p.dcnt = 1 => /\ r.h.stop = TRUE /\ r.h.itbuf = TRUE /\ r.h.ack = FALSE
                               /\ r.h.pos = FALSE
            /\ s.p.dcnt = 2 => /\ r.h.stop = s.h.stop /\ r.h.itbuf = s.h.itbuf
                               /\ r.h.ack = FALSE /\ r.h.pos = TRUE
            /\ s.p.dcnt > 2 => /\ r.h.stop = s.h.stop /\ r.h.ack = s.h.ack /\ r.h.pos = s.h.pos
                               /\ (r.h.itbuf <=> s.h.itbuf \/ s.p.dcnt > 3)
<1> DEFINE r == AddressAckedRead(s)
           p == [s.p EXCEPT !.check = FALSE]
           a == [s.h EXCEPT !.pos = FALSE, !.ack = FALSE, !.itbuf = TRUE]
           b == [s.h EXCEPT !.pos = TRUE, !.ack = FALSE]
           c == [ReadSr2(s.h) EXCEPT !.itbuf = @ \/ p.dcnt > 3]
           h == CASE p.dcnt = 1 -> StartOrStop(p, ReadSr2(a))
                  [] p.dcnt = 2 -> ReadSr2(b)
                  [] OTHER -> c
<1>1. r.b = s.b /\ IsRun(r) /\ r.p = p /\ r.h = h
  <2>1. r = [s EXCEPT !.p = p, !.h = h]
    BY DEF AddressAckedRead
  <2> HIDE DEF p, h, r
  <2> QED BY <2>1 DEF IsState, IsRun
<1>2. /\ IsPriv(p) /\ SamePlace(s.p, p) /\ p.ptr = s.p.ptr /\ p.dcnt = s.p.dcnt
      /\ p.check = FALSE
  BY DEF IsState, IsPriv, SamePlace
<1> HIDE DEF p
<1>3. CASE s.p.dcnt = 1
  <2>1. h = stm32_i2c_sendstop(ReadSr2(a))
    <3>1. h = StartOrStop(p, ReadSr2(a))
      BY <1>2, <1>3
    <3>2. ~(p.msgc > 0)
      BY <1>2, <1>3 DEF SamePlace
    <3> QED BY <3>1, <3>2 DEF StartOrStop
  <2> HIDE DEF h
  <2>2. /\ IsHw(a) /\ a.sr1 = {"ADDR"} /\ a.dr[2] /\ a.ack = FALSE /\ a.pos = FALSE
        /\ a.itbuf = TRUE /\ a.start = s.h.start /\ a.itevt = s.h.itevt
    BY DEF IsState, IsHw
  <2> HIDE DEF a
  <2>3. LET g == ReadSr2(a)
        IN /\ IsHw(g) /\ g.mode = "rx" /\ g.sr1 = {} /\ g.dr = <<>> /\ g.shift = <<>>
           /\ g.k = 0 /\ g.nacked = FALSE /\ g.ack = FALSE /\ g.pos = FALSE /\ g.itbuf = TRUE
           /\ g.start = s.h.start /\ g.itevt = s.h.itevt
    BY <2>2, ReadSr2Is
  <2>4. /\ IsHw(h) /\ h.mode = "rx" /\ h.sr1 = {} /\ h.dr = <<>> /\ h.shift = <<>>
        /\ h.k = 0 /\ h.nacked = FALSE /\ h.ack = FALSE /\ h.pos = FALSE /\ h.itbuf = TRUE
        /\ h.start = s.h.start /\ h.itevt = s.h.itevt /\ h.stop = TRUE
    BY <2>1, <2>3, SendStopIs
  <2> HIDE DEF r
  <2> QED BY <1>1, <1>2, <1>3, <2>4 DEF IsState, r
<1>4. CASE s.p.dcnt = 2
  <2>1. h = ReadSr2(b)
    BY <1>2, <1>4
  <2> HIDE DEF h
  <2>2. /\ IsHw(b) /\ b.sr1 = {"ADDR"} /\ b.dr[2] /\ b.ack = FALSE /\ b.pos = TRUE
        /\ b.itbuf = s.h.itbuf /\ b.start = s.h.start /\ b.itevt = s.h.itevt
        /\ b.stop = s.h.stop
    BY DEF IsState, IsHw
  <2> HIDE DEF b
  <2>3. /\ IsHw(h) /\ h.mode = "rx" /\ h.sr1 = {} /\ h.dr = <<>> /\ h.shift = <<>>
        /\ h.k = 0 /\ h.nacked = FALSE /\ h.ack = FALSE /\ h.pos = TRUE /\ h.itbuf = s.h.itbuf
        /\ h.start = s.h.start /\ h.itevt = s.h.itevt /\ h.stop = s.h.stop
    BY <2>1, <2>2, ReadSr2Is
  <2> HIDE DEF r
  <2> QED BY <1>1, <1>2, <1>4, <2>3 DEF IsState, r
<1>5. CASE s.p.dcnt > 2
  <2>1. h = c
    BY <1>2, <1>5
  <2> HIDE DEF h
  <2>2. LET g == ReadSr2(s.h)
        IN /\ IsHw(g) /\ g.mode = "rx" /\ g.sr1 = {} /\ g.dr = <<>> /\ g.shift = <<>>
           /\ g.k = 0 /\ g.nacked = FALSE /\ g.ack = s.h.ack /\ g.pos = s.h.pos
           /\ g.itbuf = s.h.itbuf /\ g.start = s.h.start /\ g.itevt = s.h.itevt
           /\ g.stop = s.h.stop
    BY ReadSr2Is, ZenonT(40) DEF IsState
  <2>3. /\ IsHw(h) /\ h.mode = "rx" /\ h.sr1 = {} /\ h.dr = <<>> /\ h.shift = <<>>
        /\ h.k = 0 /\ h.nacked = FALSE /\ h.ack = s.h.ack /\ h.pos = s.h.pos
        /\ (h.itbuf <=> s.h.itbuf \/ s.p.dcnt > 3)
        /\ h.start = s.h.start /\ h.itevt = s.h.itevt /\ h.stop = s.h.stop
    BY <1>2, <2>1, <2>2 DEF IsHw
  <2> HIDE DEF r
  <2> QED BY <1>1, <1>2, <1>5, <2>3 DEF IsState, r
<1>6. s.p.dcnt = 1 \/ s.p.dcnt = 2 \/ s.p.dcnt > 2
  OBVIOUS
<1> HIDE DEF a, b, c, h, r
<1> QED BY <1>3, <1>4, <1>5, <1>6, Zenon

LEMMA WriteEndIs ==
  ASSUME NEW s, IsState(s), "ADDR" \notin s.h.sr1, s.h.mode = "tx"
  PROVE  LET r == WriteEnd(s)
             m == msgs[s.p.msgv]
             go == s.p.msgc # 0 /\ (m.read \/ (~m.nostart /\ ~m.nostop))
         IN /\ s.p.msgc = 0 =>
                 /\ IsState(r) /\ r.b = s.b /\ SamePlace(s.p, r.p)
                 /\ r.p.ptr = s.p.ptr /\ r.p.check = s.p.check /\ r.p.dcnt = s.p.dcnt - 1
                 /\ r.h = stm32_i2c_sendstop(s.h)
            /\ go =>
                 /\ IsState(r) /\ r.b = s.b /\ SamePlace(s.p, r.p)
                 /\ r.p.ptr = s.p.ptr /\ r.p.check = s.p.check /\ r.p.dcnt = s.p.dcnt - 1
                 /\ r.h = TakeDr(stm32_i2c_sendstart(s.h))
            /\ s.p.msgc # 0 /\ ~go => r = s
<1> DEFINE m == msgs[s.p.msgv]
           go == s.p.msgc # 0 /\ (m.read \/ (~m.nostart /\ ~m.nostop))
           u == [s EXCEPT !.h = stm32_i2c_sendstop(s.h), !.p.dcnt = @ - 1]
           v == [s EXCEPT !.h = TakeDr(stm32_i2c_sendstart(s.h)), !.p.dcnt = @ - 1]
           t == IF s.p.msgc = 0 THEN u ELSE IF go THEN v ELSE s
           r == WriteEnd(s)
<1>1. r = [t EXCEPT !.h = ReadSr2(t.h)]
  BY DEF WriteEnd, Msgv
<1>2. /\ IsRun(u) /\ u.b = s.b /\ u.h = stm32_i2c_sendstop(s.h)
      /\ u.p = [s.p EXCEPT !.dcnt = @ - 1]
  BY DEF IsState, IsRun
<1>3. /\ IsRun(v) /\ v.b = s.b /\ v.h = TakeDr(stm32_i2c_sendstart(s.h))
      /\ v.p = [s.p EXCEPT !.dcnt = @ - 1]
  BY DEF IsState, IsRun
<1> HIDE DEF u, v, r, m
<1>4. LET p == [s.p EXCEPT !.dcnt = @ - 1]
      IN /\ IsPriv(p) /\ SamePlace(s.p, p) /\ p.ptr = s.p.ptr /\ p.check = s.p.check
         /\ p.dcnt = s.p.dcnt - 1
  BY DEF IsState, IsPriv, SamePlace
<1>5. /\ IsHw(u.h) /\ "ADDR" \notin u.h.sr1
  <2>1. LET g == stm32_i2c_sendstop(s.h) IN IsHw(g) /\ g.sr1 = s.h.sr1
    BY SendStopIs DEF IsState
  <2> QED BY <1>2, <2>1
<1>6. /\ IsHw(v.h) /\ "ADDR" \notin v.h.sr1
  <2>1. LET g == stm32_i2c_sendstart(s.h) IN IsHw(g) /\ g.sr1 = s.h.sr1
    BY SendStartIs DEF IsState
  <2> QED BY <1>3, <2>1, TakeDrIs
<1>7. IsRun(t) /\ IsHw(t.h) /\ "ADDR" \notin t.h.sr1
  BY <1>2, <1>3, <1>5, <1>6 DEF IsState
<1>8. r = t
  <2>1. ReadSr2(t.h) = t.h
    BY <1>7, ReadSr2Is
  <2> HIDE DEF t
  <2> QED BY <1>1, <1>7, <2>1 DEF IsRun
<1>9. IsState(u) /\ IsState(v) /\ SamePlace(s.p, u.p) /\ SamePlace(s.p, v.p)
      /\ u.p.ptr = s.p.ptr /\ u.p.check = s.p.check /\ u.p.dcnt = s.p.dcnt - 1
      /\ v.p.ptr = s.p.ptr /\ v.p.check = s.p.check /\ v.p.dcnt = s.p.dcnt - 1
  BY <1>2, <1>3, <1>4, <1>5, <1>6 DEF IsState
<1>10. (s.p.msgc = 0 => r = u) /\ (go => r = v) /\ (s.p.msgc # 0 /\ ~go => r = s)
  BY <1>8
<1> HIDE DEF t, go
<1> QED BY <1>2, <1>3, <1>9, <1>10, Zenon DEF r, go, m

LEMMA ReadOneIs ==
  ASSUME NEW s, IsState(s), "ADDR" \notin s.h.sr1, s.p.dcnt \in Nat \ {0, 2}
  PROVE  LET r == ReadByte(s)
         IN /\ IsState(r) /\ r.b = [s.b EXCEPT ![s.p.cur] = Append(@, s.h.dr)]
            /\ SamePlace(s.p, r.p) /\ r.p.check = s.p.check /\ r.p.ptr = s.p.ptr + 1
            /\ r.p.dcnt = (IF s.p.dcnt = 1 THEN -1 ELSE s.p.dcnt - 1)
            /\ r.h.mode = s.h.mode /\ r.h.pos = s.h.pos /\ r.h.start = s.h.start
            /\ r.h.stop = s.h.stop /\ r.h.itevt = s.h.itevt /\ r.h.k = s.h.k
            /\ r.h.nacked = s.h.nacked
            /\ r.h.ack = (IF s.p.dcnt = 3 THEN FALSE ELSE s.h.ack)
            /\ (r.h.itbuf <=> s.h.itbuf /\ s.p.dcnt >= 5)
            /\ s.h.mode = "rx" /\ s.h.shift # <<>> =>
                 r.h.dr = s.h.shift /\ r.h.shift = <<>> /\ r.h.sr1 = s.h.sr1 \ {"BTF"}
            /\ ~(s.h.mode = "rx" /\ s.h.shift # <<>>) =>
                 r.h.dr = s.h.dr /\ r.h.shift = s.h.shift /\ r.h.sr1 = s.h.sr1 \ {"RXNE", "BTF"}
<1> DEFINE h1 == [s.h EXCEPT !.itbuf = @ /\ s.p.dcnt >= 5]
           h2 == IF s.p.dcnt = 3 THEN [h1 EXCEPT !.ack = FALSE] ELSE h1
           s1 == [s EXCEPT !.h = h2]
           s2 == TakeByte(s1)
           d == IF s2.p.dcnt = 0 THEN -1 ELSE s2.p.dcnt
           r == ReadByte(s)
<1>0. ReadSr2(s.h) = s.h
  BY ReadSr2Is DEF IsState
<1>1. r = [s2 EXCEPT !.p.dcnt = d]
  <2>1. s.p.dcnt # 2
    OBVIOUS
  <2> QED BY <1>0, <2>1 DEF ReadByte
<1> HIDE DEF r
<1>2. /\ IsHw(h1)
      /\ (h1.itbuf <=> s.h.itbuf /\ s.p.dcnt >= 5)
      /\ h1.mode = s.h.mode /\ h1.pos = s.h.pos /\ h1.start = s.h.start
      /\ h1.stop = s.h.stop /\ h1.itevt = s.h.itevt /\ h1.k = s.h.k
      /\ h1.nacked = s.h.nacked /\ h1.ack = s.h.ack /\ h1.dr = s.h.dr
      /\ h1.shift = s.h.shift /\ h1.sr1 = s.h.sr1
  BY DEF IsState, IsHw
<1> HIDE DEF h1
<1>3. /\ IsHw(h2) /\ (h2.itbuf <=> s.h.itbuf /\ s.p.dcnt >= 5)
      /\ h2.mode = s.h.mode /\ h2.pos = s.h.pos /\ h2.start = s.h.start
      /\ h2.stop = s.h.stop /\ h2.itevt = s.h.itevt /\ h2.k = s.h.k
      /\ h2.nacked = s.h.nacked /\ h2.dr = s.h.dr
      /\ h2.shift = s.h.shift /\ h2.sr1 = s.h.sr1
      /\ h2.ack = (IF s.p.dcnt = 3 THEN FALSE ELSE s.h.ack)
  <2>1. CASE s.p.dcnt = 3
    <3>1. h2 = [h1 EXCEPT !.ack = FALSE]
      BY <2>1
    <3> HIDE DEF h2
    <3> QED BY <1>2, <2>1, <3>1 DEF IsHw
  <2>2. CASE s.p.dcnt # 3
    BY <1>2, <2>2
  <2> QED BY <2>1, <2>2
<1> HIDE DEF h2
<1>4. IsState(s1) /\ s1.h = h2 /\ s1.p = s.p /\ s1.b = s.b
  BY <1>3 DEF IsState, IsRun
<1> HIDE DEF s1
<1>5. /\ IsState(s2) /\ s2.b = [s.b EXCEPT ![s.p.cur] = Append(@, s.h.dr)]
      /\ SamePlace(s.p, s2.p) /\ s2.p.check = s.p.check
      /\ s2.p.ptr = s.p.ptr + 1 /\ s2.p.dcnt = s.p.dcnt - 1
      /\ s2.h = TakeDr(h2)
  <2>1. /\ IsState(s2) /\ s2.b = [s1.b EXCEPT ![s1.p.cur] = Append(@, s1.h.dr)]
        /\ SamePlace(s1.p, s2.p) /\ s2.p.check = s1.p.check
        /\ s2.p.ptr = s1.p.ptr + 1 /\ s2.p.dcnt = s1.p.dcnt - 1
        /\ s2.h = TakeDr(s1.h)
    BY <1>4, TakeByteIs
  <2> HIDE DEF s2
  <2> QED BY <1>3, <1>4, <2>1
<1> HIDE DEF s2
<1>6. IsRun(r) /\ r.b = s2.b /\ r.h = s2.h /\ r.p = [s2.p EXCEPT !.dcnt = d]
  BY <1>1, <1>5 DEF IsState, IsRun
<1>7. d = (IF s.p.dcnt = 1 THEN -1 ELSE s.p.dcnt - 1)
  BY <1>5
<1> HIDE DEF d
<1>8. /\ IsPriv(r.p) /\ SamePlace(s2.p, r.p) /\ r.p.check = s2.p.check /\ r.p.ptr = s2.p.ptr
      /\ r.p.dcnt = d
  BY <1>5, <1>6 DEF IsState, IsPriv, SamePlace
<1>9. SamePlace(s.p, r.p) /\ IsState(r)
  BY <1>5, <1>6, <1>8 DEF SamePlace, IsState
<1>10. /\ r.h.mode = h2.mode /\ r.h.pos = h2.pos /\ r.h.start = h2.start
       /\ r.h.stop = h2.stop /\ r.h.itevt = h2.itevt /\ r.h.k = h2.k
       /\ r.h.nacked = h2.nacked /\ r.h.ack = h2.ack /\ r.h.itbuf = h2.itbuf
       /\ h2.mode = "rx" /\ h2.shift # <<>> =>
            r.h.dr = h2.shift /\ r.h.shift = <<>> /\ r.h.sr1 = h2.sr1 \ {"BTF"}
       /\ ~(h2.mode = "rx" /\ h2.shift # <<>>) =>
            r.h.dr = h2.dr /\ r.h.shift = h2.shift /\ r.h.sr1 = h2.sr1 \ {"RXNE", "BTF"}
  <2>1. IsHw(h2) /\ r.h = TakeDr(h2)
    BY <1>3, <1>5, <1>6
  <2> QED BY <2>1, TakeDrIs
<1>11. r.h.itbuf <=> s.h.itbuf /\ s.p.dcnt >= 5
  BY <1>3, <1>10
<1>12. r.h.ack = (IF s.p.dcnt = 3 THEN FALSE ELSE s.h.ack)
  BY <1>3, <1>10
<1>13. r.p.dcnt = (IF s.p.dcnt = 1 THEN -1 ELSE s.p.dcnt - 1)
  BY <1>7, <1>8
<1>14. /\ s.h.mode = "rx" /\ s.h.shift # <<>> =>
            r.h.dr = s.h.shift /\ r.h.shift = <<>> /\ r.h.sr1 = s.h.sr1 \ {"BTF"}
       /\ ~(s.h.mode = "rx" /\ s.h.shift # <<>>) =>
            r.h.dr = s.h.dr /\ r.h.shift = s.h.shift /\ r.h.sr1 = s.h.sr1 \ {"RXNE", "BTF"}
  BY <1>3, <1>10
<1>15. /\ r.b = [s.b EXCEPT ![s.p.cur] = Append(@, s.h.dr)]
       /\ r.p.check = s.p.check /\ r.p.ptr = s.p.ptr + 1
       /\ r.h.mode = s.h.mode /\ r.h.pos = s.h.pos /\ r.h.start = s.h.start
       /\ r.h.stop = s.h.stop /\ r.h.itevt = s.h.itevt /\ r.h.k = s.h.k
       /\ r.h.nacked = s.h.nacked
  BY <1>3, <1>5, <1>6, <1>8, <1>10
<1> QED BY <1>9, <1>11, <1>12, <1>13, <1>14, <1>15, Zenon DEF r

(* The last two bytes *)
LEMMA ReadTwoIs ==
  ASSUME NEW s, IsState(s), "ADDR" \notin s.h.sr1, s.p.dcnt = 2, s.h.mode = "rx",
         s.h.shift # <<>>, s.p.cur \in DOMAIN s.b, s.p.ptr \in Nat
  PROVE  LET r == ReadByte(s)
         IN /\ IsState(r)
            /\ r.b = [s.b EXCEPT ![s.p.cur] = Append(Append(@, s.h.dr), s.h.shift)]
            /\ SamePlace(s.p, r.p) /\ r.p.check = s.p.check /\ r.p.ptr = s.p.ptr + 2
            /\ r.p.dcnt = -1
            /\ r.h.mode = "rx" /\ r.h.itevt = s.h.itevt /\ r.h.itbuf = FALSE
            /\ r.h.k = s.h.k /\ r.h.nacked = s.h.nacked
            /\ r.h.shift = <<>> /\ r.h.sr1 = s.h.sr1 \ {"RXNE", "BTF"}
            /\ s.p.msgc > 0 => r.h.start = TRUE /\ r.h.stop = s.h.stop
            /\ ~(s.p.msgc > 0) => r.h.start = s.h.start /\ r.h.stop = TRUE
<1> DEFINE h1 == [s.h EXCEPT !.itbuf = @ /\ s.p.dcnt >= 5]
           h2 == StartOrStop(s.p, h1)
           s0 == [s EXCEPT !.h = h2]
           s1 == TakeByte(s0)
           s2 == TakeByte(s1)
           d == IF s2.p.dcnt = 0 THEN -1 ELSE s2.p.dcnt
           r == ReadByte(s)
<1>0. ReadSr2(s.h) = s.h
  BY ReadSr2Is DEF IsState
<1>1. r = [s2 EXCEPT !.p.dcnt = d]
  BY <1>0 DEF ReadByte
<1> HIDE DEF r
<1>2. /\ IsHw(h1) /\ h1.itbuf = FALSE
      /\ h1.mode = s.h.mode /\ h1.start = s.h.start
      /\ h1.stop = s.h.stop /\ h1.itevt = s.h.itevt /\ h1.k = s.h.k
      /\ h1.nacked = s.h.nacked /\ h1.dr = s.h.dr
      /\ h1.shift = s.h.shift /\ h1.sr1 = s.h.sr1
  <2>1. h1 = [s.h EXCEPT !.itbuf = FALSE]
    <3>1. ~(s.p.dcnt >= 5)
      OBVIOUS
    <3>2. (s.h.itbuf /\ s.p.dcnt >= 5) = FALSE
      BY <3>1, Zenon
    <3> QED BY <3>2, Zenon
  <2> HIDE DEF h1
  <2> QED BY <2>1 DEF IsState, IsHw
<1> HIDE DEF h1
<1>3. /\ IsHw(h2) /\ h2.itbuf = FALSE
      /\ h2.mode = s.h.mode /\ h2.itevt = s.h.itevt /\ h2.k = s.h.k
      /\ h2.nacked = s.h.nacked /\ h2.dr = s.h.dr
      /\ h2.shift = s.h.shift /\ h2.sr1 = s.h.sr1
      /\ s.p.msgc > 0 => h2.start = TRUE /\ h2.stop = s.h.stop
      /\ ~(s.p.msgc > 0) => h2.start = s.h.start /\ h2.stop = TRUE
  <2>1. CASE s.p.msgc > 0
    <3>1. h2 = stm32_i2c_sendstart(h1)
      BY <2>1 DEF StartOrStop
    <3> HIDE DEF h2
    <3> QED BY <1>2, <2>1, <3>1, SendStartIs
  <2>2. CASE ~(s.p.msgc > 0)
    <3>1. h2 = stm32_i2c_sendstop(h1)
      BY <2>2 DEF StartOrStop
    <3> HIDE DEF h2
    <3> QED BY <1>2, <2>2, <3>1, SendStopIs
  <2> QED BY <2>1, <2>2
<1> HIDE DEF h2
<1>4. IsState(s0) /\ s0.h = h2 /\ s0.p = s.p /\ s0.b = s.b
  BY <1>3 DEF IsState, IsRun
<1> HIDE DEF s0
<1>5. /\ IsState(s1) /\ s1.b = [s.b EXCEPT ![s.p.cur] = Append(@, s.h.dr)]
      /\ SamePlace(s.p, s1.p) /\ s1.p.check = s.p.check
      /\ s1.p.ptr = s.p.ptr + 1 /\ s1.p.dcnt = s.p.dcnt - 1
      /\ s1.h = TakeDr(h2)
  <2>1. /\ IsState(s1) /\ s1.b = [s0.b EXCEPT ![s0.p.cur] = Append(@, s0.h.dr)]
        /\ SamePlace(s0.p, s1.p) /\ s1.p.check = s0.p.check
        /\ s1.p.ptr = s0.p.ptr + 1 /\ s1.p.dcnt = s0.p.dcnt - 1
        /\ s1.h = TakeDr(s0.h)
    BY <1>4, TakeByteIs
  <2> HIDE DEF s1
  <2> QED BY <1>3, <1>4, <2>1
<1> HIDE DEF s1
<1>6. /\ IsHw(s1.h) /\ SameControl(h2, s1.h) /\ s1.h.dr = s.h.shift /\ s1.h.shift = <<>>
      /\ s1.h.sr1 = s.h.sr1 \ {"BTF"}
  <2>1. h2.mode = "rx" /\ h2.shift # <<>> /\ IsHw(h2) /\ s1.h = TakeDr(h2)
    BY <1>3, <1>5
  <2>2. /\ IsHw(s1.h) /\ SameControl(h2, s1.h) /\ s1.h.dr = h2.shift /\ s1.h.shift = <<>>
        /\ s1.h.sr1 = h2.sr1 \ {"BTF"}
    BY <2>1, TakeDrIs DEF SameControl
  <2> QED BY <1>3, <2>2
<1>7. /\ IsState(s2) /\ s2.b = [s1.b EXCEPT ![s1.p.cur] = Append(@, s1.h.dr)]
      /\ SamePlace(s1.p, s2.p) /\ s2.p.check = s1.p.check
      /\ s2.p.ptr = s1.p.ptr + 1 /\ s2.p.dcnt = s1.p.dcnt - 1
      /\ s2.h = TakeDr(s1.h)
  BY <1>5, TakeByteIs
<1> HIDE DEF s2
<1>8. s2.b = [s.b EXCEPT ![s.p.cur] = Append(Append(@, s.h.dr), s.h.shift)]
  <2>1. s1.p.cur = s.p.cur
    BY <1>5 DEF SamePlace
  <2> QED BY <1>5, <1>6, <1>7, <2>1
<1>9. /\ SameControl(s1.h, s2.h) /\ s2.h.shift = <<>> /\ s2.h.sr1 = s1.h.sr1 \ {"RXNE", "BTF"}
  <2>1. ~(s1.h.shift # <<>>) /\ IsHw(s1.h) /\ s2.h = TakeDr(s1.h)
    BY <1>6, <1>7
  <2> QED BY <2>1, TakeDrIs DEF SameControl
<1>10. IsRun(r) /\ r.b = s2.b /\ r.h = s2.h /\ r.p = [s2.p EXCEPT !.dcnt = d]
  BY <1>1, <1>7 DEF IsState, IsRun
<1>11. d = -1
  BY <1>5, <1>7, SMTT(30)
<1> HIDE DEF d
<1>12. /\ IsPriv(r.p) /\ SamePlace(s2.p, r.p) /\ r.p.check = s2.p.check /\ r.p.ptr = s2.p.ptr
       /\ r.p.dcnt = d
  BY <1>7, <1>10 DEF IsState, IsPriv, SamePlace
<1>13. SamePlace(s.p, r.p) /\ IsState(r)
  BY <1>5, <1>7, <1>10, <1>12 DEF SamePlace, IsState
<1>14. /\ r.h.mode = "rx" /\ r.h.itevt = s.h.itevt /\ r.h.itbuf = FALSE
       /\ r.h.k = s.h.k /\ r.h.nacked = s.h.nacked
       /\ r.h.shift = <<>> /\ r.h.sr1 = s.h.sr1 \ {"RXNE", "BTF"}
       /\ r.h.start = h2.start /\ r.h.stop = h2.stop
  BY <1>3, <1>6, <1>9, <1>10 DEF SameControl
<1>15. r.p.ptr = s.p.ptr + 2 /\ r.p.check = s.p.check /\ r.p.dcnt = -1
  BY <1>5, <1>7, <1>11, <1>12, SMTT(30)
<1> QED BY <1>3, <1>8, <1>10, <1>13, <1>14, <1>15, Zenon DEF r

-----------------------------------------------------------------------------
(* The runs of the routine, phase by phase *)
LEMMA IsrTyped ==
  ASSUME Typed, msgs' = msgs, faulted' = faulted, IsPriv(priv'), IsHw(hw'),
         priv'.status \subseteq Bits, hw'.sr1 \subseteq Bits, hw'.mode \in Modes,
         priv'.branch \in Branches \union {"none", "state"},
         priv'.check \in BOOLEAN, priv'.done \in BOOLEAN,
         priv'.dcnt \in Nat \union {-1}, priv'.ptr \in Nat,
         priv'.cur \in 0 .. Len(msgs), priv'.msgc \in 0 .. Len(msgs),
         priv'.msgv \in 0 .. Len(msgs), ~priv'.done => priv'.msgv \in DOMAIN msgs,
         ~priv'.done /\ priv'.dcnt >= 0 =>
           priv'.ptr + priv'.dcnt = msgs[priv'.cur].length + 1,
         DOMAIN buf' = DOMAIN buf, Prefixed'
  PROVE  Typed'
<1>1. {priv'.check, priv'.done, faulted'} \subseteq BOOLEAN
  BY DEF Typed, ByteTypeOK
<1>2. ByteTypeOK'
  BY <1>1 DEF Typed, ByteTypeOK, Bits, Modes, Current
<1> QED BY <1>2 DEF Typed

LEMMA StoredPrefixed ==
  ASSUME msgs \in Lists, msgs' = msgs, NEW n \in Int, 0 <= n,
         n <= Room(priv'.cur), Stored(n)', priv'.cur \in Int
  PROVE  Prefixed'
<1>1. \A i \in DOMAIN msgs : Room(i) \in Nat /\ Room(i)' = Room(i)
  BY ListFacts DEF Room
<1>2. ASSUME NEW i \in DOMAIN msgs
      PROVE  \E m \in 0 .. Room(i) : buf'[i] = Got(m)
  <2>1. i \in Int
    BY ListFacts
  <2>2. CASE i < priv'.cur
    BY <1>1, <2>1, <2>2 DEF Stored
  <2>3. CASE i = priv'.cur
    BY <1>1, <2>1, <2>3 DEF Stored
  <2>4. CASE i > priv'.cur
    BY <1>1, <2>1, <2>4 DEF Stored
  <2> QED BY <2>1, <2>2, <2>3, <2>4
<1> QED BY <1>1, <1>2 DEF Prefixed

(* Where a run of the routine that is not at its end stays *)
LEMMA PlacedStep ==
  ASSUME Placed, NEW b, IsPriv(priv), IsHw(hw),
         BetweenMessages(priv) \/ priv.cur > 0
  PROVE  LET p == Taken(b)
         IN /\ p.cur \in 1 .. Len(msgs) /\ p.msgc = Len(msgs) - p.cur /\ p.msgc \in Nat
            /\ p.msgv = (IF p.msgc = 0 THEN p.cur ELSE p.cur + 1)
            /\ p.msgv \in DOMAIN msgs
            /\ ~p.done
            /\ Len(msgs) \in Nat \ {0} /\ DOMAIN msgs = 1 .. Len(msgs)
            /\ msgs[p.cur].length \in Nat \ {0}
            /\ p.msgc > 0 /\ msgs[p.msgv].nostart => ~msgs[p.cur].read /\ ~msgs[p.msgv].read
            /\ p.msgc > 0 /\ msgs[p.cur].read => msgs[p.cur].length > 1
<1>1. /\ Len(msgs) \in Nat \ {0} /\ DOMAIN msgs = 1 .. Len(msgs)
  BY ListFacts DEF Placed
<1>2. /\ Taken(b).cur \in 1 .. Len(msgs) /\ Taken(b).msgc = Len(msgs) - Taken(b).cur
      /\ Taken(b).msgv = (IF Taken(b).msgc = 0 THEN Taken(b).cur ELSE Taken(b).cur + 1)
      /\ ~Taken(b).done
  <2>1. ~Taken(b).done
    BY RunIs DEF Placed
  <2>2. CASE BetweenMessages(priv)
    <3>1. /\ Taken(b).msgc = priv.msgc - 1 /\ Taken(b).cur = priv.msgv
          /\ Taken(b).msgv = (IF priv.msgc = 1 THEN priv.msgv ELSE priv.msgv + 1)
      BY <2>2, RunIs
    <3>2. /\ priv.msgc > 0 /\ priv.cur \in 0 .. Len(msgs) /\ priv.msgc = Len(msgs) - priv.cur
          /\ priv.msgv = IF priv.msgc = 0 THEN priv.cur ELSE priv.cur + 1
      BY <2>2 DEF Placed, BetweenMessages
    <3> DEFINE n == Len(msgs)
               c == priv.cur
               m == priv.msgc
               v == priv.msgv
    <3>3. n \in Nat /\ c \in 0 .. n /\ m = n - c /\ m > 0 /\ v = IF m = 0 THEN c ELSE c + 1
      BY <1>1, <3>2
    <3> HIDE DEF n, c, m, v
    <3>4. v \in 1 .. n /\ m - 1 = n - v /\ (IF m = 1 THEN v ELSE v + 1)
                                         = (IF m - 1 = 0 THEN v ELSE v + 1)
      BY <3>3
    <3> QED BY <2>1, <3>1, <3>4 DEF n, m, v
  <2>3. CASE ~BetweenMessages(priv)
    BY <1>1, <2>1, <2>3, RunIs DEF Placed
  <2> QED BY <2>2, <2>3
<1> HIDE DEF Taken
<1>3. Taken(b).msgc \in Nat /\ Taken(b).msgv \in DOMAIN msgs
  BY <1>1, <1>2
<1>4. /\ msgs[Taken(b).cur].length \in Nat \ {0}
  BY <1>2, ListFacts DEF Placed
<1>5. Taken(b).msgc > 0 => Taken(b).cur \in 1 .. Len(msgs) - 1 /\ Taken(b).msgv = Taken(b).cur + 1
  BY <1>1, <1>2
<1> QED BY <1>1, <1>2, <1>3, <1>4, <1>5, ListFacts DEF Placed

(* A run that meets no error bit and does not end the transfer *)
LEMMA GoesOn ==
  ASSUME NEW b, IsrBranch(b), ~Err(hw.sr1), ~Over(Branch(b, Run(b)).p)
  PROVE  LET r == Branch(b, Run(b))
         IN priv' = r.p /\ hw' = r.h /\ buf' = r.b
            /\ msgs' = msgs /\ wire' = wire /\ faulted' = faulted
<1>1. Err(hw.sr1) = FALSE
  BY DEF Err
<1>2. Shutdown(CheckErrors(Branch(b, Run(b)), Err(hw.sr1))) = Branch(b, Run(b))
  BY <1>1, NoError, NotOverEnd
<1> QED BY <1>2, BranchRun

(* One that does *)
LEMMA Ends ==
  ASSUME NEW b, IsrBranch(b), ~Err(hw.sr1), IsState(Branch(b, Run(b))),
         Over(Branch(b, Run(b)).p)
  PROVE  LET r == Branch(b, Run(b))
         IN /\ IsPriv(priv') /\ priv'.done = TRUE /\ priv'.dcnt = r.p.dcnt
            /\ priv'.msgc = r.p.msgc /\ priv'.msgv = r.p.msgv /\ priv'.cur = r.p.cur
            /\ priv'.ptr = r.p.ptr /\ priv'.check = r.p.check /\ priv'.status = r.p.status
            /\ priv'.branch = r.p.branch
            /\ IsHw(hw') /\ hw'.mode = r.h.mode /\ hw'.sr1 = r.h.sr1 /\ hw'.dr = r.h.dr
            /\ hw'.shift = r.h.shift /\ hw'.start = r.h.start /\ hw'.stop = r.h.stop
            /\ hw'.itevt = FALSE /\ hw'.itbuf = FALSE /\ hw'.nacked = r.h.nacked
            /\ buf' = r.b /\ msgs' = msgs /\ wire' = wire /\ faulted' = faulted
<1> DEFINE r == Branch(b, Run(b))
<1>1. Err(hw.sr1) = FALSE
  BY DEF Err
<1>2. Shutdown(CheckErrors(r, Err(hw.sr1))) = Shutdown(r)
  BY <1>1, NoError
<1>3. /\ priv' = Shutdown(r).p /\ hw' = Shutdown(r).h /\ buf' = Shutdown(r).b
      /\ msgs' = msgs /\ wire' = wire /\ faulted' = faulted
  BY <1>2, BranchRun
<1>4. IsRun(r) /\ IsPriv(r.p) /\ IsHw(r.h) /\ Over(r.p)
  BY DEF IsState
<1> HIDE DEF r
<1>5. /\ buf' = r.b /\ IsPriv(priv') /\ IsHw(hw') /\ priv' = [r.p EXCEPT !.done = TRUE]
      /\ hw' = [r.h EXCEPT !.itevt = FALSE, !.itbuf = FALSE]
  BY <1>3, <1>4, OverEnd
<1>6. /\ priv'.done = TRUE /\ priv'.dcnt = r.p.dcnt
      /\ priv'.msgc = r.p.msgc /\ priv'.msgv = r.p.msgv /\ priv'.cur = r.p.cur
      /\ priv'.ptr = r.p.ptr /\ priv'.check = r.p.check /\ priv'.status = r.p.status
      /\ priv'.branch = r.p.branch
  BY <1>4, <1>5 DEF IsPriv
<1>7. /\ hw'.mode = r.h.mode /\ hw'.sr1 = r.h.sr1 /\ hw'.dr = r.h.dr
      /\ hw'.shift = r.h.shift /\ hw'.start = r.h.start /\ hw'.stop = r.h.stop
      /\ hw'.itevt = FALSE /\ hw'.itbuf = FALSE /\ hw'.nacked = r.h.nacked
  BY <1>4, <1>5 DEF IsHw
<1> QED BY <1>3, <1>5, <1>6, <1>7 DEF r

LEMMA StartedStep ==
  ASSUME Typed, Started, NEW b \in Branches, IsrBranch(b)
  PROVE  /\ BytesInv' /\ Addressing' /\ msgs' = msgs /\ wire' = wire
         /\ priv'.cur = priv.cur + 1 /\ priv'.cur \in 1 .. Len(msgs)
         /\ hw'.dr[1] \in {msgs[i].addr : i \in DOMAIN msgs}
         /\ hw'.dr = <<hw'.dr[1], msgs[priv'.cur].read>>
<1> DEFINE s == Run(b)
           r == SendAddress(s)
<1>1. BetweenMessages(priv) /\ IsPriv(priv) /\ IsHw(hw) /\ Placed /\ hw.sr1 = {"SB"}
  BY DEF Started, Due, Sound, BetweenMessages, Typed
<1>2. b = "address"
  BY <1>1, BranchRun DEF BranchOf
<1>3. /\ IsState(s) /\ s.p = Taken(b) /\ s.h = hw /\ s.b = buf
      /\ s.p.status = hw.sr1 /\ s.p.branch = b /\ s.p.check = priv.check
      /\ s.p.dcnt = msgs[priv.msgv].length /\ s.p.cur = priv.msgv /\ s.p.ptr = 1
  BY <1>1, RunIs DEF IsState
<1>4. /\ s.p.cur \in 1 .. Len(msgs) /\ s.p.msgc = Len(msgs) - s.p.cur /\ s.p.msgc \in Nat
      /\ s.p.msgv = (IF s.p.msgc = 0 THEN s.p.cur ELSE s.p.cur + 1)
      /\ s.p.msgv \in DOMAIN msgs /\ ~s.p.done
      /\ Len(msgs) \in Nat \ {0} /\ DOMAIN msgs = 1 .. Len(msgs)
      /\ s.p.dcnt = msgs[s.p.cur].length /\ s.p.dcnt \in Nat /\ s.p.dcnt > 0
  BY <1>1, <1>3, PlacedStep
<1> HIDE DEF s
<1>5. /\ IsState(r) /\ r.b = s.b
      /\ SamePlace(s.p, r.p) /\ r.p.ptr = s.p.ptr /\ r.p.dcnt = s.p.dcnt
      /\ r.p.check = TRUE
      /\ r.h.mode = "addr" /\ r.h.sr1 = s.h.sr1 \ {"SB"} /\ r.h.ack = TRUE
      /\ r.h.dr = <<msgs[s.p.msgv].addr, msgs[s.p.cur].read>>
      /\ r.h.pos = FALSE /\ r.h.start = s.h.start /\ r.h.stop = s.h.stop
      /\ r.h.itevt = s.h.itevt /\ r.h.itbuf = s.h.itbuf
  <2>1. s.h.mode = "sb"
    BY <1>3 DEF Started
  <2> QED BY <1>3, <1>4, <2>1, SendAddressIs
<1>6. r = Branch(b, Run(b))
  BY <1>2 DEF Branch, s
<1> HIDE DEF r
<1>7. /\ priv' = r.p /\ hw' = r.h /\ buf' = r.b /\ msgs' = msgs /\ wire' = wire
      /\ faulted' = faulted
  <2>1. ~Err(hw.sr1)
    BY <1>1 DEF Err, ErrorBits
  <2>2. ~Over(r.p)
    BY <1>4, <1>5 DEF Over
  <2> QED BY <1>6, <2>1, <2>2, GoesOn
<1>8. /\ priv'.cur = priv.msgv /\ priv'.cur = priv.cur + 1 /\ priv.cur \in Nat
  BY <1>1, <1>3, <1>5, <1>7 DEF SamePlace, Placed, BetweenMessages
<1>9. Stored(0)'
  <2>1. \A i \in DOMAIN msgs : i \in Int /\ Room(i)' = Room(i)
    BY <1>4, <1>7 DEF Room
  <2>2. Stored(Room(priv.cur)) /\ buf' = buf /\ msgs' = msgs
    BY <1>3, <1>5, <1>7 DEF Started, Due
  <2> QED BY <1>8, <2>1, <2>2 DEF Stored
<1>10. Sound'
  <2>1. /\ priv'.status = {"SB"} /\ priv'.branch = "address"
    BY <1>1, <1>2, <1>3, <1>5, <1>7 DEF SamePlace
  <2>2. Placed'
    BY <1>3, <1>4, <1>5, <1>7, SMTT(20) DEF SamePlace, Placed, Started, Due, Sound
  <2> QED BY <1>7, <2>1, <2>2 DEF Sound, Started, Due, Err, ErrorBits
<1>11. Addressing'
  <2>1. hw'.dr[2] = msgs[priv'.cur].read
    BY <1>5, <1>7 DEF SamePlace
  <2>2. /\ priv'.cur > 0 /\ priv'.dcnt = msgs'[priv'.cur].length /\ priv'.ptr = 1
    BY <1>3, <1>4, <1>5, <1>7 DEF SamePlace
  <2>3. /\ hw'.sr1 = {} /\ ~hw'.start /\ ~hw'.stop /\ ~hw'.itbuf
    BY <1>1, <1>3, <1>5, <1>7 DEF Started, Due
  <2> QED BY <1>5, <1>7, <1>9, <1>10, <2>1, <2>2, <2>3 DEF Addressing, Selecting
<1>12. Typed'
  <2>1. /\ IsPriv(priv') /\ IsHw(hw') /\ priv'.status \subseteq Bits /\ hw'.sr1 \subseteq Bits
        /\ hw'.mode \in Modes /\ priv'.branch \in Branches /\ priv'.check \in BOOLEAN
    BY <1>1, <1>3, <1>5, <1>7 DEF IsState, Bits, Modes, SamePlace
  <2>2. priv'.done \in BOOLEAN
    BY <1>1, <1>3, <1>5, <1>7, RunIs DEF SamePlace, Typed, ByteTypeOK
  <2>3. /\ priv'.dcnt \in Nat \union {-1} /\ priv'.ptr \in Nat
        /\ priv'.cur \in 0 .. Len(msgs) /\ priv'.msgc \in 0 .. Len(msgs)
        /\ priv'.msgv \in 0 .. Len(msgs) /\ priv'.msgv \in DOMAIN msgs
        /\ priv'.ptr + priv'.dcnt = msgs[priv'.cur].length + 1
    <3>1. /\ priv'.dcnt = s.p.dcnt /\ priv'.ptr = 1 /\ priv'.cur = s.p.cur
          /\ priv'.msgc = s.p.msgc /\ priv'.msgv = s.p.msgv
      BY <1>3, <1>5, <1>7 DEF SamePlace
    <3> QED BY <1>4, <3>1
  <2>4. DOMAIN buf' = DOMAIN buf /\ Prefixed'
    BY <1>3, <1>5, <1>7 DEF Typed, Prefixed, Room
  <2> QED BY <1>7, <2>1, <2>2, <2>3, <2>4, IsrTyped
<1>13. /\ hw'.dr[1] \in {msgs[i].addr : i \in DOMAIN msgs} /\ priv'.cur \in 1 .. Len(msgs)
       /\ hw'.dr = <<hw'.dr[1], msgs[priv'.cur].read>>
  BY <1>4, <1>5, <1>7 DEF SamePlace
<1> QED BY <1>7, <1>8, <1>11, <1>12, <1>13 DEF BytesInv

LEMMA AddressedRead ==
  ASSUME Typed, Addressed, msgs[priv.cur].read,
         NEW b \in Branches, IsrBranch(b)
  PROVE  /\ BytesInv' /\ Reading' /\ msgs' = msgs /\ wire' = wire
         /\ priv'.cur = priv.cur /\ hw'.mode = "rx" /\ hw'.k = 0
<1> DEFINE s == Run(b)
           r == AddressAckedRead(s)
<1>1. /\ ~BetweenMessages(priv) /\ IsPriv(priv) /\ IsHw(hw) /\ Placed /\ hw.sr1 = {"ADDR"}
      /\ priv.cur > 0
  <2>1. priv.dcnt \in Nat /\ priv.cur > 0
    BY ListFacts DEF Addressed, Selecting, Sound, Placed
  <2> QED BY <2>1 DEF Addressed, Selecting, Sound, BetweenMessages, Typed
<1>3. /\ IsState(s) /\ s.p = Taken(b) /\ s.h = hw /\ s.b = buf
      /\ s.p.status = hw.sr1 /\ s.p.branch = b /\ s.p.check = priv.check
      /\ s.p.dcnt = priv.dcnt /\ s.p.cur = priv.cur /\ s.p.ptr = priv.ptr
      /\ s.p.done = priv.done /\ s.p.msgc = priv.msgc /\ s.p.msgv = priv.msgv
  BY <1>1, RunIs DEF IsState
<1>2. b = "acked"
  <2>1. BranchOf(s.p, {"ADDR"}) = b
    BY <1>1, <1>3, BranchRun
  <2>2. s.p.check /\ msgs[s.p.cur].read
    BY <1>3 DEF Addressed, Selecting
  <2> HIDE DEF s
  <2> QED BY <2>1, <2>2 DEF BranchOf, Current
<1>4. /\ s.p.cur \in 1 .. Len(msgs) /\ s.p.msgc = Len(msgs) - s.p.cur /\ s.p.msgc \in Nat
      /\ s.p.msgv = (IF s.p.msgc = 0 THEN s.p.cur ELSE s.p.cur + 1)
      /\ s.p.msgv \in DOMAIN msgs /\ ~s.p.done
      /\ Len(msgs) \in Nat \ {0} /\ DOMAIN msgs = 1 .. Len(msgs)
      /\ s.p.dcnt = msgs[s.p.cur].length /\ s.p.dcnt \in Nat /\ s.p.dcnt > 0 /\ s.p.ptr = 1
      /\ s.p.dcnt = 1 => s.p.msgc = 0
  <2>1. s.p.dcnt = msgs[s.p.cur].length /\ s.p.ptr = 1
    BY <1>3 DEF Addressed, Selecting
  <2> QED BY <1>1, <1>3, <2>1, PlacedStep
<1> HIDE DEF s
<1>5. /\ IsState(r) /\ r.b = s.b
      /\ SamePlace(s.p, r.p) /\ r.p.ptr = s.p.ptr /\ r.p.dcnt = s.p.dcnt
      /\ r.p.check = FALSE
      /\ r.h.mode = "rx" /\ r.h.sr1 = {} /\ r.h.dr = <<>> /\ r.h.shift = <<>>
      /\ r.h.k = 0 /\ r.h.nacked = FALSE
      /\ r.h.start = s.h.start /\ r.h.itevt = s.h.itevt
      /\ s.p.dcnt = 1 => /\ r.h.stop = TRUE /\ r.h.itbuf = TRUE /\ r.h.ack = FALSE
                         /\ r.h.pos = FALSE
      /\ s.p.dcnt = 2 => /\ r.h.stop = s.h.stop /\ r.h.itbuf = s.h.itbuf
                         /\ r.h.ack = FALSE /\ r.h.pos = TRUE
      /\ s.p.dcnt > 2 => /\ r.h.stop = s.h.stop /\ r.h.ack = s.h.ack /\ r.h.pos = s.h.pos
                         /\ (r.h.itbuf <=> s.h.itbuf \/ s.p.dcnt > 3)
  <2>1. s.h.dr[2] /\ s.h.sr1 = {"ADDR"}
    BY <1>1, <1>3 DEF Addressed, Selecting
  <2>2. IsState(s) /\ s.p.dcnt \in Nat \ {0} /\ (s.p.dcnt = 1 => s.p.msgc = 0)
    BY <1>3, <1>4
  <2> HIDE DEF r
  <2> QED BY <2>1, <2>2, AckedIs DEF r
<1>6. r = Branch(b, Run(b))
  BY <1>2 DEF Branch, s
<1> HIDE DEF r
<1>7. /\ priv' = r.p /\ hw' = r.h /\ buf' = r.b /\ msgs' = msgs /\ wire' = wire
      /\ faulted' = faulted
  <2>1. ~Err(hw.sr1)
    BY <1>1 DEF Err, ErrorBits
  <2>2. ~Over(r.p)
    BY <1>4, <1>5 DEF Over
  <2> QED BY <1>6, <2>1, <2>2, GoesOn
<1>8. /\ priv'.dcnt = s.p.dcnt /\ priv'.ptr = 1 /\ priv'.cur = s.p.cur /\ priv'.check = FALSE
      /\ priv'.msgc = s.p.msgc /\ priv'.msgv = s.p.msgv /\ priv'.done = s.p.done
      /\ priv'.status = {"ADDR"} /\ priv'.branch = "acked" /\ buf' = buf
  BY <1>1, <1>2, <1>3, <1>4, <1>5, <1>7 DEF SamePlace
<1>9. Stored(0)'
  BY <1>3, <1>7, <1>8 DEF Stored, Addressed, Selecting, Room
<1>10. Sound'
  <2>1. Placed'
    BY <1>3, <1>4, <1>5, <1>7, <1>8 DEF Placed, Addressed, Selecting, Sound
  <2> QED BY <1>7, <1>8, <2>1 DEF Sound, Addressed, Selecting, Err, ErrorBits
<1>11. Reading'
  <2>1. hw'.start = hw.start /\ ~hw.start /\ ~hw.stop /\ ~hw.itbuf /\ hw.ack /\ ~hw.pos
    BY <1>3, <1>5, <1>7 DEF Addressed, Selecting
  <2>2. Unread' = 0
    BY <1>5, <1>7 DEF Unread
  <2>3. Single' \/ Several'
    <3>1. CASE s.p.dcnt = 1
      <4>1. Single'
        BY <1>4, <1>5, <1>7, <1>8, <3>1 DEF Single
      <4> QED BY <4>1
    <3>2. CASE s.p.dcnt = 2
      <4>1. Several'
        BY <1>3, <1>4, <1>5, <1>7, <1>8, <2>1, <3>2 DEF Several
      <4> QED BY <4>1
    <3>3. CASE s.p.dcnt > 2
      <4>0. ~hw'.stop /\ hw'.ack /\ ~hw'.pos /\ (hw'.itbuf <=> s.p.dcnt > 3)
        BY <1>3, <1>5, <1>7, <2>1, <3>3
      <4>1. Several'
        BY <1>4, <1>5, <1>7, <1>8, <3>3, <4>0, SMTT(30) DEF Several
      <4> QED BY <4>1
    <3> QED BY <1>4, <3>1, <3>2, <3>3
  <2>4. /\ msgs'[priv'.cur].length - priv'.dcnt = 0 /\ msgs'[priv'.cur].length # 0
        /\ priv'.ptr + priv'.dcnt = msgs'[priv'.cur].length + 1 /\ priv'.cur > 0
    BY <1>4, <1>7, <1>8
  <2>5. hw'.k = 0 /\ hw'.sr1 = {} /\ hw'.shift = <<>> /\ hw'.nacked = FALSE
    BY <1>5, <1>7
  <2>6. msgs'[priv'.cur].read /\ ~priv'.check /\ ~hw'.start
    BY <1>3, <1>7, <1>8, <2>1
  <2>7. hw'.k = msgs'[priv'.cur].length - priv'.dcnt + Unread'
    BY <2>2, <2>4, <2>5
  <2>8. Stored(msgs[priv.cur].length - priv.dcnt)'
    BY <1>9, <2>4 DEF Stored
  <2> QED BY <1>10, <2>3, <2>4, <2>5, <2>6, <2>7, <2>8 DEF Reading
<1>12. Typed'
  <2>1. /\ IsPriv(priv') /\ IsHw(hw') /\ priv'.status \subseteq Bits /\ hw'.sr1 \subseteq Bits
        /\ hw'.mode \in Modes /\ priv'.branch \in Branches /\ priv'.check \in BOOLEAN
    BY <1>1, <1>3, <1>5, <1>7, <1>8 DEF IsState, Bits, Modes, Branches
  <2>2. priv'.done \in BOOLEAN
    BY <1>3, <1>8 DEF Typed, ByteTypeOK
  <2>3. /\ priv'.dcnt \in Nat \union {-1} /\ priv'.ptr \in Nat
        /\ priv'.cur \in 0 .. Len(msgs) /\ priv'.msgc \in 0 .. Len(msgs)
        /\ priv'.msgv \in 0 .. Len(msgs) /\ priv'.msgv \in DOMAIN msgs
        /\ priv'.ptr + priv'.dcnt = msgs[priv'.cur].length + 1
    BY <1>4, <1>8
  <2>4. DOMAIN buf' = DOMAIN buf /\ Prefixed'
    BY <1>7, <1>8 DEF Typed, Prefixed, Room
  <2> QED BY <1>7, <2>1, <2>2, <2>3, <2>4, IsrTyped
<1> QED BY <1>3, <1>5, <1>7, <1>8, <1>11, <1>12 DEF BytesInv

(* A run s of the routine is about to write; g is the controller after it  *)
(* has read the status                                                     *)
WriteReady(s, g) ==
  /\ s.p.dcnt \in Nat \ {0} /\ s.p.ptr \in Nat /\ s.p.ptr > 0
  /\ s.p.ptr + s.p.dcnt = msgs[s.p.cur].length + 1 /\ ~msgs[s.p.cur].read
  /\ \A i \in DOMAIN msgs : buf[i] = Got(IF i < s.p.cur THEN Room(i) ELSE 0)
  /\ hw.sr1 \subseteq {"ADDR", "TXE", "BTF"} /\ ("ADDR" \in hw.sr1 => ~hw.dr[2])
  /\ g.mode = "tx" /\ g.dr = <<>> /\ "TXE" \in g.sr1 /\ g.sr1 \subseteq {"TXE", "BTF"}
  /\ ~hw.start /\ ~hw.stop /\ ("ADDR" \in hw.sr1 <=> ~hw.itbuf)

(* The run has put byte x of message c behind the byte v, or x and the one *)
(* after it when there is no such byte                                     *)
WritesOn(c, x, v) ==
  /\ msgs' = msgs /\ wire' = wire /\ priv'.cur = c /\ c \in 1 .. Len(msgs) /\ x \in Nat \ {0}
  /\ \/ v # <<>> /\ priv'.ptr = x + 1 /\ hw'.shift = v /\ hw'.dr = <<c, x>>
     \/ v = <<>> /\ priv'.ptr = x + 1 /\ hw'.shift = <<c, x>> /\ hw'.dr = <<>>
     \/ v = <<>> /\ priv'.ptr = x + 2 /\ hw'.shift = <<c, x>> /\ hw'.dr = <<c, x + 1>>

LEMMA Writes ==
  ASSUME Typed, Sound, NEW b, b = "write", IsrBranch(b),
         BetweenMessages(priv) \/ priv.cur > 0,
         WriteReady(Run(b), ReadSr2(hw))
  PROVE  /\ BytesInv' /\ Writing'
         /\ WritesOn(Run(b).p.cur, Run(b).p.ptr, ReadSr2(hw).shift)
<1> DEFINE s == Run(b)
           g == ReadSr2(hw)
           r == WriteByte(s)
           m == Puts(s)
           cont == NextContinues(s.p)
<1>1. /\ IsState(s) /\ s.p = Taken(b) /\ s.h = hw /\ s.b = buf /\ s.st = hw.sr1
      /\ s.p.status = hw.sr1 /\ s.p.branch = b /\ s.p.done = priv.done
  BY RunIs DEF IsState, Typed
<1>2. /\ s.p.cur \in 1 .. Len(msgs) /\ s.p.msgc = Len(msgs) - s.p.cur /\ s.p.msgc \in Nat
      /\ s.p.msgv = (IF s.p.msgc = 0 THEN s.p.cur ELSE s.p.cur + 1)
      /\ s.p.msgv \in DOMAIN msgs /\ ~s.p.done
      /\ Len(msgs) \in Nat \ {0} /\ DOMAIN msgs = 1 .. Len(msgs)
      /\ msgs[s.p.cur].length \in Nat
      /\ msgs[s.p.cur].length = s.p.ptr + s.p.dcnt - 1
      /\ s.p.dcnt \in Nat /\ s.p.dcnt > 0 /\ s.p.ptr \in Nat
  <2>1. Placed /\ IsPriv(priv) /\ IsHw(hw)
    BY DEF Sound, Typed
  <2>2. /\ s.p.cur \in 1 .. Len(msgs) /\ s.p.msgc = Len(msgs) - s.p.cur /\ s.p.msgc \in Nat
        /\ s.p.msgv = (IF s.p.msgc = 0 THEN s.p.cur ELSE s.p.cur + 1)
        /\ s.p.msgv \in DOMAIN msgs /\ ~s.p.done
        /\ Len(msgs) \in Nat \ {0} /\ DOMAIN msgs = 1 .. Len(msgs)
        /\ msgs[s.p.cur].length \in Nat
    BY <1>1, <2>1, PlacedStep
  <2>3. /\ s.p.dcnt \in Nat /\ s.p.dcnt > 0 /\ s.p.ptr \in Nat
        /\ s.p.ptr + s.p.dcnt = msgs[s.p.cur].length + 1
    BY DEF WriteReady
  <2> HIDE DEF s
  <2>4. msgs[s.p.cur].length = s.p.ptr + s.p.dcnt - 1
    <3> DEFINE n == msgs[s.p.cur].length
               x == s.p.ptr
               d == s.p.dcnt
    <3>1. n \in Nat /\ x \in Nat /\ d \in Nat /\ x + d = n + 1
      BY <2>2, <2>3
    <3> HIDE DEF n, x, d
    <3>2. n = x + d - 1
      BY <3>1
    <3> QED BY <3>2 DEF n, x, d
  <2> QED BY <2>2, <2>3, <2>4, Zenon
<1>3. /\ g.start = hw.start /\ g.stop = hw.stop /\ g.itevt = hw.itevt /\ g.itbuf = hw.itbuf
      /\ "ADDR" \in hw.sr1 => g.shift = <<>>
      /\ g.mode = "tx" /\ g.dr = <<>> /\ "TXE" \in g.sr1 /\ g.sr1 \subseteq {"TXE", "BTF"}
      /\ ~hw.start /\ ~hw.stop /\ ("ADDR" \in hw.sr1 <=> ~hw.itbuf)
      /\ hw.sr1 \subseteq {"ADDR", "TXE", "BTF"} /\ ("ADDR" \in hw.sr1 => ~hw.dr[2])
  BY ReadSr2Is DEF Typed, WriteReady
<1>4. /\ IsState(r) /\ r.b = s.b
      /\ SamePlace(s.p, r.p) /\ r.p.check = FALSE
      /\ r.p.ptr = s.p.ptr + m
      /\ r.p.dcnt = (IF s.p.dcnt = m /\ cont THEN -1 ELSE s.p.dcnt - m)
      /\ r.h.mode = g.mode /\ r.h.start = g.start /\ r.h.stop = g.stop
      /\ r.h.itevt = g.itevt
      /\ (r.h.itbuf <=> \/ g.itbuf /\ ~(s.p.dcnt = 1 /\ ~cont)
                        \/ "ADDR" \in s.st /\ s.p.dcnt > m
                        \/ cont)
      /\ g.shift = <<>> => r.h.shift = <<s.p.cur, s.p.ptr>>
      /\ g.shift # <<>> =>
           /\ r.h.shift = g.shift /\ r.h.dr = <<s.p.cur, s.p.ptr>>
           /\ r.h.sr1 = g.sr1 \ {"TXE", "BTF"}
      /\ g.shift = <<>> /\ m = 1 => r.h.dr = g.dr /\ r.h.sr1 = g.sr1 \ {"BTF"}
      /\ g.shift = <<>> /\ m = 2 =>
           r.h.dr = <<s.p.cur, s.p.ptr + 1>> /\ r.h.sr1 = g.sr1 \ {"TXE", "BTF"}
  <2>1. /\ IsState(s) /\ s.st = s.h.sr1 /\ g = ReadSr2(s.h) /\ g.mode # "sb"
        /\ ("ADDR" \in s.st => ~s.h.dr[2]) /\ s.p.dcnt \in Nat \ {0} /\ s.p.ptr \in Nat
    BY <1>1, <1>2, <1>3
  <2> HIDE DEF s, g
  <2> QED BY <2>1, WriteByteIs, ZenonT(40)
<1>5. r = Branch(b, Run(b))
  BY DEF Branch
<1>5a. /\ \A i \in DOMAIN msgs : buf[i] = Got(IF i < s.p.cur THEN Room(i) ELSE 0)
       /\ ~msgs[s.p.cur].read
  BY DEF WriteReady
<1>5b. s.p.ptr > 0
  BY DEF WriteReady
<1> HIDE DEF r, s, g
<1>6. /\ m \in {1, 2} /\ m <= s.p.dcnt /\ (m = 2 <=> "ADDR" \in hw.sr1 /\ s.p.dcnt > 1)
      /\ m = 2 => g.shift = <<>>
  BY <1>1, <1>2, <1>3 DEF Puts
<1> HIDE DEF m
<1>7. r.h.itbuf <=> s.p.dcnt > m \/ cont
  <2>1. CASE "ADDR" \in hw.sr1
    BY <1>1, <1>3, <1>4, <2>1
  <2>2. CASE "ADDR" \notin hw.sr1
    <3>1. m = 1 /\ hw.itbuf
      BY <1>3, <1>6, <2>2
    <3>2. s.p.dcnt = 1 <=> ~(s.p.dcnt > m)
      BY <1>2, <3>1
    <3> HIDE DEF cont
    <3> QED BY <1>1, <1>3, <1>4, <2>2, <3>1, <3>2
  <2> QED BY <2>1, <2>2
<1>8. /\ r.h.sr1 \subseteq {"TXE", "BTF"} /\ "BTF" \notin r.h.sr1 /\ r.h.shift # <<>>
      /\ "TXE" \in r.h.sr1 <=> r.h.dr = <<>>
  <2>1. <<s.p.cur, s.p.ptr>> # <<>> /\ <<s.p.cur, s.p.ptr + 1>> # <<>>
    OBVIOUS
  <2>2. CASE g.shift # <<>>
    BY <1>3, <1>4, <2>1, <2>2
  <2>3. CASE g.shift = <<>> /\ m = 1
    BY <1>3, <1>4, <2>1, <2>3
  <2>4. CASE g.shift = <<>> /\ m = 2
    BY <1>3, <1>4, <2>1, <2>4
  <2> QED BY <1>6, <2>2, <2>3, <2>4
<1>9. cont => s.p.msgc > 0
  BY DEF NextContinues
<1>10. /\ priv' = r.p /\ hw' = r.h /\ buf' = r.b /\ msgs' = msgs /\ wire' = wire
       /\ faulted' = faulted
  <2>1. ~Err(hw.sr1)
    BY <1>3 DEF Err, ErrorBits
  <2>2. ~Over(r.p)
    <3>1. r.p.msgc = s.p.msgc
      BY <1>4 DEF SamePlace
    <3> HIDE DEF cont
    <3> QED BY <1>2, <1>4, <1>6, <1>9, <3>1 DEF Over
  <2> QED BY <1>5, <2>1, <2>2, GoesOn
<1>11. /\ priv'.cur = s.p.cur /\ priv'.msgc = s.p.msgc /\ priv'.msgv = s.p.msgv
       /\ priv'.done = s.p.done /\ priv'.status = hw.sr1 /\ priv'.branch = "write"
       /\ priv'.check = FALSE /\ buf' = buf
  BY <1>1, <1>4, <1>10 DEF SamePlace
<1>12. NextContinues(priv)' <=> cont
  BY <1>10, <1>11 DEF NextContinues, Msgv
<1>13. Stored(0)'
  BY <1>2, <1>5a, <1>10, <1>11 DEF Stored, Room
<1>14. Sound'
  <2>1. Placed'
    <3>1. hw'.itevt /\ msgs' \in Lists
      BY <1>3, <1>4, <1>10 DEF Placed, Sound
    <3> QED BY <1>2, <1>10, <1>11, <3>1 DEF Placed
  <2> QED BY <1>3, <1>10, <1>11, <2>1 DEF Sound, Err, ErrorBits
<1>15. Writing'
  <2>1. /\ priv'.cur > 0 /\ ~msgs'[priv'.cur].read /\ ~priv'.check
    BY <1>2, <1>5a, <1>10, <1>11
  <2>2. /\ ~hw'.start /\ ~hw'.stop /\ hw'.mode = "tx"
    BY <1>3, <1>4, <1>10
  <2>3. priv'.dcnt = (IF s.p.dcnt = m /\ cont THEN -1 ELSE s.p.dcnt - m)
    BY <1>4, <1>10
  <2>4. hw'.itbuf <=> s.p.dcnt > m \/ cont
    BY <1>7, <1>10
  <2>5. \/ priv'.dcnt > 0 /\ hw'.itbuf
        \/ priv'.dcnt = 0 /\ ~cont /\ ~hw'.itbuf
        \/ priv'.dcnt = -1 /\ cont /\ hw'.itbuf
    <3> HIDE DEF cont
    <3> QED BY <1>2, <1>6, <2>3, <2>4
  <2>6. priv'.ptr = msgs[priv'.cur].length + 1 - (IF priv'.dcnt = -1 THEN 0 ELSE priv'.dcnt)
    <3>1. priv'.ptr = s.p.ptr + m
      BY <1>4, <1>10
    <3>2. msgs[priv'.cur].length = s.p.ptr + s.p.dcnt - 1
      BY <1>2, <1>11
    <3> HIDE DEF cont
    <3> QED BY <1>2, <1>6, <2>3, <3>1, <3>2, SMTT(30)
  <2>7. priv'.ptr > 0
    BY <1>2, <1>4, <1>6, <1>10
  <2> HIDE DEF cont
  <2> QED BY <1>8, <1>10, <1>12, <1>13, <1>14, <2>1, <2>2, <2>5, <2>6, <2>7 DEF Writing
<1>16. Typed'
  <2>1. /\ IsPriv(priv') /\ IsHw(hw') /\ priv'.status \subseteq Bits /\ hw'.sr1 \subseteq Bits
        /\ hw'.mode \in Modes /\ priv'.check \in BOOLEAN
    BY <1>3, <1>4, <1>8, <1>10, <1>11 DEF IsState, Bits, Modes
  <2>2. priv'.branch \in Branches
    BY <1>11 DEF Branches
  <2>3. priv'.done \in BOOLEAN
    BY <1>1, <1>11 DEF Typed, ByteTypeOK
  <2>4. /\ priv'.dcnt \in Nat \union {-1} /\ priv'.ptr \in Nat
        /\ priv'.dcnt >= 0 => priv'.ptr + priv'.dcnt = msgs[priv'.cur].length + 1
    <3>1. priv'.ptr = s.p.ptr + m
          /\ priv'.dcnt = (IF s.p.dcnt = m /\ cont THEN -1 ELSE s.p.dcnt - m)
      BY <1>4, <1>10
    <3>2. msgs[priv'.cur].length = s.p.ptr + s.p.dcnt - 1
      BY <1>2, <1>11
    <3> DEFINE n == msgs[priv'.cur].length
    <3> HIDE DEF cont, n
    <3>3. n = s.p.ptr + s.p.dcnt - 1
      BY <3>2 DEF n
    <3>4. CASE s.p.dcnt = m /\ cont
      BY <1>2, <1>6, <3>1, <3>4
    <3>5. CASE ~(s.p.dcnt = m /\ cont)
      <4>1. priv'.dcnt = s.p.dcnt - m /\ priv'.ptr = s.p.ptr + m
        BY <3>1, <3>5
      <4>2. \A x, y \in Nat : \A z \in {1, 2} :
              z <= y => /\ y - z \in Nat /\ x + z \in Nat
                        /\ (x + z) + (y - z) = (x + y - 1) + 1
        OBVIOUS
      <4>3. /\ s.p.dcnt - m \in Nat /\ s.p.ptr + m \in Nat
            /\ (s.p.ptr + m) + (s.p.dcnt - m) = (s.p.ptr + s.p.dcnt - 1) + 1
        <5>1. s.p.ptr \in Nat /\ s.p.dcnt \in Nat /\ m \in {1, 2} /\ m <= s.p.dcnt
          BY <1>2, <1>6
        <5> QED BY <4>2, <5>1
      <4>4. priv'.ptr + priv'.dcnt = n + 1
        BY <3>3, <4>1, <4>3
      <4> QED BY <4>1, <4>3, <4>4 DEF n
    <3> QED BY <3>4, <3>5
  <2>5. /\ priv'.cur \in 0 .. Len(msgs) /\ priv'.msgc \in 0 .. Len(msgs)
        /\ priv'.msgv \in 0 .. Len(msgs) /\ priv'.msgv \in DOMAIN msgs
    BY <1>2, <1>11
  <2>6. DOMAIN buf' = DOMAIN buf /\ Prefixed'
    BY <1>10, <1>11 DEF Typed, Prefixed, Room
  <2> QED BY <1>10, <2>1, <2>2, <2>3, <2>4, <2>5, <2>6, IsrTyped
<1>17. WritesOn(s.p.cur, s.p.ptr, g.shift)
  <2>1. msgs' = msgs /\ wire' = wire /\ priv'.cur = s.p.cur /\ s.p.cur \in 1 .. Len(msgs)
        /\ priv'.ptr = s.p.ptr + m /\ hw' = r.h /\ s.p.ptr \in Nat \ {0}
    BY <1>2, <1>4, <1>5b, <1>10, <1>11
  <2>2. CASE g.shift # <<>>
    <3>1. m = 1
      BY <1>6, <2>2
    <3> QED BY <1>4, <2>1, <2>2, <3>1 DEF WritesOn
  <2>3. CASE g.shift = <<>> /\ m = 1
    BY <1>3, <1>4, <2>1, <2>3 DEF WritesOn
  <2>4. CASE g.shift = <<>> /\ m = 2
    BY <1>4, <2>1, <2>4 DEF WritesOn
  <2> QED BY <1>6, <2>2, <2>3, <2>4
<1> QED BY <1>15, <1>16, <1>17 DEF BytesInv, s, g

LEMMA AddressedWrite ==
  ASSUME Typed, Addressed, ~msgs[priv.cur].read,
         NEW b \in Branches, IsrBranch(b)
  PROVE  /\ BytesInv' /\ Writing' /\ WritesOn(priv.cur, 1, <<>>)
<1> DEFINE s == Run(b)
           g == ReadSr2(hw)
<1>1. /\ ~BetweenMessages(priv) /\ IsPriv(priv) /\ IsHw(hw) /\ Sound /\ hw.sr1 = {"ADDR"}
      /\ priv.cur > 0 /\ priv.dcnt \in Nat \ {0} /\ Placed
  <2>1. priv.dcnt \in Nat \ {0} /\ priv.cur > 0
    BY ListFacts DEF Addressed, Selecting, Sound, Placed
  <2> QED BY <2>1 DEF Addressed, Selecting, Sound, BetweenMessages, Typed
<1>2. /\ s.p = Taken(b) /\ s.p.check = priv.check
      /\ s.p.dcnt = priv.dcnt /\ s.p.cur = priv.cur /\ s.p.ptr = priv.ptr
  BY <1>1, RunIs
<1> HIDE DEF s
<1>3. b = "write"
  <2>1. BranchOf(s.p, {"ADDR"}) = b
    BY <1>1, <1>2, BranchRun
  <2>2. s.p.check /\ ~msgs[s.p.cur].read /\ s.p.dcnt # 0
    BY <1>1, <1>2 DEF Addressed, Selecting
  <2> QED BY <2>1, <2>2 DEF BranchOf, Current
<1>4. WriteReady(s, g)
  <2>1. /\ s.p.dcnt \in Nat \ {0} /\ s.p.ptr \in Nat /\ s.p.ptr > 0
        /\ s.p.ptr + s.p.dcnt = msgs[s.p.cur].length + 1 /\ ~msgs[s.p.cur].read
    BY <1>1, <1>2 DEF Addressed, Selecting
  <2>2. \A i \in DOMAIN msgs : buf[i] = Got(IF i < s.p.cur THEN Room(i) ELSE 0)
    BY <1>2 DEF Addressed, Selecting, Stored
  <2>3. ~hw.dr[2] /\ ~hw.start /\ ~hw.stop /\ ~hw.itbuf
    BY DEF Addressed, Selecting
  <2>4. /\ g.mode = "tx" /\ g.dr = <<>> /\ g.sr1 = {"TXE"}
    BY <1>1, <2>3, ReadSr2Is
  <2> HIDE DEF g
  <2> QED BY <1>1, <2>1, <2>2, <2>3, <2>4 DEF WriteReady
<1>5. g.shift = <<>> /\ s.p.ptr = 1
  BY <1>1, <1>2, ReadSr2Is DEF Addressed, Selecting
<1> QED BY <1>1, <1>2, <1>3, <1>4, <1>5, Writes DEF s, g

(* A run that writes the next byte of the message *)
LEMMA WritingMore ==
  ASSUME Typed, Writing, priv.dcnt > 0,
         NEW b \in Branches, IsrBranch(b)
  PROVE  /\ BytesInv' /\ Writing' /\ WritesOn(priv.cur, priv.ptr, hw.shift) /\ hw.dr = <<>>
<1> DEFINE s == Run(b)
           g == ReadSr2(hw)
<1>1. /\ ~BetweenMessages(priv) /\ IsPriv(priv) /\ IsHw(hw) /\ Sound /\ priv.cur > 0
      /\ priv.dcnt \in Nat \ {0} /\ Placed /\ hw.itbuf
  <2>1. priv.dcnt \in Nat /\ priv.dcnt # -1
    BY DEF Typed, ByteTypeOK
  <2> QED BY <2>1 DEF Writing, Sound, BetweenMessages, Typed
<1>2. /\ s.p = Taken(b) /\ s.p.check = priv.check
      /\ s.p.dcnt = priv.dcnt /\ s.p.cur = priv.cur /\ s.p.ptr = priv.ptr
  BY <1>1, RunIs
<1>3. "TXE" \in hw.sr1 /\ hw.sr1 \subseteq {"TXE", "BTF"}
  BY BranchRun DEF IrqPending, ErrorBits, Writing
<1> HIDE DEF s
<1>4. b = "write"
  <2>1. BranchOf(s.p, hw.sr1) = b
    BY <1>2, BranchRun
  <2>2. ~s.p.check /\ ~msgs[s.p.cur].read /\ s.p.dcnt # 0
    BY <1>1, <1>2 DEF Writing
  <2> QED BY <1>3, <2>1, <2>2 DEF BranchOf, Current
<1>5. WriteReady(s, g)
  <2>1. /\ s.p.dcnt \in Nat \ {0} /\ s.p.ptr \in Nat /\ s.p.ptr > 0
        /\ s.p.ptr + s.p.dcnt = msgs[s.p.cur].length + 1 /\ ~msgs[s.p.cur].read
    <3>1. priv.ptr \in Nat /\ priv.ptr + priv.dcnt = msgs[priv.cur].length + 1
      BY <1>1 DEF Typed, ByteTypeOK, Current, Placed
    <3>2. priv.ptr > 0
      BY <3>1 DEF Writing
    <3> QED BY <1>1, <1>2, <3>1, <3>2 DEF Writing
  <2>2. \A i \in DOMAIN msgs : buf[i] = Got(IF i < s.p.cur THEN Room(i) ELSE 0)
    BY <1>2 DEF Writing, Stored
  <2>3. ~hw.start /\ ~hw.stop
    BY DEF Writing
  <2>4. g.mode = "tx" /\ g.dr = <<>> /\ g.sr1 = hw.sr1
    BY <1>1, <1>3, ReadSr2Is DEF Writing
  <2> HIDE DEF g
  <2> QED BY <1>1, <1>3, <2>1, <2>2, <2>3, <2>4 DEF WriteReady
<1>6. g.shift = hw.shift /\ hw.dr = <<>>
  BY <1>1, <1>3, ReadSr2Is DEF Writing
<1> QED BY <1>1, <1>2, <1>4, <1>5, <1>6, Writes DEF s, g

(* A run that goes on with a message that continues the one before *)
LEMMA WritingNext ==
  ASSUME Typed, Writing, priv.dcnt = -1,
         NEW b \in Branches, IsrBranch(b)
  PROVE  /\ BytesInv' /\ Writing' /\ WritesOn(priv.cur + 1, 1, hw.shift) /\ hw.dr = <<>>
         /\ msgs[priv.cur + 1].nostart
<1> DEFINE s == Run(b)
           g == ReadSr2(hw)
<1>1. /\ BetweenMessages(priv) /\ IsPriv(priv) /\ IsHw(hw) /\ Sound /\ priv.cur > 0
      /\ Placed /\ hw.itbuf /\ NextContinues(priv)
  BY DEF Writing, Sound, BetweenMessages, NextContinues, Typed
<1>2. /\ s.p = Taken(b) /\ s.p.check = priv.check
      /\ s.p.dcnt = msgs[priv.msgv].length /\ s.p.cur = priv.msgv /\ s.p.ptr = 1
  BY <1>1, RunIs
<1>3. "TXE" \in hw.sr1 /\ hw.sr1 \subseteq {"TXE", "BTF"}
  BY BranchRun DEF IrqPending, ErrorBits, Writing
<1> HIDE DEF s
<1>4. /\ priv.cur \in 1 .. Len(msgs) - 1 /\ priv.msgv = priv.cur + 1
      /\ DOMAIN msgs = 1 .. Len(msgs) /\ Len(msgs) \in Nat
      /\ msgs[priv.msgv].length \in Nat \ {0} /\ ~msgs[priv.msgv].read /\ ~msgs[priv.cur].read
  <2>1. /\ Len(msgs) \in Nat \ {0} /\ DOMAIN msgs = 1 .. Len(msgs)
    BY <1>1, ListFacts DEF Placed
  <2>2. priv.cur \in 1 .. Len(msgs) - 1 /\ priv.msgv = priv.cur + 1
    BY <1>1, <2>1 DEF Placed, NextContinues
  <2>3. msgs[priv.cur + 1].nostart
    BY <1>1, <2>2 DEF NextContinues, Msgv
  <2>4. priv.cur + 1 \in 1 .. Len(msgs)
    BY <2>1, <2>2
  <2> QED BY <1>1, <2>1, <2>2, <2>3, <2>4, ListFacts DEF Placed
<1>5. b = "write"
  <2>1. BranchOf(s.p, hw.sr1) = b
    BY <1>2, BranchRun
  <2>2. ~s.p.check /\ ~msgs[s.p.cur].read /\ s.p.dcnt # 0
    BY <1>2, <1>4 DEF Writing
  <2> QED BY <1>3, <2>1, <2>2 DEF BranchOf, Current
<1>6. WriteReady(s, g)
  <2>1. /\ s.p.dcnt \in Nat \ {0} /\ s.p.ptr \in Nat /\ s.p.ptr > 0
        /\ s.p.ptr + s.p.dcnt = msgs[s.p.cur].length + 1 /\ ~msgs[s.p.cur].read
    BY <1>2, <1>4
  <2>2. \A i \in DOMAIN msgs : buf[i] = Got(IF i < s.p.cur THEN Room(i) ELSE 0)
    <3>1. Room(priv.cur) = 0
      BY <1>4 DEF Room
    <3> QED BY <1>2, <1>4, <3>1 DEF Writing, Stored
  <2>3. ~hw.start /\ ~hw.stop
    BY DEF Writing
  <2>4. g.mode = "tx" /\ g.dr = <<>> /\ g.sr1 = hw.sr1
    BY <1>1, <1>3, ReadSr2Is DEF Writing
  <2> HIDE DEF g
  <2> QED BY <1>1, <1>3, <2>1, <2>2, <2>3, <2>4 DEF WriteReady
<1>7. g.shift = hw.shift /\ hw.dr = <<>>
  BY <1>1, <1>3, ReadSr2Is DEF Writing
<1>8. msgs[priv.cur + 1].nostart
  BY <1>1, <1>4 DEF NextContinues, Msgv
<1> QED BY <1>1, <1>2, <1>4, <1>5, <1>6, <1>7, <1>8, Writes DEF s, g

(* A run behind the last byte of a message *)
LEMMA WritingEnd ==
  ASSUME Typed, Writing, priv.dcnt = 0,
         NEW b \in Branches, IsrBranch(b)
  PROVE  /\ BytesInv' /\ msgs' = msgs /\ wire' = wire /\ priv'.cur = priv.cur
         /\ hw.shift = <<>> /\ hw.dr = <<>>
         /\ \/ priv'.done /\ priv.msgc = 0 /\ hw'.stop
            \/ Starting' /\ priv.msgc > 0
            \/ Writing' /\ priv'.ptr = priv.ptr /\ hw'.shift = <<>> /\ hw'.dr = <<>>
<1> DEFINE s == Run(b)
           r == WriteEnd(s)
           m == msgs[s.p.msgv]
           go == s.p.msgc # 0 /\ (m.read \/ (~m.nostart /\ ~m.nostop))
<1>1. /\ ~BetweenMessages(priv) /\ IsPriv(priv) /\ IsHw(hw) /\ Sound /\ priv.cur > 0
      /\ Placed /\ ~hw.itbuf /\ ~NextContinues(priv)
  BY DEF Writing, Sound, BetweenMessages, Typed
<1>2. /\ IsState(s) /\ s.p = Taken(b) /\ s.h = hw /\ s.b = buf
      /\ s.p.status = hw.sr1 /\ s.p.branch = b /\ s.p.check = priv.check
      /\ s.p.dcnt = priv.dcnt /\ s.p.cur = priv.cur /\ s.p.ptr = priv.ptr
      /\ s.p.done = priv.done /\ s.p.msgc = priv.msgc /\ s.p.msgv = priv.msgv
  BY <1>1, RunIs DEF IsState
<1>3. /\ s.p.cur \in 1 .. Len(msgs) /\ s.p.msgc = Len(msgs) - s.p.cur /\ s.p.msgc \in Nat
      /\ s.p.msgv = (IF s.p.msgc = 0 THEN s.p.cur ELSE s.p.cur + 1)
      /\ s.p.msgv \in DOMAIN msgs /\ ~s.p.done
      /\ Len(msgs) \in Nat \ {0} /\ DOMAIN msgs = 1 .. Len(msgs)
  BY <1>1, <1>2, PlacedStep
<1>4. "BTF" \in hw.sr1 /\ hw.sr1 \subseteq {"TXE", "BTF"} /\ hw.shift = <<>> /\ hw.mode = "tx"
      /\ ~hw.start /\ ~hw.stop
  BY <1>1, BranchRun DEF IrqPending, ErrorBits, Writing
<1> HIDE DEF s
<1>5. b = "end"
  <2>1. BranchOf(s.p, hw.sr1) = b
    BY <1>2, BranchRun
  <2>2. ~s.p.check /\ ~msgs[s.p.cur].read /\ s.p.dcnt = 0
    BY <1>1, <1>2 DEF Writing
  <2> QED BY <1>4, <2>1, <2>2 DEF BranchOf, Current
<1>6. r = Branch(b, Run(b))
  BY <1>5 DEF Branch, s
<1>7. ~Err(hw.sr1)
  BY <1>4 DEF Err, ErrorBits
<1>8. "ADDR" \notin s.h.sr1 /\ s.h.mode = "tx"
  BY <1>2, <1>4
<1>9. /\ s.p.msgc = 0 =>
           /\ IsState(r) /\ r.b = s.b /\ SamePlace(s.p, r.p)
           /\ r.p.ptr = s.p.ptr /\ r.p.check = s.p.check /\ r.p.dcnt = s.p.dcnt - 1
           /\ r.h = stm32_i2c_sendstop(s.h)
      /\ go =>
           /\ IsState(r) /\ r.b = s.b /\ SamePlace(s.p, r.p)
           /\ r.p.ptr = s.p.ptr /\ r.p.check = s.p.check /\ r.p.dcnt = s.p.dcnt - 1
           /\ r.h = TakeDr(stm32_i2c_sendstart(s.h))
      /\ s.p.msgc # 0 /\ ~go => r = s
  BY <1>2, <1>8, WriteEndIs
<1> HIDE DEF r
<1>10. priv.ptr \in Nat /\ {priv.check, priv.done} \subseteq BOOLEAN
       /\ priv.ptr + priv.dcnt = msgs[priv.cur].length + 1
       /\ priv.cur \in 0 .. Len(msgs) /\ priv.msgc \in 0 .. Len(msgs)
       /\ priv.msgv \in 0 .. Len(msgs) /\ priv.msgv \in DOMAIN msgs
       /\ 0 \in 0 .. Len(msgs)
  BY <1>1 DEF Typed, ByteTypeOK, Placed, Current
<1>11. hw.sr1 \subseteq Bits /\ b \in Branches \union {"none", "state"}
  BY <1>4 DEF Bits
<1>12. Prefixed /\ \A i \in DOMAIN msgs : buf[i] = Got(IF i < priv.cur THEN Room(i) ELSE 0)
  BY DEF Typed, Writing, Stored
<1>13. Room(priv.cur) = 0 /\ ~msgs[priv.cur].read /\ ~priv.check
  BY DEF Writing, Room
<1>17. hw.dr = <<>>
  BY <1>4 DEF Writing
<1>14. CASE s.p.msgc = 0
  <2>1. /\ IsState(r) /\ r.b = s.b /\ SamePlace(s.p, r.p)
        /\ r.p.ptr = s.p.ptr /\ r.p.check = s.p.check /\ r.p.dcnt = -1
        /\ r.h = stm32_i2c_sendstop(s.h)
    BY <1>2, <1>9, <1>14
  <2>2. /\ r.h.mode = "tx" /\ r.h.sr1 = hw.sr1 /\ r.h.shift = <<>> /\ r.h.start = hw.start
        /\ r.h.stop = TRUE
    <3>1. LET h == stm32_i2c_sendstop(s.h)
          IN /\ h.mode = "tx" /\ h.sr1 = hw.sr1 /\ h.shift = <<>> /\ h.start = hw.start
             /\ h.stop = TRUE
      BY <1>1, <1>2, <1>4, SendStopIs
    <3> QED BY <2>1, <3>1
  <2>3. Over(r.p)
    BY <1>14, <2>1 DEF Over, SamePlace
  <2>4. /\ IsPriv(priv') /\ priv'.done = TRUE /\ priv'.dcnt = r.p.dcnt
        /\ priv'.msgc = r.p.msgc /\ priv'.msgv = r.p.msgv /\ priv'.cur = r.p.cur
        /\ priv'.ptr = r.p.ptr /\ priv'.check = r.p.check /\ priv'.status = r.p.status
        /\ priv'.branch = r.p.branch
        /\ IsHw(hw') /\ hw'.mode = r.h.mode /\ hw'.sr1 = r.h.sr1
        /\ hw'.shift = r.h.shift /\ hw'.start = r.h.start /\ hw'.stop = r.h.stop
        /\ hw'.itevt = FALSE /\ hw'.itbuf = FALSE
        /\ buf' = r.b /\ msgs' = msgs /\ wire' = wire /\ faulted' = faulted
    BY <1>6, <1>7, <2>1, <2>3, Ends
  <2>5. /\ priv'.dcnt = -1 /\ priv'.msgc = 0 /\ priv'.msgv = priv.msgv /\ priv'.cur = priv.cur
        /\ priv'.ptr = priv.ptr /\ priv'.check = priv.check /\ priv'.status = hw.sr1
        /\ priv'.branch = b /\ buf' = buf
    BY <1>2, <1>14, <2>1, <2>4 DEF SamePlace
  <2>6. \A i \in DOMAIN msgs : buf[i] = Got(Room(i))
    <3>1. \A i \in DOMAIN msgs : i < priv.cur \/ i = priv.cur
      BY <1>2, <1>3, <1>14
    <3> QED BY <1>12, <1>13, <3>1
  <2>7. Rest'
    <3>1. Quiet' /\ hw'.sr1 \subseteq {"TXE", "BTF"} /\ ~hw'.start /\ hw'.stop
      BY <1>4, <2>2, <2>4 DEF Quiet
    <3>2. \A i \in DOMAIN msgs' : buf'[i] = Got(Room(i)')
      BY <2>4, <2>5, <2>6 DEF Room
    <3>3. ~faulted' /\ ~Err(priv'.status) /\ priv'.branch \notin {"unknown", "state"}
      BY <1>1, <1>5, <1>7, <2>4, <2>5 DEF Sound
    <3> QED BY <1>13, <2>4, <2>5, <3>1, <3>2, <3>3 DEF Rest
  <2>8. Typed'
    <3>1. /\ IsPriv(priv') /\ IsHw(hw') /\ priv'.status \subseteq Bits /\ hw'.sr1 \subseteq Bits
          /\ hw'.mode \in Modes /\ priv'.check \in BOOLEAN /\ priv'.done \in BOOLEAN
      BY <1>10, <1>11, <2>2, <2>4, <2>5 DEF Modes
    <3>2. /\ priv'.dcnt \in Nat \union {-1} /\ priv'.ptr \in Nat
          /\ priv'.cur \in 0 .. Len(msgs) /\ priv'.msgc \in 0 .. Len(msgs)
          /\ priv'.msgv \in 0 .. Len(msgs)
      BY <1>10, <2>5
    <3>3. DOMAIN buf' = DOMAIN buf /\ Prefixed'
      BY <1>12, <2>4, <2>5 DEF Prefixed, Room
    <3> QED BY <1>11, <2>4, <2>5, <3>1, <3>2, <3>3, IsrTyped
  <2> QED BY <1>2, <1>4, <1>14, <1>17, <2>2, <2>4, <2>5, <2>7, <2>8 DEF BytesInv
<1>15. CASE go
  <2>1. /\ IsState(r) /\ r.b = s.b /\ SamePlace(s.p, r.p) /\ s.p.msgc > 0
        /\ r.p.ptr = s.p.ptr /\ r.p.check = s.p.check /\ r.p.dcnt = -1
        /\ r.h = TakeDr(stm32_i2c_sendstart(s.h))
    BY <1>2, <1>3, <1>9, <1>15
  <2>2. /\ r.h.mode = "tx" /\ r.h.sr1 = hw.sr1 \ {"RXNE", "BTF"} /\ r.h.shift = <<>>
        /\ r.h.start = TRUE /\ r.h.stop = hw.stop /\ r.h.itevt = hw.itevt
        /\ r.h.itbuf = hw.itbuf
    <3>1. LET h == stm32_i2c_sendstart(s.h)
          IN /\ IsHw(h) /\ h.mode = "tx" /\ h.sr1 = hw.sr1 /\ h.shift = <<>> /\ h.start = TRUE
             /\ h.stop = hw.stop /\ h.itevt = hw.itevt /\ h.itbuf = hw.itbuf
      BY <1>1, <1>2, <1>4, SendStartIs
    <3> QED BY <2>1, <3>1, TakeDrIs
  <2>3. ~Over(r.p)
    BY <1>3, <2>1 DEF Over, SamePlace
  <2>4. /\ priv' = r.p /\ hw' = r.h /\ buf' = r.b /\ msgs' = msgs /\ wire' = wire
        /\ faulted' = faulted
    BY <1>6, <1>7, <2>3, GoesOn
  <2>5. /\ priv'.dcnt = -1 /\ priv'.msgc = priv.msgc /\ priv'.msgv = priv.msgv
        /\ priv'.cur = priv.cur /\ priv'.done = priv.done
        /\ priv'.ptr = priv.ptr /\ priv'.check = priv.check /\ priv'.status = hw.sr1
        /\ priv'.branch = b /\ buf' = buf
    BY <1>2, <2>1, <2>4 DEF SamePlace
  <2>6. Starting'
    <3>1. Placed'
      BY <1>1, <2>2, <2>4, <2>5 DEF Placed
    <3>2. Sound'
      BY <1>1, <1>5, <1>7, <2>4, <2>5, <3>1 DEF Sound
    <3>3. ~msgs[priv.msgv].nostart
      BY <1>1, <1>2, <2>1 DEF NextContinues, Msgv
    <3>4. Stored(Room(priv.cur))'
      <4>1. Room(priv.cur)' = 0
        BY <1>13, <2>4, <2>5 DEF Room
      <4> QED BY <1>12, <2>4, <2>5, <4>1 DEF Stored, Room
    <3>5. Quiet' /\ hw'.sr1 \subseteq {"TXE"} /\ hw'.start /\ ~hw'.stop /\ ~hw'.itbuf
      BY <1>1, <1>4, <2>2, <2>4 DEF Quiet
    <3> QED BY <1>2, <1>13, <2>1, <2>4, <2>5, <3>2, <3>3, <3>4, <3>5 DEF Starting, Due
  <2>7. Typed'
    <3>1. /\ IsPriv(priv') /\ IsHw(hw') /\ priv'.status \subseteq Bits /\ hw'.sr1 \subseteq Bits
          /\ hw'.mode \in Modes /\ priv'.check \in BOOLEAN /\ priv'.done \in BOOLEAN
      BY <1>10, <1>11, <2>1, <2>2, <2>4, <2>5 DEF Modes, IsState
    <3>2. /\ priv'.dcnt \in Nat \union {-1} /\ priv'.ptr \in Nat
          /\ priv'.cur \in 0 .. Len(msgs) /\ priv'.msgc \in 0 .. Len(msgs)
          /\ priv'.msgv \in 0 .. Len(msgs) /\ priv'.msgv \in DOMAIN msgs /\ ~(priv'.dcnt >= 0)
      BY <1>10, <2>5
    <3>3. DOMAIN buf' = DOMAIN buf /\ Prefixed'
      BY <1>12, <2>4, <2>5 DEF Prefixed, Room
    <3> QED BY <1>11, <2>4, <2>5, <3>1, <3>2, <3>3, IsrTyped
  <2> QED BY <1>2, <1>4, <1>17, <2>1, <2>4, <2>5, <2>6, <2>7 DEF BytesInv
<1>16. CASE s.p.msgc # 0 /\ ~go
  <2>1. r = s
    BY <1>9, <1>16
  <2>2. ~Over(r.p)
    BY <1>16, <2>1 DEF Over
  <2>3. /\ priv' = s.p /\ hw' = hw /\ buf' = buf /\ msgs' = msgs /\ wire' = wire
        /\ faulted' = faulted
    BY <1>2, <1>6, <1>7, <2>1, <2>2, GoesOn
  <2>4. /\ priv'.dcnt = priv.dcnt /\ priv'.msgc = priv.msgc /\ priv'.msgv = priv.msgv
        /\ priv'.cur = priv.cur /\ priv'.done = priv.done
        /\ priv'.ptr = priv.ptr /\ priv'.check = priv.check /\ priv'.status = hw.sr1
        /\ priv'.branch = b
    BY <1>2, <2>3
  <2>5. Writing'
    <3>1. Placed'
      BY <1>1, <2>3, <2>4 DEF Placed
    <3>2. Sound'
      BY <1>1, <1>5, <1>7, <2>3, <2>4, <3>1 DEF Sound
    <3>3. Stored(0)'
      BY <1>12, <2>3, <2>4 DEF Stored, Room
    <3> QED BY <1>1, <2>3, <2>4, <3>2, <3>3 DEF Writing, NextContinues, Msgv
  <2>6. Typed'
    <3>1. /\ IsPriv(priv') /\ IsHw(hw') /\ priv'.status \subseteq Bits /\ hw'.sr1 \subseteq Bits
          /\ hw'.mode \in Modes /\ priv'.check \in BOOLEAN /\ priv'.done \in BOOLEAN
      BY <1>1, <1>2, <1>4, <1>10, <1>11, <2>3, <2>4 DEF Modes, IsState
    <3>2. /\ priv'.dcnt \in Nat \union {-1} /\ priv'.ptr \in Nat
          /\ priv'.cur \in 0 .. Len(msgs) /\ priv'.msgc \in 0 .. Len(msgs)
          /\ priv'.msgv \in 0 .. Len(msgs) /\ priv'.msgv \in DOMAIN msgs
          /\ priv'.ptr + priv'.dcnt = msgs[priv'.cur].length + 1
      BY <1>10, <2>4
    <3>3. DOMAIN buf' = DOMAIN buf /\ Prefixed'
      BY <1>12, <2>3 DEF Prefixed, Room
    <3> QED BY <1>11, <2>3, <2>4, <3>1, <3>2, <3>3, IsrTyped
  <2> QED BY <1>4, <1>17, <2>3, <2>4, <2>5, <2>6 DEF BytesInv
<1> HIDE DEF go
<1> QED BY <1>14, <1>15, <1>16 DEF go

(* What a run finds that reads *)
LEMMA ReadingRun ==
  ASSUME Typed, Reading, NEW b \in Branches, IsrBranch(b)
  PROVE  LET s == Run(b)
             n == msgs[priv.cur].length
         IN /\ b = "read" /\ ~Err(hw.sr1) /\ Branch(b, Run(b)) = ReadByte(s)
            /\ IsState(s) /\ s.h = hw /\ s.b = buf
            /\ s.p.status = hw.sr1 /\ s.p.branch = b /\ s.p.check = priv.check
            /\ s.p.dcnt = priv.dcnt /\ s.p.cur = priv.cur /\ s.p.ptr = priv.ptr
            /\ s.p.done = priv.done /\ s.p.msgc = priv.msgc /\ s.p.msgv = priv.msgv
            /\ "RXNE" \in hw.sr1 /\ "ADDR" \notin hw.sr1
            /\ ~hw.itbuf => hw.shift # <<>>
            /\ n \in Nat \ {0} /\ priv.dcnt \in 1 .. n /\ hw.k \in Nat
            /\ priv.cur \in DOMAIN msgs /\ DOMAIN buf = DOMAIN msgs
            /\ buf[priv.cur] = Got(n - priv.dcnt)
            /\ hw.dr = <<n - priv.dcnt + 1>>
            /\ Unread = (IF hw.shift # <<>> THEN 2 ELSE 1)
            /\ hw.k = n - priv.dcnt + Unread
            /\ hw.shift # <<>> => hw.shift = <<n - priv.dcnt + 2>>
<1> DEFINE s == Run(b)
           n == msgs[priv.cur].length
<1>1. Sound /\ Placed /\ IsPriv(priv) /\ IsHw(hw) /\ msgs \in Lists /\ priv.cur > 0
  BY DEF Reading, Sound, Placed, Typed
<1>2. n \in Nat \ {0} /\ priv.cur \in DOMAIN msgs
  BY <1>1, ListFacts DEF Placed
<1>3. priv.dcnt \in 1 .. n
  BY <1>2 DEF Reading, Single, Several
<1>4. ~BetweenMessages(priv)
  BY <1>2, <1>3 DEF BetweenMessages
<1>5. /\ IsState(s) /\ s.h = hw /\ s.b = buf /\ s.p = Taken(b)
      /\ s.p.status = hw.sr1 /\ s.p.branch = b /\ s.p.check = priv.check
      /\ s.p.dcnt = priv.dcnt /\ s.p.cur = priv.cur /\ s.p.ptr = priv.ptr
      /\ s.p.done = priv.done /\ s.p.msgc = priv.msgc /\ s.p.msgv = priv.msgv
  BY <1>1, <1>4, RunIs DEF IsState
<1>6. /\ "RXNE" \in hw.sr1 /\ hw.sr1 \subseteq {"RXNE", "BTF"}
      /\ ~hw.itbuf => hw.shift # <<>>
  BY BranchRun DEF IrqPending, ErrorBits, Reading
<1> HIDE DEF s
<1>7. b = "read"
  <2>1. BranchOf(s.p, hw.sr1) = b
    BY <1>5, BranchRun
  <2>2. ~s.p.check /\ msgs[s.p.cur].read
    BY <1>5 DEF Reading
  <2> QED BY <1>6, <2>1, <2>2 DEF BranchOf, Current
<1>8. Unread = (IF hw.shift # <<>> THEN 2 ELSE 1)
  BY <1>6 DEF Unread
<1>9. hw.k = n - priv.dcnt + Unread /\ hw.k \in Nat
  <2>1. hw.k = n - priv.dcnt + Unread
    BY DEF Reading
  <2>2. Unread \in {1, 2}
    BY <1>8
  <2> HIDE DEF n
  <2> QED BY <1>2, <1>3, <2>1, <2>2
<1>10. hw.dr = <<n - priv.dcnt + 1>>
  <2>1. hw.dr = <<hw.k - Unread + 1>>
    BY <1>6 DEF Reading
  <2>2. Unread \in {1, 2}
    BY <1>8
  <2>3. hw.k - Unread + 1 = n - priv.dcnt + 1
    <3> HIDE DEF n
    <3> QED BY <1>2, <1>3, <1>9, <2>2
  <2> QED BY <2>1, <2>3
<1>11. hw.shift # <<>> => hw.shift = <<n - priv.dcnt + 2>>
  <2>1. hw.shift # <<>> => hw.shift = <<hw.k>>
    BY DEF Reading
  <2>2. hw.shift # <<>> => hw.k = n - priv.dcnt + 2
    BY <1>8, <1>9
  <2> QED BY <2>1, <2>2
<1>12. DOMAIN buf = DOMAIN msgs /\ buf[priv.cur] = Got(n - priv.dcnt)
  <2>1. DOMAIN buf = DOMAIN msgs /\ Stored(n - priv.dcnt)
    BY DEF Typed, Reading
  <2>2. ~(priv.cur < priv.cur)
    BY <1>1 DEF Placed
  <2> QED BY <1>2, <2>1, <2>2 DEF Stored
<1>13. ~Err(hw.sr1)
  BY <1>6 DEF Err, ErrorBits
<1>14. Branch(b, Run(b)) = ReadByte(s)
  BY <1>7 DEF Branch, s
<1>15. "ADDR" \notin hw.sr1
  BY <1>6
<1> HIDE DEF n
<1> QED BY <1>2, <1>3, <1>5, <1>6, <1>7, <1>8, <1>9, <1>10, <1>11, <1>12, <1>13, <1>14, <1>15
     DEF s, n

LEMMA ReadingMore ==
  ASSUME Typed, Reading, priv.dcnt > 2,
         NEW b \in Branches, IsrBranch(b)
  PROVE  /\ BytesInv' /\ Reading' /\ msgs' = msgs /\ wire' = wire /\ priv'.cur = priv.cur
         /\ hw.mode = "rx" /\ hw'.mode = "rx" /\ hw'.k = hw.k
<1> DEFINE s == Run(b)
           n == msgs[priv.cur].length
           r == ReadByte(s)
           d == priv.dcnt
<1>1. /\ b = "read" /\ ~Err(hw.sr1) /\ Branch(b, Run(b)) = r
      /\ IsState(s) /\ s.h = hw /\ s.b = buf
      /\ s.p.status = hw.sr1 /\ s.p.branch = b /\ s.p.check = priv.check
      /\ s.p.dcnt = d /\ s.p.cur = priv.cur /\ s.p.ptr = priv.ptr
      /\ s.p.done = priv.done /\ s.p.msgc = priv.msgc /\ s.p.msgv = priv.msgv
      /\ "RXNE" \in hw.sr1 /\ "ADDR" \notin hw.sr1
      /\ ~hw.itbuf => hw.shift # <<>>
      /\ n \in Nat \ {0} /\ d \in 1 .. n /\ hw.k \in Nat
      /\ priv.cur \in DOMAIN msgs /\ DOMAIN buf = DOMAIN msgs
      /\ buf[priv.cur] = Got(n - d)
      /\ hw.dr = <<n - d + 1>>
      /\ Unread = (IF hw.shift # <<>> THEN 2 ELSE 1)
      /\ hw.k = n - d + Unread
      /\ hw.shift # <<>> => hw.shift = <<n - d + 2>>
  BY ReadingRun
<1> HIDE DEF s
<1>2. /\ Several /\ hw.mode = "rx" /\ ~hw.stop /\ ~hw.start /\ ~priv.check
      /\ hw.sr1 \subseteq {"RXNE", "BTF"} /\ Sound /\ Placed
      /\ ("BTF" \in hw.sr1 <=> hw.shift # <<>>) /\ (hw.itbuf <=> d > 3) /\ hw.ack
  BY DEF Reading, Several, Single, Sound
<1>3. /\ IsState(r) /\ r.b = [s.b EXCEPT ![s.p.cur] = Append(@, s.h.dr)]
      /\ SamePlace(s.p, r.p) /\ r.p.check = s.p.check /\ r.p.ptr = s.p.ptr + 1
      /\ r.p.dcnt = (IF s.p.dcnt = 1 THEN -1 ELSE s.p.dcnt - 1)
      /\ r.h.mode = s.h.mode /\ r.h.pos = s.h.pos /\ r.h.start = s.h.start
      /\ r.h.stop = s.h.stop /\ r.h.itevt = s.h.itevt /\ r.h.k = s.h.k
      /\ r.h.nacked = s.h.nacked
      /\ r.h.ack = (IF s.p.dcnt = 3 THEN FALSE ELSE s.h.ack)
      /\ (r.h.itbuf <=> s.h.itbuf /\ s.p.dcnt >= 5)
      /\ s.h.mode = "rx" /\ s.h.shift # <<>> =>
           r.h.dr = s.h.shift /\ r.h.shift = <<>> /\ r.h.sr1 = s.h.sr1 \ {"BTF"}
      /\ ~(s.h.mode = "rx" /\ s.h.shift # <<>>) =>
           r.h.dr = s.h.dr /\ r.h.shift = s.h.shift /\ r.h.sr1 = s.h.sr1 \ {"RXNE", "BTF"}
  <2>1. "ADDR" \notin s.h.sr1 /\ s.p.dcnt \in Nat \ {0, 2} /\ IsState(s)
    BY <1>1
  <2> HIDE DEF r
  <2> QED BY <2>1, ReadOneIs DEF r
<1> HIDE DEF r, n
<1>4. /\ r.p.dcnt = d - 1 /\ r.p.check = FALSE /\ r.p.ptr = priv.ptr + 1 /\ r.p.cur = priv.cur
      /\ r.p.msgc = priv.msgc /\ r.p.msgv = priv.msgv /\ r.p.done = priv.done
      /\ r.p.status = hw.sr1 /\ r.p.branch = "read"
      /\ r.b = [buf EXCEPT ![priv.cur] = Append(@, hw.dr)]
  <2>1. priv.check = FALSE
    BY <1>2 DEF Typed, ByteTypeOK
  <2>2. r.p.dcnt = d - 1
    <3>1. s.p.dcnt = d /\ d # 1
      BY <1>1
    <3> QED BY <1>3, <3>1
  <2> QED BY <1>1, <1>3, <2>1, <2>2 DEF SamePlace
<1>5. /\ r.h.mode = "rx" /\ r.h.pos = hw.pos /\ ~r.h.start /\ ~r.h.stop
      /\ r.h.itevt = hw.itevt /\ r.h.k = hw.k /\ r.h.nacked = hw.nacked
      /\ (r.h.ack <=> d - 1 > 2) /\ (r.h.itbuf <=> d - 1 > 3)
  <2>1. r.h.ack = (IF d = 3 THEN FALSE ELSE hw.ack)
    BY <1>1, <1>3
  <2>2. r.h.itbuf <=> hw.itbuf /\ d >= 5
    BY <1>1, <1>3
  <2>3. (d = 3 <=> ~(d - 1 > 2)) /\ (d > 3 /\ d >= 5 <=> d - 1 > 3)
    BY <1>1
  <2>4. r.h.ack <=> d - 1 > 2
    BY <1>2, <2>1, <2>3
  <2>5. r.h.itbuf <=> d - 1 > 3
    BY <1>2, <2>2, <2>3
  <2> QED BY <1>1, <1>2, <1>3, <2>4, <2>5
<1>6. /\ priv' = r.p /\ hw' = r.h /\ buf' = r.b /\ msgs' = msgs /\ wire' = wire
      /\ faulted' = faulted
  <2>1. ~Over(r.p)
    BY <1>1, <1>4 DEF Over
  <2> QED BY <1>1, <2>1, GoesOn
<1>7. /\ hw'.shift = <<>> /\ hw'.sr1 \subseteq {"RXNE"}
      /\ Unread' = Unread - 1
      /\ "RXNE" \in hw'.sr1 <=> hw.shift # <<>>
      /\ hw.shift # <<>> => hw'.dr = <<n - d + 2>>
  <2>1. CASE hw.shift # <<>>
    <3>1. hw'.shift = <<>> /\ hw'.sr1 = {"RXNE"} /\ hw'.dr = hw.shift
      BY <1>1, <1>2, <1>3, <1>6, <2>1
    <3>2. Unread' = 1
      BY <3>1 DEF Unread
    <3> QED BY <1>1, <2>1, <3>1, <3>2
  <2>2. CASE hw.shift = <<>>
    <3>1. hw'.shift = <<>> /\ hw'.sr1 = {}
      BY <1>1, <1>2, <1>3, <1>6, <2>2
    <3>2. Unread' = 0
      BY <3>1 DEF Unread
    <3> QED BY <1>1, <2>2, <3>1, <3>2
  <2> QED BY <2>1, <2>2
<1>8. buf'[priv.cur] = Got(n - d + 1) /\ DOMAIN buf' = DOMAIN buf
      /\ \A i \in DOMAIN msgs : i # priv.cur => buf'[i] = buf[i]
  <2>1. n - d \in Nat
    BY <1>1
  <2>2. buf' = [buf EXCEPT ![priv.cur] = Append(Got(n - d), <<n - d + 1>>)]
    BY <1>1, <1>4, <1>6
  <2>3. Append(Got(n - d), <<n - d + 1>>) = Got(n - d + 1)
    BY <2>1, GotIs
  <2> QED BY <1>1, <2>2, <2>3
<1>9. n' = n /\ priv'.cur = priv.cur /\ n - (d - 1) = n - d + 1
  BY <1>1, <1>4, <1>6 DEF n
<1>10. Stored(msgs[priv.cur].length - priv.dcnt)'
  <2>1. Stored(n - d)
    BY DEF Reading, n
  <2>2. ASSUME NEW i \in DOMAIN msgs
        PROVE  buf'[i] = Got(IF i < priv.cur THEN Room(i) ELSE IF i = priv.cur THEN n - d + 1 ELSE 0)
    <3>1. CASE i = priv.cur
      <4>1. ~(i < priv.cur)
        BY <1>2, <3>1 DEF Placed
      <4> QED BY <1>8, <3>1, <4>1
    <3>2. CASE i # priv.cur
      BY <1>8, <2>1, <3>2 DEF Stored
    <3> QED BY <3>1, <3>2
  <2>3. \A i : Room(i)' = Room(i)
    BY <1>6 DEF Room
  <2>4. (msgs[priv.cur].length - priv.dcnt)' = n - d + 1
    BY <1>4, <1>6, <1>9 DEF n
  <2> HIDE DEF d
  <2> QED BY <1>6, <1>9, <2>2, <2>3, <2>4 DEF Stored
<1>11. Sound'
  <2>1. Placed'
    BY <1>2, <1>4, <1>5, <1>6 DEF Placed
  <2> QED BY <1>1, <1>2, <1>4, <1>6, <2>1 DEF Sound
<1>12. Reading'
  <2>1. Several'
    <3>1. n > 1 /\ d - 1 \in 2 .. n /\ (hw.pos <=> n = 2)
      BY <1>1, <1>2 DEF Several, n
    <3>2. d - 1 = 2 => "RXNE" \in hw'.sr1
      BY <1>1, <1>2, <1>7
    <3> QED BY <1>4, <1>5, <1>6, <1>9, <3>1, <3>2 DEF Several, n
  <2>2. priv'.ptr + priv'.dcnt = n + 1
    <3>1. priv.ptr + d = n + 1 /\ priv.ptr \in Nat
      BY DEF Reading, n, Typed, ByteTypeOK
    <3> QED BY <1>1, <1>4, <1>6, <3>1, SMTT(30)
  <2>3. hw'.k = n - priv'.dcnt + Unread'
    <3>1. Unread \in {1, 2}
      BY <1>1
    <3> QED BY <1>1, <1>4, <1>5, <1>6, <1>7, <3>1, SMTT(30)
  <2>4. "RXNE" \in hw'.sr1 => hw'.dr = <<hw'.k - Unread' + 1>>
    <3>1. hw.shift # <<>> => n - d + 2 = hw'.k - Unread' + 1
      BY <1>1, <1>5, <1>6, <1>7
    <3> QED BY <1>7, <3>1
  <2>5. hw'.nacked <=> hw'.k = n
    BY <1>5, <1>6 DEF Reading, n
  <2>6. msgs'[priv'.cur].read /\ priv'.cur > 0 /\ ~priv'.check /\ ~hw'.start
        /\ hw'.sr1 \subseteq {"RXNE", "BTF"} /\ "BTF" \notin hw'.sr1 /\ hw'.shift = <<>>
    BY <1>4, <1>5, <1>6, <1>7 DEF Reading
  <2>7. n = msgs'[priv'.cur].length
    BY <1>9 DEF n
  <2> QED BY <1>10, <1>11, <2>1, <2>2, <2>3, <2>4, <2>5, <2>6, <2>7 DEF Reading
<1>13. Typed'
  <2>1. /\ IsPriv(priv') /\ IsHw(hw') /\ priv'.status \subseteq Bits /\ hw'.sr1 \subseteq Bits
        /\ hw'.mode \in Modes /\ priv'.check \in BOOLEAN
    BY <1>2, <1>3, <1>4, <1>5, <1>6, <1>7 DEF Modes, Bits, IsState
  <2>2. priv'.branch \in Branches
    BY <1>1, <1>4, <1>6
  <2>3. /\ priv.cur \in 0 .. Len(msgs) /\ priv.msgc \in 0 .. Len(msgs) /\ priv.done \in BOOLEAN
        /\ priv.msgv \in 0 .. Len(msgs) /\ priv.msgv \in DOMAIN msgs
        /\ priv.ptr \in Nat /\ priv.ptr + d = n + 1
    BY <1>2 DEF Typed, ByteTypeOK, Placed, Reading, n
  <2>4. /\ priv'.dcnt \in Nat \union {-1} /\ priv'.ptr \in Nat
        /\ priv'.ptr + priv'.dcnt = msgs[priv'.cur].length + 1
    <3>1. msgs[priv'.cur].length = n
      BY <1>9 DEF n
    <3>2. priv'.dcnt = d - 1 /\ priv'.ptr = priv.ptr + 1
      BY <1>4, <1>6
    <3>3. d \in Nat /\ d > 2 /\ n \in Nat
      BY <1>1
    <3>4. (priv.ptr + 1) + (d - 1) = n + 1 /\ d - 1 \in Nat /\ priv.ptr + 1 \in Nat
      BY <2>3, <3>3, SMTT(30)
    <3> QED BY <3>1, <3>2, <3>4
  <2>5. Prefixed'
    <3>1. \A i \in DOMAIN msgs : \E m \in 0 .. Room(i) : buf'[i] = Got(m)
      <4>1. ASSUME NEW i \in DOMAIN msgs PROVE \E m \in 0 .. Room(i) : buf'[i] = Got(m)
        <5>1. CASE i = priv.cur
          <6>1. Room(i) = n /\ n - d + 1 \in 0 .. n
            BY <1>1, <5>1 DEF Room, Reading, n
          <6> QED BY <1>8, <5>1, <6>1
        <5>2. CASE i # priv.cur
          BY <1>8, <5>2 DEF Typed, Prefixed
        <5> QED BY <5>1, <5>2
      <4> QED BY <4>1
    <3> QED BY <1>6, <3>1 DEF Prefixed, Room
  <2>6. /\ priv'.cur \in 0 .. Len(msgs) /\ priv'.msgc \in 0 .. Len(msgs)
        /\ priv'.msgv \in 0 .. Len(msgs) /\ priv'.msgv \in DOMAIN msgs /\ priv'.done \in BOOLEAN
    BY <1>4, <1>6, <2>3
  <2> QED BY <1>6, <1>8, <2>1, <2>2, <2>4, <2>5, <2>6, IsrTyped
<1> QED BY <1>2, <1>4, <1>5, <1>6, <1>12, <1>13 DEF BytesInv

(* The single byte of the last message *)
LEMMA ReadingSingle ==
  ASSUME Typed, Reading, priv.dcnt = 1,
         NEW b \in Branches, IsrBranch(b)
  PROVE  /\ BytesInv' /\ priv'.done /\ msgs' = msgs /\ wire' = wire /\ priv.msgc = 0
         /\ msgs[priv.cur].length = 1 /\ hw.k = 1 /\ hw'.stop = hw.stop
         /\ (hw.mode = "rx" /\ hw.stop) \/ (hw.mode = "idle" /\ ~hw.stop)
<1> DEFINE s == Run(b)
           n == msgs[priv.cur].length
           r == ReadByte(s)
<1>1. /\ b = "read" /\ ~Err(hw.sr1) /\ Branch(b, Run(b)) = r
      /\ IsState(s) /\ s.h = hw /\ s.b = buf
      /\ s.p.status = hw.sr1 /\ s.p.branch = b /\ s.p.check = priv.check
      /\ s.p.dcnt = 1 /\ s.p.cur = priv.cur /\ s.p.ptr = priv.ptr
      /\ s.p.done = priv.done /\ s.p.msgc = priv.msgc /\ s.p.msgv = priv.msgv
      /\ "RXNE" \in hw.sr1 /\ "ADDR" \notin hw.sr1
      /\ n \in Nat \ {0} /\ hw.k \in Nat
      /\ priv.cur \in DOMAIN msgs /\ DOMAIN buf = DOMAIN msgs
      /\ buf[priv.cur] = Got(n - 1)
      /\ hw.dr = <<n - 1 + 1>>
      /\ Unread = (IF hw.shift # <<>> THEN 2 ELSE 1)
      /\ hw.k = n - 1 + Unread
  BY ReadingRun
<1> HIDE DEF s
<1>2. /\ Single /\ n = 1 /\ priv.msgc = 0 /\ hw.shift = <<>> /\ ~hw.start /\ ~priv.check
      /\ hw.sr1 \subseteq {"RXNE", "BTF"} /\ Sound /\ Placed
      /\ (hw.mode = "rx" /\ hw.stop) \/ (hw.mode = "idle" /\ ~hw.stop)
      /\ (hw.nacked <=> hw.k = n)
  BY DEF Reading, Several, Single, Sound
<1>3. /\ IsState(r) /\ r.b = [s.b EXCEPT ![s.p.cur] = Append(@, s.h.dr)]
      /\ SamePlace(s.p, r.p) /\ r.p.check = s.p.check /\ r.p.ptr = s.p.ptr + 1
      /\ r.p.dcnt = -1
      /\ r.h.mode = s.h.mode /\ r.h.start = s.h.start /\ r.h.stop = s.h.stop
      /\ r.h.k = s.h.k /\ r.h.nacked = s.h.nacked
      /\ r.h.shift = s.h.shift /\ r.h.sr1 = s.h.sr1 \ {"RXNE", "BTF"}
  <2>1. "ADDR" \notin s.h.sr1 /\ s.p.dcnt \in Nat \ {0, 2} /\ IsState(s)
        /\ ~(s.h.mode = "rx" /\ s.h.shift # <<>>)
    BY <1>1, <1>2
  <2> HIDE DEF r
  <2> QED BY <1>1, <2>1, ReadOneIs DEF r
<1> HIDE DEF r, n
<1>4. Over(r.p)
  BY <1>1, <1>2, <1>3 DEF Over, SamePlace
<1>5. /\ IsPriv(priv') /\ priv'.done = TRUE /\ priv'.dcnt = r.p.dcnt
      /\ priv'.msgc = r.p.msgc /\ priv'.msgv = r.p.msgv /\ priv'.cur = r.p.cur
      /\ priv'.ptr = r.p.ptr /\ priv'.check = r.p.check /\ priv'.status = r.p.status
      /\ priv'.branch = r.p.branch
      /\ IsHw(hw') /\ hw'.mode = r.h.mode /\ hw'.sr1 = r.h.sr1
      /\ hw'.shift = r.h.shift /\ hw'.start = r.h.start /\ hw'.stop = r.h.stop
      /\ hw'.itevt = FALSE /\ hw'.itbuf = FALSE /\ hw'.nacked = r.h.nacked
      /\ buf' = r.b /\ msgs' = msgs /\ wire' = wire /\ faulted' = faulted
  BY <1>1, <1>3, <1>4, Ends
<1>6. /\ priv'.dcnt = -1 /\ priv'.msgc = 0 /\ priv'.msgv = priv.msgv /\ priv'.cur = priv.cur
      /\ priv'.ptr = priv.ptr + 1 /\ priv'.check = priv.check /\ priv'.status = hw.sr1
      /\ priv'.branch = "read" /\ buf' = [buf EXCEPT ![priv.cur] = Append(@, hw.dr)]
  <2>1. buf' = [buf EXCEPT ![priv.cur] = Append(@, hw.dr)]
    BY <1>1, <1>3, <1>5
  <2>2. /\ priv'.dcnt = -1 /\ priv'.ptr = priv.ptr + 1 /\ priv'.check = priv.check
    BY <1>1, <1>3, <1>5
  <2>3. /\ priv'.msgc = 0 /\ priv'.msgv = priv.msgv /\ priv'.cur = priv.cur
        /\ priv'.status = hw.sr1 /\ priv'.branch = "read"
    BY <1>1, <1>2, <1>3, <1>5 DEF SamePlace
  <2> QED BY <2>1, <2>2, <2>3
<1>7. buf'[priv.cur] = Got(1) /\ DOMAIN buf' = DOMAIN buf
      /\ \A i \in DOMAIN msgs : i # priv.cur => buf'[i] = buf[i]
  <2>1. buf' = [buf EXCEPT ![priv.cur] = Append(Got(0), <<0 + 1>>)]
    BY <1>1, <1>2, <1>6
  <2>2. Append(Got(0), <<0 + 1>>) = Got(1)
    <3>1. 0 \in Nat /\ 0 + 1 = 1
      OBVIOUS
    <3>2. Append(Got(0), <<0 + 1>>) = Got(0 + 1)
      BY <3>1, GotIs, Zenon
    <3> QED BY <3>1, <3>2
  <2> QED BY <1>1, <2>1, <2>2
<1>8. \A i \in DOMAIN msgs : buf'[i] = Got(Room(i)) /\ Room(i) \in Nat
  <2>1. ASSUME NEW i \in DOMAIN msgs PROVE buf'[i] = Got(Room(i)) /\ Room(i) \in Nat
    <3>1. CASE i = priv.cur
      BY <1>2, <1>7, <3>1 DEF Room, Reading, n
    <3>2. CASE i # priv.cur
      <4>1. i < priv.cur
        <5>1. DOMAIN msgs = 1 .. Len(msgs) /\ Len(msgs) \in Nat /\ priv.cur = Len(msgs)
          BY <1>2, ListFacts DEF Placed
        <5> QED BY <3>2, <5>1
      <4>2. Stored(msgs[priv.cur].length - priv.dcnt) /\ Room(i) \in Nat
        BY <1>2, ListFacts DEF Reading, Room, Placed
      <4> QED BY <1>7, <3>2, <4>1, <4>2 DEF Stored
    <3> QED BY <3>1, <3>2
  <2> QED BY <2>1
<1>9. Rest'
  <2>1. hw'.sr1 = {}
    BY <1>1, <1>2, <1>3, <1>5
  <2>2. hw.nacked
    BY <1>1, <1>2
  <2>3. /\ (hw'.mode = "rx" /\ hw'.stop) \/ (hw'.mode = "idle" /\ ~hw'.stop)
        /\ hw'.nacked /\ ~hw'.start
    BY <1>1, <1>2, <1>3, <1>5, <2>2
  <2>4. Quiet'
    BY <2>3 DEF Quiet
  <2>5. \A i \in DOMAIN msgs' : buf'[i] = Got(Room(i)')
    BY <1>5, <1>8 DEF Room
  <2>6. ~faulted' /\ ~Err(priv'.status) /\ priv'.branch \notin {"unknown", "state"}
    BY <1>1, <1>2, <1>5, <1>6 DEF Sound
  <2> QED BY <1>2, <1>5, <1>6, <2>1, <2>3, <2>4, <2>5, <2>6 DEF Rest
<1>10. Typed'
  <2>1. /\ priv'.status \subseteq Bits /\ hw'.sr1 \subseteq Bits /\ hw'.mode \in Modes
    BY <1>1, <1>2, <1>3, <1>5, <1>6 DEF Modes, Bits
  <2>2. priv'.branch \in Branches
    BY <1>1, <1>6
  <2>3. /\ priv.cur \in 0 .. Len(msgs) /\ 0 \in 0 .. Len(msgs) /\ priv.check \in BOOLEAN
        /\ priv.msgv \in 0 .. Len(msgs) /\ priv.ptr \in Nat
    BY <1>2 DEF Typed, ByteTypeOK
  <2>4. Prefixed'
    <3>1. \A i \in DOMAIN msgs : Room(i) \in 0 .. Room(i)
      BY <1>8
    <3> QED BY <1>5, <1>8, <3>1 DEF Prefixed, Room
  <2>5. /\ priv'.dcnt \in Nat \union {-1} /\ priv'.ptr \in Nat
        /\ priv'.cur \in 0 .. Len(msgs) /\ priv'.msgc \in 0 .. Len(msgs)
        /\ priv'.msgv \in 0 .. Len(msgs) /\ priv'.check \in BOOLEAN
    BY <1>6, <2>3
  <2> QED BY <1>5, <1>7, <2>1, <2>2, <2>4, <2>5, IsrTyped
<1>11. hw.k = 1 /\ msgs[priv.cur].length = 1
  BY <1>1, <1>2 DEF n
<1> QED BY <1>1, <1>2, <1>3, <1>5, <1>9, <1>10, <1>11 DEF BytesInv

(* The last two bytes of a message *)
LEMMA ReadingTwo ==
  ASSUME Typed, Reading, priv.dcnt = 2,
         NEW b \in Branches, IsrBranch(b)
  PROVE  /\ BytesInv' /\ msgs' = msgs /\ wire' = wire /\ priv'.cur = priv.cur
         /\ hw.mode = "rx" /\ hw.k = msgs[priv.cur].length
         /\ \/ priv'.done /\ priv.msgc = 0 /\ hw'.stop
            \/ Starting' /\ priv.msgc > 0
<1> DEFINE s == Run(b)
           n == msgs[priv.cur].length
           r == ReadByte(s)
<1>1. /\ b = "read" /\ ~Err(hw.sr1) /\ Branch(b, Run(b)) = r
      /\ IsState(s) /\ s.h = hw /\ s.b = buf
      /\ s.p.status = hw.sr1 /\ s.p.branch = b /\ s.p.check = priv.check
      /\ s.p.dcnt = 2 /\ s.p.cur = priv.cur /\ s.p.ptr = priv.ptr
      /\ s.p.done = priv.done /\ s.p.msgc = priv.msgc /\ s.p.msgv = priv.msgv
      /\ "RXNE" \in hw.sr1 /\ "ADDR" \notin hw.sr1
      /\ ~hw.itbuf => hw.shift # <<>>
      /\ n \in Nat \ {0} /\ 2 \in 1 .. n /\ hw.k \in Nat
      /\ priv.cur \in DOMAIN msgs /\ DOMAIN buf = DOMAIN msgs
      /\ buf[priv.cur] = Got(n - 2)
      /\ hw.dr = <<n - 2 + 1>>
      /\ Unread = (IF hw.shift # <<>> THEN 2 ELSE 1)
      /\ hw.k = n - 2 + Unread
      /\ hw.shift # <<>> => hw.shift = <<n - 2 + 2>>
  BY ReadingRun
<1> HIDE DEF s
<1>2. /\ hw.mode = "rx" /\ ~hw.start /\ ~hw.stop /\ ~priv.check /\ ~hw.itbuf
      /\ hw.sr1 \subseteq {"RXNE", "BTF"} /\ Sound /\ Placed
      /\ (hw.nacked <=> hw.k = n)
  BY DEF Reading, Several, Single, Sound
<1>3. hw.shift # <<>> /\ hw.nacked /\ hw.k = n
  <2>1. hw.shift # <<>>
    BY <1>1, <1>2
  <2>2. hw.k = n
    BY <1>1, <2>1
  <2> QED BY <1>2, <2>1, <2>2
<1>4. /\ IsState(r)
      /\ r.b = [s.b EXCEPT ![s.p.cur] = Append(Append(@, s.h.dr), s.h.shift)]
      /\ SamePlace(s.p, r.p) /\ r.p.check = s.p.check /\ r.p.ptr = s.p.ptr + 2
      /\ r.p.dcnt = -1
      /\ r.h.mode = "rx" /\ r.h.itevt = s.h.itevt /\ r.h.itbuf = FALSE
      /\ r.h.k = s.h.k /\ r.h.nacked = s.h.nacked
      /\ r.h.shift = <<>> /\ r.h.sr1 = s.h.sr1 \ {"RXNE", "BTF"}
      /\ s.p.msgc > 0 => r.h.start = TRUE /\ r.h.stop = s.h.stop
      /\ ~(s.p.msgc > 0) => r.h.start = s.h.start /\ r.h.stop = TRUE
  <2>1. /\ "ADDR" \notin s.h.sr1 /\ s.p.dcnt = 2 /\ IsState(s)
        /\ s.h.mode = "rx" /\ s.h.shift # <<>> /\ s.p.cur \in DOMAIN s.b
    BY <1>1, <1>2, <1>3
  <2>2. s.p.ptr \in Nat
    BY <1>1 DEF Typed, ByteTypeOK
  <2> HIDE DEF r
  <2> QED BY <2>1, <2>2, ReadTwoIs DEF r
<1> HIDE DEF r, n
<1>5. /\ priv.cur \in 1 .. Len(msgs) /\ priv.msgc = Len(msgs) - priv.cur
      /\ DOMAIN msgs = 1 .. Len(msgs) /\ Len(msgs) \in Nat /\ priv.msgc \in Nat
      /\ priv.msgc > 0 => ~msgs[priv.msgv].nostart
      /\ \A i \in DOMAIN msgs : Room(i) \in Nat
  <2>1. DOMAIN msgs = 1 .. Len(msgs) /\ Len(msgs) \in Nat
    BY <1>2, ListFacts DEF Placed
  <2>2. priv.cur \in 1 .. Len(msgs) /\ priv.msgc = Len(msgs) - priv.cur
    BY <1>1, <1>2, <2>1 DEF Placed
  <2>3. priv.msgc > 0 => priv.cur \in 1 .. Len(msgs) - 1 /\ priv.msgv = priv.cur + 1
    BY <1>2, <2>1, <2>2 DEF Placed
  <2>4. priv.msgc > 0 => ~msgs[priv.msgv].nostart
    BY <1>2, <2>3, ListFacts DEF Placed, Reading
  <2>5. \A i \in DOMAIN msgs : Room(i) \in Nat
    BY <1>2, <2>1, ListFacts DEF Placed, Room
  <2> QED BY <2>1, <2>2, <2>4, <2>5
<1>6. LET a == Append(Append(Got(n - 2), <<n - 2 + 1>>), <<n - 2 + 2>>)
      IN a = Got(n)
  <2>1. n - 2 \in Nat /\ n - 2 + 1 \in Nat /\ (n - 2 + 1) + 1 = n - 2 + 2 /\ n - 2 + 2 = n
    BY <1>1
  <2>2. Append(Got(n - 2), <<n - 2 + 1>>) = Got(n - 2 + 1)
    BY <2>1, GotIs
  <2>3. Append(Got(n - 2 + 1), <<(n - 2 + 1) + 1>>) = Got((n - 2 + 1) + 1)
    BY <2>1, GotIs
  <2> QED BY <2>1, <2>2, <2>3
<1>7. LET c == r.b
      IN /\ DOMAIN c = DOMAIN msgs
         /\ \A i \in DOMAIN msgs :
              c[i] = Got(IF i < priv.cur THEN Room(i) ELSE IF i = priv.cur THEN n ELSE 0)
  <2>1. r.b = [buf EXCEPT ![priv.cur] = Got(n)]
    <3>1. Append(Append(buf[priv.cur], hw.dr), hw.shift) = Got(n)
      BY <1>1, <1>3, <1>6
    <3>2. r.b = [buf EXCEPT ![priv.cur] = Append(Append(@, hw.dr), hw.shift)]
      BY <1>1, <1>4
    <3> QED BY <3>1, <3>2
  <2>2. Stored(n - 2)
    BY DEF Reading, n
  <2>3. ASSUME NEW i \in DOMAIN msgs
        PROVE  r.b[i] = Got(IF i < priv.cur THEN Room(i) ELSE IF i = priv.cur THEN n ELSE 0)
    <3>1. CASE i = priv.cur
      <4>1. ~(i < priv.cur)
        BY <1>5, <3>1
      <4> QED BY <1>1, <2>1, <3>1, <4>1
    <3>2. CASE i # priv.cur
      BY <1>1, <2>1, <2>2, <3>2 DEF Stored
    <3> QED BY <3>1, <3>2
  <2> QED BY <1>1, <2>1, <2>3
<1>8. Room(priv.cur) = n
  BY DEF Reading, Room, n
<1>9. Prefixed' /\ DOMAIN buf' = DOMAIN buf
  <2>1. buf' = r.b /\ msgs' = msgs
    <3>1. CASE Over(r.p)
      BY <1>1, <1>4, <3>1, Ends
    <3>2. CASE ~Over(r.p)
      BY <1>1, <3>2, GoesOn
    <3> QED BY <3>1, <3>2
  <2>2. ASSUME NEW i \in DOMAIN msgs PROVE \E m \in 0 .. Room(i) : buf'[i] = Got(m)
    <3>1. CASE i < priv.cur
      BY <1>5, <1>7, <2>1, <3>1
    <3>2. CASE i = priv.cur
      BY <1>5, <1>7, <1>8, <2>1, <3>2
    <3>3. CASE ~(i < priv.cur) /\ i # priv.cur
      BY <1>5, <1>7, <2>1, <3>3
    <3> QED BY <3>1, <3>2, <3>3
  <2> QED BY <1>1, <1>7, <2>1, <2>2 DEF Prefixed, Room
<1>10. /\ r.p.cur = priv.cur /\ r.p.msgc = priv.msgc /\ r.p.msgv = priv.msgv
       /\ r.p.done = priv.done /\ r.p.status = hw.sr1 /\ r.p.branch = "read"
       /\ r.p.ptr = priv.ptr + 2 /\ r.p.check = priv.check /\ r.p.dcnt = -1
  BY <1>1, <1>4 DEF SamePlace
<1>11. r.h.sr1 = {} /\ r.h.nacked
  BY <1>1, <1>2, <1>3, <1>4
<1>12. /\ priv.cur \in 0 .. Len(msgs) /\ priv.msgc \in 0 .. Len(msgs)
       /\ {priv.check, priv.done} \subseteq BOOLEAN
       /\ priv.msgv \in 0 .. Len(msgs) /\ priv.msgv \in DOMAIN msgs /\ priv.ptr \in Nat
       /\ hw.sr1 \subseteq Bits
  BY <1>2 DEF Typed, ByteTypeOK, Placed, Bits
<1>13. CASE priv.msgc = 0
  <2>1. Over(r.p)
    BY <1>10, <1>13 DEF Over
  <2>2. /\ IsPriv(priv') /\ priv'.done = TRUE /\ priv'.dcnt = r.p.dcnt
        /\ priv'.msgc = r.p.msgc /\ priv'.msgv = r.p.msgv /\ priv'.cur = r.p.cur
        /\ priv'.ptr = r.p.ptr /\ priv'.check = r.p.check /\ priv'.status = r.p.status
        /\ priv'.branch = r.p.branch
        /\ IsHw(hw') /\ hw'.mode = r.h.mode /\ hw'.sr1 = r.h.sr1
        /\ hw'.shift = r.h.shift /\ hw'.start = r.h.start /\ hw'.stop = r.h.stop
        /\ hw'.itevt = FALSE /\ hw'.itbuf = FALSE /\ hw'.nacked = r.h.nacked
        /\ buf' = r.b /\ msgs' = msgs /\ wire' = wire /\ faulted' = faulted
    BY <1>1, <1>4, <2>1, Ends, ZenonT(40)
  <2>3. r.h.start = hw.start /\ r.h.stop = TRUE
    BY <1>1, <1>4, <1>13
  <2>4. Rest'
    <3>1. Quiet' /\ hw'.sr1 = {} /\ ~hw'.start /\ hw'.stop
      BY <1>2, <1>4, <1>11, <2>2, <2>3 DEF Quiet
    <3>2. \A i \in DOMAIN msgs' : buf'[i] = Got(Room(i)')
      <4>1. \A i \in DOMAIN msgs : i < priv.cur \/ i = priv.cur
        BY <1>5, <1>13
      <4> QED BY <1>7, <1>8, <2>2, <4>1 DEF Room
    <3>3. ~faulted' /\ ~Err(priv'.status) /\ priv'.branch \notin {"unknown", "state"}
      BY <1>1, <1>2, <1>10, <2>2 DEF Sound
    <3> QED BY <1>2, <1>10, <2>2, <3>1, <3>2, <3>3 DEF Rest
  <2>5. Typed'
    <3>1. /\ priv'.status \subseteq Bits /\ hw'.sr1 \subseteq Bits /\ hw'.mode \in Modes
          /\ priv'.branch \in Branches /\ priv'.check \in BOOLEAN
      BY <1>1, <1>4, <1>10, <1>11, <1>12, <2>2 DEF Modes
    <3>2. /\ priv'.dcnt \in Nat \union {-1} /\ priv'.ptr \in Nat
          /\ priv'.cur \in 0 .. Len(msgs) /\ priv'.msgc \in 0 .. Len(msgs)
          /\ priv'.msgv \in 0 .. Len(msgs)
      BY <1>10, <1>12, <2>2
    <3> QED BY <1>9, <2>2, <3>1, <3>2, IsrTyped
  <2> QED BY <1>2, <1>3, <1>10, <1>13, <2>2, <2>3, <2>4, <2>5 DEF BytesInv, n
<1>14. CASE priv.msgc # 0
  <2>1. ~Over(r.p) /\ priv.msgc > 0
    BY <1>5, <1>10, <1>14 DEF Over
  <2>2. /\ priv' = r.p /\ hw' = r.h /\ buf' = r.b /\ msgs' = msgs /\ wire' = wire
        /\ faulted' = faulted
    BY <1>1, <2>1, GoesOn
  <2>3. r.h.start = TRUE /\ r.h.stop = hw.stop /\ r.h.itevt = hw.itevt
    BY <1>1, <1>4, <2>1
  <2>4. Starting'
    <3>1. Placed'
      BY <1>2, <1>10, <2>2, <2>3 DEF Placed
    <3>2. Sound'
      BY <1>1, <1>2, <1>10, <2>2, <3>1 DEF Sound
    <3>3. Stored(Room(priv.cur))'
      <4>1. \A i : Room(i)' = Room(i)
        BY <2>2 DEF Room
      <4>2. Room(priv.cur)' = n
        BY <1>8, <1>10, <2>2 DEF Room
      <4> QED BY <1>7, <1>10, <2>2, <4>1, <4>2 DEF Stored
    <3>4. Quiet' /\ hw'.sr1 = {} /\ hw'.start /\ ~hw'.stop /\ ~hw'.itbuf
      BY <1>2, <1>4, <1>11, <2>2, <2>3 DEF Quiet
    <3> QED BY <1>2, <1>5, <1>10, <2>1, <2>2, <3>2, <3>3, <3>4 DEF Starting, Due
  <2>5. Typed'
    <3>1. /\ IsPriv(priv') /\ IsHw(hw') /\ priv'.status \subseteq Bits /\ hw'.sr1 \subseteq Bits
          /\ hw'.mode \in Modes /\ priv'.branch \in Branches /\ priv'.check \in BOOLEAN
          /\ priv'.done \in BOOLEAN
      BY <1>1, <1>4, <1>10, <1>11, <1>12, <2>2, SMTT(30) DEF Modes, IsState
    <3>2. /\ priv'.dcnt \in Nat \union {-1} /\ priv'.ptr \in Nat
          /\ priv'.cur \in 0 .. Len(msgs) /\ priv'.msgc \in 0 .. Len(msgs)
          /\ priv'.msgv \in 0 .. Len(msgs) /\ priv'.msgv \in DOMAIN msgs /\ ~(priv'.dcnt >= 0)
      BY <1>10, <1>12, <2>2, SMTT(30)
    <3> QED BY <1>9, <2>2, <3>1, <3>2, IsrTyped
  <2> QED BY <1>2, <1>3, <1>10, <2>1, <2>2, <2>4, <2>5 DEF BytesInv, n
<1> QED BY <1>13, <1>14

(* Every run that finds an error ends the transfer *)
LEMMA RefusedEnd ==
  ASSUME Typed, Refused, NEW s, IsState(s),
         s.b = buf, s.p.status \subseteq Bits, "AF" \in s.p.status,
         s.p.branch \in Branches \union {"state"}, s.p.check = FALSE, s.p.ptr \in Nat,
         s.p.cur \in 0 .. Len(msgs), s.p.msgv \in 0 .. Len(msgs),
         s.h.mode = "held", s.h.sr1 \subseteq {"AF", "TXE"}, ~s.h.start,
         s.p.branch = "nack" => s.h.stop,
         LET r == Shutdown(CheckErrors(s, TRUE))
         IN priv' = r.p /\ hw' = r.h /\ buf' = r.b,
         msgs' = msgs, faulted' = faulted
  PROVE  BytesInv'
<1>1. /\ IsPriv(priv') /\ IsHw(hw') /\ buf' = s.b
      /\ priv' = [s.p EXCEPT !.dcnt = -1, !.msgc = 0, !.done = TRUE]
      /\ hw' = [s.h EXCEPT !.sr1 = @ \ ErrorBits, !.itevt = FALSE, !.itbuf = FALSE]
  <2>1. IsRun(s) /\ IsPriv(s.p) /\ IsHw(s.h)
    BY DEF IsState
  <2> QED BY <2>1, ErrorEnd
<1>2. /\ priv'.dcnt = -1 /\ priv'.msgc = 0 /\ priv'.done = TRUE /\ priv'.cur = s.p.cur
      /\ priv'.msgv = s.p.msgv /\ priv'.ptr = s.p.ptr /\ priv'.check = FALSE
      /\ priv'.status = s.p.status /\ priv'.branch = s.p.branch
  BY <1>1 DEF IsState, IsPriv
<1>3. /\ hw'.mode = "held" /\ hw'.sr1 = s.h.sr1 \ ErrorBits /\ hw'.itevt = FALSE
      /\ hw'.itbuf = FALSE /\ hw'.start = s.h.start /\ hw'.stop = s.h.stop
  BY <1>1 DEF IsState, IsHw
<1>4. hw'.sr1 \subseteq {"TXE"}
  BY <1>3 DEF ErrorBits
<1>5. Rest'
  <2>1. Quiet'
    BY <1>3 DEF Quiet
  <2>2. faulted' = TRUE
    BY DEF Refused, Typed, ByteTypeOK
  <2> QED BY <1>2, <1>3, <1>4, <2>1, <2>2 DEF Rest
<1>6. Typed'
  <2>1. hw'.sr1 \subseteq Bits /\ hw'.mode \in Modes
    BY <1>3, <1>4 DEF Bits, Modes
  <2>2. 0 \in 0 .. Len(msgs)
    BY DEF Typed, ByteTypeOK
  <2>3. DOMAIN buf' = DOMAIN buf /\ Prefixed'
    <3>1. buf' = buf /\ msgs' = msgs
      BY <1>1
    <3> QED BY <3>1 DEF Typed, Prefixed, Room
  <2>4. /\ priv'.dcnt \in Nat \union {-1} /\ priv'.ptr \in Nat
        /\ priv'.cur \in 0 .. Len(msgs) /\ priv'.msgc \in 0 .. Len(msgs)
        /\ priv'.msgv \in 0 .. Len(msgs)
    BY <1>2, <2>2
  <2> QED BY <1>1, <1>2, <2>1, <2>3, <2>4, IsrTyped
<1> QED BY <1>5, <1>6 DEF BytesInv

LEMMA RefusedRun ==
  ASSUME Typed, Refused, NEW b \in Branches, IsrBranch(b)
  PROVE  BytesInv'
<1> DEFINE s == Run(b)
           r == Branch(b, s)
<1>1. Placed /\ priv.cur > 0 /\ IsPriv(priv) /\ IsHw(hw)
      /\ hw.mode = "held" /\ "AF" \in hw.sr1 /\ hw.sr1 \subseteq {"AF", "TXE"}
      /\ ~hw.start /\ ~hw.stop /\ hw.sr1 \subseteq Bits
  BY DEF Refused, Typed, ByteTypeOK, Bits
<1>2. /\ IsState(s) /\ s.p = Taken(b) /\ s.h = hw /\ s.b = buf /\ s.st = hw.sr1
      /\ s.p.status = hw.sr1 /\ s.p.branch = b /\ s.p.check = priv.check
      /\ ~BetweenMessages(priv) =>
           s.p.dcnt = priv.dcnt /\ s.p.ptr = priv.ptr /\ s.p.cur = priv.cur
      /\ BetweenMessages(priv) =>
           s.p.dcnt = msgs[priv.msgv].length /\ s.p.ptr = 1 /\ s.p.cur = priv.msgv
  BY <1>1, RunIs DEF IsState
<1>3. /\ s.p.cur \in 1 .. Len(msgs) /\ s.p.msgv \in DOMAIN msgs
      /\ Len(msgs) \in Nat \ {0} /\ DOMAIN msgs = 1 .. Len(msgs)
      /\ msgs[s.p.cur].length \in Nat \ {0}
  BY <1>1, <1>2, PlacedStep
<1>4. Err(hw.sr1) = TRUE
  BY <1>1 DEF Err, ErrorBits
<1>5. /\ BranchOf(s.p, hw.sr1) = b
      /\ priv' = Shutdown(CheckErrors(r, TRUE)).p
      /\ hw' = Shutdown(CheckErrors(r, TRUE)).h
      /\ buf' = Shutdown(CheckErrors(r, TRUE)).b
      /\ msgs' = msgs /\ faulted' = faulted
  BY <1>2, <1>4, BranchRun
<1>6. s.p.ptr \in Nat
  BY <1>2 DEF Typed, ByteTypeOK
<1> HIDE DEF s
<1>7. /\ priv.check \in BOOLEAN
      /\ priv.check => ~BetweenMessages(priv) /\ s.p.dcnt > 0
      /\ ~priv.check => ~msgs[s.p.cur].read /\ s.p.dcnt \in Nat
  <2>1. priv.check \in BOOLEAN
    BY DEF Typed, ByteTypeOK
  <2>2. CASE priv.check
    BY <1>2, <2>1, <2>2 DEF Refused, BetweenMessages
  <2>3. CASE ~priv.check
    <3>1. /\ ~msgs[priv.cur].read /\ priv.dcnt >= -1
          /\ priv.dcnt = -1 => NextContinues(priv)
      BY <2>3 DEF Refused
    <3>2. CASE BetweenMessages(priv)
      <4>1. priv.msgc > 0 /\ msgs[priv.msgv].nostart
        BY <3>1, <3>2 DEF BetweenMessages, NextContinues, Msgv
      <4>2. priv.cur \in 1 .. Len(msgs) - 1 /\ priv.msgv = priv.cur + 1
        BY <1>1, <1>3, <4>1 DEF Placed
      <4>3. ~msgs[priv.msgv].read
        BY <1>1, <4>1, <4>2, ListFacts DEF Placed
      <4> QED BY <1>2, <1>3, <2>1, <2>3, <3>2, <4>3
    <3>3. CASE ~BetweenMessages(priv)
      <4>1. priv.dcnt # -1
        BY <3>1, <3>3 DEF BetweenMessages, NextContinues
      <4>2. priv.dcnt \in Nat
        BY <4>1 DEF Typed, ByteTypeOK
      <4> QED BY <1>2, <2>1, <2>3, <3>1, <3>3, <4>2
    <3> QED BY <3>2, <3>3
  <2> QED BY <2>1, <2>2, <2>3
<1>8. /\ priv.check => b = "nack"
      /\ ~priv.check => b = "unknown" \/ (b = "write" /\ s.p.dcnt \in Nat \ {0})
  <2>1. "SB" \notin hw.sr1 /\ "ADDR" \notin hw.sr1 /\ "BTF" \notin hw.sr1 /\ "RXNE" \notin hw.sr1
    BY <1>1
  <2>2. CASE priv.check
    BY <1>2, <1>5, <2>1, <2>2 DEF BranchOf
  <2>3. CASE ~priv.check
    <3>1. s.p.dcnt # -1 /\ ~msgs[s.p.cur].read /\ ~s.p.check /\ s.p.dcnt \in Nat
      BY <1>2, <1>7, <2>3
    <3> QED BY <1>5, <2>1, <2>3, <3>1 DEF BranchOf, Current
  <2> QED BY <2>2, <2>3
<1>9. CASE priv.check
  <2>1. r = AddressNacked(s) /\ b = "nack"
    BY <1>8, <1>9 DEF Branch
  <2> HIDE DEF r
  <2>2. /\ IsState(r) /\ r.b = s.b
        /\ r.p.msgv = s.p.msgv /\ r.p.cur = s.p.cur /\ r.p.status = s.p.status
        /\ r.p.branch = s.p.branch /\ r.p.ptr = s.p.ptr /\ r.p.check = FALSE
        /\ r.h.mode = s.h.mode /\ r.h.sr1 = s.h.sr1 /\ r.h.start = s.h.start
        /\ r.h.stop = TRUE
    BY <1>2, <2>1, NackedIs
  <2>3. /\ r.b = buf /\ r.p.status \subseteq Bits /\ "AF" \in r.p.status
        /\ r.p.branch \in Branches \union {"state"} /\ r.p.ptr \in Nat
        /\ r.p.cur \in 0 .. Len(msgs) /\ r.p.msgv \in 0 .. Len(msgs)
        /\ r.h.mode = "held" /\ r.h.sr1 \subseteq {"AF", "TXE"} /\ ~r.h.start
    BY <1>1, <1>2, <1>3, <1>6, <2>2
  <2> QED BY <1>5, <2>2, <2>3, RefusedEnd
<1>10. CASE ~priv.check /\ b = "unknown"
  <2>1. r = UnknownState(s)
    BY <1>10 DEF Branch
  <2> HIDE DEF r
  <2>2. /\ IsState(r) /\ r.b = s.b /\ r.h = s.h
        /\ r.p.msgv = s.p.msgv /\ r.p.cur = s.p.cur /\ r.p.status = s.p.status
        /\ r.p.branch = s.p.branch /\ r.p.ptr = s.p.ptr /\ r.p.check = s.p.check
    <3>1. "ADDR" \notin s.h.sr1
      BY <1>1, <1>2
    <3> QED BY <1>2, <2>1, <3>1, UnknownIs
  <2>3. /\ r.b = buf /\ r.p.status \subseteq Bits /\ "AF" \in r.p.status
        /\ r.p.branch \in Branches \union {"state"} /\ r.p.ptr \in Nat
        /\ r.p.cur \in 0 .. Len(msgs) /\ r.p.msgv \in 0 .. Len(msgs)
        /\ r.h.mode = "held" /\ r.h.sr1 \subseteq {"AF", "TXE"} /\ ~r.h.start
        /\ r.p.branch # "nack" /\ r.p.check = FALSE
    BY <1>1, <1>2, <1>3, <1>6, <1>7, <1>10, <2>2
  <2> QED BY <1>5, <2>2, <2>3, RefusedEnd
<1>11. CASE ~priv.check /\ b = "write"
  <2>1. r = WriteByte(s)
    BY <1>11 DEF Branch
  <2> HIDE DEF r
  <2>2. hw = ReadSr2(s.h) /\ hw.mode # "sb" /\ "ADDR" \notin s.st
        /\ s.st = s.h.sr1 /\ s.p.dcnt \in Nat \ {0}
    BY <1>1, <1>2, <1>8, <1>11, ReadSr2Is, ZenonT(40)
  <2>3. Puts(s) = 1
    BY <2>2 DEF Puts
  <2>4. /\ IsState(r) /\ r.b = s.b /\ SamePlace(s.p, r.p) /\ r.p.check = FALSE
        /\ r.p.ptr = s.p.ptr + 1 /\ r.h.mode = hw.mode /\ r.h.start = hw.start
        /\ hw.shift # <<>> => r.h.sr1 = hw.sr1 \ {"TXE", "BTF"}
        /\ hw.shift = <<>> => r.h.sr1 = hw.sr1 \ {"BTF"}
    <3>1. /\ IsState(s) /\ s.p.dcnt \in Nat \ {0} /\ s.p.ptr \in Nat /\ s.st = s.h.sr1
          /\ hw = ReadSr2(s.h) /\ hw.mode # "sb" /\ ("ADDR" \in s.st => ~s.h.dr[2])
      BY <1>2, <1>6, <2>2
    <3>2. LET w == WriteByte(s)
              m == Puts(s)
          IN /\ IsState(w) /\ w.b = s.b /\ SamePlace(s.p, w.p) /\ w.p.check = FALSE
             /\ w.p.ptr = s.p.ptr + m /\ w.h.mode = hw.mode /\ w.h.start = hw.start
             /\ hw.shift # <<>> => w.h.sr1 = hw.sr1 \ {"TXE", "BTF"}
             /\ hw.shift = <<>> /\ m = 1 => w.h.sr1 = hw.sr1 \ {"BTF"}
      BY <3>1, WriteByteIs, ZenonT(40)
    <3> QED BY <2>1, <2>3, <3>2
  <2>5. /\ r.b = buf /\ r.p.status \subseteq Bits /\ "AF" \in r.p.status
        /\ r.p.branch \in Branches \union {"state"} /\ r.p.ptr \in Nat
        /\ r.p.cur \in 0 .. Len(msgs) /\ r.p.msgv \in 0 .. Len(msgs)
        /\ r.p.branch # "nack"
    BY <1>1, <1>2, <1>3, <1>6, <1>11, <2>4 DEF SamePlace
  <2>6. r.h.mode = "held" /\ r.h.sr1 \subseteq {"AF", "TXE"} /\ ~r.h.start
    BY <1>1, <2>4
  <2> QED BY <1>5, <2>4, <2>5, <2>6, RefusedEnd
<1> QED BY <1>7, <1>8, <1>9, <1>10, <1>11

LEMMA StateErrorStep ==
  ASSUME BytesInv, IsrStateError
  PROVE  BytesInv' /\ Refused /\ faulted' = faulted
<1> DEFINE p == Latch(hw.sr1 \union {"TIMEOUT"}, "state")
           s == [p |-> p, h |-> hw, b |-> buf, st |-> hw.sr1]
<1>1. Typed /\ IsPriv(priv) /\ IsHw(hw) /\ IrqPending /\ BetweenMessages(priv)
      /\ ~MayBegin(priv, hw.sr1)
  BY DEF BytesInv, Typed, IsrStateError
<1>2. Refused
  <2>1. ~Started
    BY <1>1 DEF Started, Due, MayBegin, Msgv
  <2>2. ~Addressed /\ ~Reading
    <3>1. Addressed \/ Reading => priv.dcnt # -1
      BY ListFacts DEF Addressed, Selecting, Reading, Single, Several, Sound, Placed
    <3> QED BY <1>1, <3>1 DEF BetweenMessages
  <2>3. ~Writing
    <3> SUFFICES ASSUME Writing PROVE FALSE
      OBVIOUS
    <3>1. NextContinues(priv) /\ hw.itbuf
      BY <1>1 DEF Writing, BetweenMessages
    <3>2. "TXE" \in hw.sr1
      BY <1>1, <3>1 DEF IrqPending, ErrorBits, Writing
    <3> QED BY <1>1, <3>1, <3>2 DEF MayBegin, NextContinues
  <2> QED BY <1>1, <2>1, <2>2, <2>3, Phases
<1>3. /\ IsState(s) /\ s.p = p /\ s.h = hw /\ s.b = buf
      /\ p.status = hw.sr1 \union {"TIMEOUT"} /\ p.branch = "state" /\ p.check = priv.check
      /\ p.cur = priv.cur /\ p.ptr = priv.ptr /\ p.msgv = priv.msgv
  <2>1. IsPriv(p) /\ p.status = hw.sr1 \union {"TIMEOUT"} /\ p.branch = "state"
        /\ p.check = priv.check /\ p.cur = priv.cur /\ p.ptr = priv.ptr /\ p.msgv = priv.msgv
    BY <1>1, LatchIs
  <2> HIDE DEF p
  <2> QED BY <1>1, <2>1 DEF IsState, IsRun
<1>4. /\ priv' = Shutdown(CheckErrors(s, TRUE)).p
      /\ hw' = Shutdown(CheckErrors(s, TRUE)).h
      /\ buf' = Shutdown(CheckErrors(s, TRUE)).b
      /\ msgs' = msgs /\ faulted' = faulted
  BY DEF IsrStateError, Apply
<1> HIDE DEF s, p
<1>5. /\ s.p.status \subseteq Bits /\ "AF" \in s.p.status
      /\ s.p.branch \in Branches \union {"state"} /\ s.p.branch # "nack"
      /\ s.h.mode = "held" /\ s.h.sr1 \subseteq {"AF", "TXE"} /\ ~s.h.start
  BY <1>2, <1>3 DEF Refused, Bits, ErrorBits
<1>6. /\ s.p.check = FALSE /\ s.p.ptr \in Nat
      /\ s.p.cur \in 0 .. Len(msgs) /\ s.p.msgv \in 0 .. Len(msgs)
  <2>1. ~priv.check
    BY <1>1, <1>2 DEF Refused, BetweenMessages
  <2> QED BY <1>1, <1>3, <2>1 DEF Typed, ByteTypeOK
<1> QED BY <1>1, <1>2, <1>3, <1>4, <1>5, <1>6, RefusedEnd

LEMMA BytesNext ==
  BytesInv /\ [ByteNext]_byteVars => BytesInv'
<1> SUFFICES ASSUME BytesInv, [ByteNext]_byteVars
             PROVE  BytesInv'
  OBVIOUS
<1>1. Typed
  BY DEF BytesInv
<1>2. CASE SetupBytes
  BY <1>2, BytesSetup
<1>3. CASE RunIsr
  <2>1. CASE IsrStateError
    BY <2>1, StateErrorStep
  <2>2. ASSUME NEW b \in Branches, IsrBranch(b)
        PROVE  BytesInv'
    <3>1. Started \/ Addressed \/ Writing \/ Reading \/ Refused
      BY <2>2, BranchRun, Phases
    <3>2. CASE Started
      BY <1>1, <2>2, <3>2, StartedStep
    <3>3. CASE Addressed
      BY <1>1, <2>2, <3>3, AddressedRead, AddressedWrite
    <3>4. CASE Writing
      <4>1. priv.dcnt > 0 \/ priv.dcnt = 0 \/ priv.dcnt = -1
        BY <3>4 DEF Writing
      <4> QED BY <1>1, <2>2, <3>4, <4>1, WritingMore, WritingEnd, WritingNext
    <3>5. CASE Reading
      <4>1. priv.dcnt = 1 \/ priv.dcnt = 2 \/ priv.dcnt > 2
        <5>1. priv.dcnt \in 1 .. msgs[priv.cur].length /\ msgs[priv.cur].length \in Nat
          BY <1>1, <2>2, <3>5, ReadingRun
        <5> QED BY <5>1
      <4> QED BY <1>1, <2>2, <3>5, <4>1, ReadingSingle, ReadingTwo, ReadingMore
    <3>6. CASE Refused
      BY <1>1, <2>2, <3>6, RefusedRun
    <3> QED BY <3>1, <3>2, <3>3, <3>4, <3>5, <3>6
  <2> QED BY <1>3, <2>1, <2>2 DEF RunIsr
<1>4. CASE Controller
  BY <1>4, StartStep, StopStep, AckStep, SendStep, ReceiveStep DEF Controller
<1>5. CASE Refuse
  BY <1>5, RefuseStep
<1>6. CASE UNCHANGED byteVars
  <2>1. priv' = priv /\ hw' = hw /\ msgs' = msgs /\ buf' = buf /\ faulted' = faulted
    BY <1>6 DEF byteVars
  <2>2. Typed'
    BY <1>1, <2>1 DEF Typed, ByteTypeOK, Current, Prefixed, Room
  <2>3. HwStep
    BY <1>1, <2>1 DEF HwStep, Typed, ByteTypeOK, Bits, Modes
  <2>4. /\ (Sound => Sound') /\ (Placed => Placed') /\ \A n : Stored(n) => Stored(n)'
        /\ Stored(Room(priv.cur)) => Stored(Room(priv.cur))'
        /\ (Quiet => Quiet') /\ (Due => Due') /\ (Selecting => Selecting')
    BY <2>1 DEF Sound, Placed, Stored, Room, Quiet, Due, Selecting
  <2>5. /\ Rest => Rest'
    BY <2>1 DEF Rest, Quiet, Room
  <2>6. /\ (Starting => Starting') /\ (Started => Started') /\ (Addressing => Addressing')
        /\ (Addressed => Addressed')
    BY <2>1, <2>4 DEF Starting, Started, Addressing, Addressed
  <2>7. Writing => Writing'
    BY <2>1, <2>4 DEF Writing, NextContinues, Msgv
  <2>8. Reading => Reading'
    <3>1. Unread' = Unread /\ (Single => Single') /\ (Several => Several')
      BY <2>1 DEF Unread, Single, Several
    <3>2. Stored(msgs[priv.cur].length - priv.dcnt)
            => Stored(msgs[priv.cur].length - priv.dcnt)'
      BY <2>1 DEF Stored, Room
    <3> QED BY <2>1, <2>4, <3>1, <3>2 DEF Reading
  <2>9. Refused => Refused'
    BY <2>1, <2>4 DEF Refused, NextContinues, Msgv
  <2> QED BY <2>2, <2>5, <2>6, <2>7, <2>8, <2>9 DEF BytesInv
<1> QED BY <1>2, <1>3, <1>4, <1>5, <1>6 DEF ByteNext

LEMMA BytesAlways == ByteSpec => []BytesInv
BY BytesInit, BytesNext, PTL DEF ByteSpec

-----------------------------------------------------------------------------
(* On a bus without faults stm32_i2c_isr_process() never comes to one of   *)
(* its two alternatives for an unknown state, whatever list of messages    *)
(* that it handles the caller passes and however late it is called.        *)
THEOREM BytesKnown == ByteSpec => []StateKnown
<1>1. BytesInv => StateKnown
  BY DEF BytesInv, Rest, Starting, Due, Started, Selecting, Addressing, Addressed, Writing,
         Reading, Sound, Refused, StateKnown
<1> QED BY <1>1, BytesAlways, PTL

(* A transfer that succeeds, or whose slave refuses its address, leaves    *)
(* the bus free or the stop condition asked for.                           *)
THEOREM BytesReleased == ByteSpec => []BusReleased
<1>1. BytesInv => BusReleased
  <2> SUFFICES ASSUME BytesInv, Ended, Succeeded \/ priv.branch = "nack"
               PROVE  hw.stop \/ hw.mode = "idle"
    BY DEF BusReleased
  <2>1. Rest /\ msgs # <<>>
    BY Phases DEF Ended
  <2>2. Succeeded => ~faulted
    BY <2>1 DEF Succeeded, Rest, ErrorBits
  <2> QED BY <2>1, <2>2 DEF Rest
<1> QED BY <1>1, BytesAlways, PTL

(* The refusal of an address or of a byte reaches the caller as an error,  *)
(* also when the interrupt for it is served together with an earlier one.  *)
THEOREM BytesReported == ByteSpec => []FaultsReported
<1>1. BytesInv => FaultsReported
  BY Phases DEF FaultsReported, Ended, Succeeded, Rest, ErrorBits
<1> QED BY <1>1, BytesAlways, PTL

(* The bytes of a message that reads are stored once, in the order of the  *)
(* wire and inside its buffer, and all of them when the transfer succeeds. *)
THEOREM BytesExact == ByteSpec => []ReadsExact
<1>1. BytesInv => ReadsExact
  <2> SUFFICES ASSUME BytesInv PROVE ReadsExact
    OBVIOUS
  <2>1. ByteTypeOK /\ DOMAIN buf = DOMAIN msgs /\ Prefixed
    BY DEF BytesInv, Typed
  <2>2. ASSUME NEW i \in DOMAIN buf
        PROVE  /\ Len(buf[i]) <= Room(i)
               /\ buf[i] = [k \in 1 .. Len(buf[i]) |-> <<k>>]
               /\ Succeeded => Len(buf[i]) = Room(i)
    <3>1. Room(i) \in Nat
      <4>1. msgs \in Lists \/ msgs = <<>>
        BY <2>1 DEF ByteTypeOK
      <4> QED BY <2>1, <4>1, ListFacts DEF Room
    <3>2. PICK n \in 0 .. Room(i) : buf[i] = Got(n)
      BY <2>1 DEF Prefixed
    <3>3. n \in Nat /\ n <= Room(i)
      BY <3>1
    <3>4. Len(buf[i]) = n
      BY <3>2, <3>3, GotIs
    <3>5. buf[i] = [k \in 1 .. Len(buf[i]) |-> <<k>>]
      BY <3>2, <3>4 DEF Got
    <3>6. Succeeded => Len(buf[i]) = Room(i)
      <4> SUFFICES ASSUME Succeeded PROVE Len(buf[i]) = Room(i)
        OBVIOUS
      <4>1. Rest /\ msgs # <<>>
        BY Phases DEF Succeeded, Ended
      <4>2. ~faulted
        BY <4>1 DEF Succeeded, Rest, ErrorBits
      <4>3. buf[i] = Got(Room(i))
        BY <2>1, <4>1, <4>2 DEF Rest
      <4> QED BY <3>1, <4>3, GotIs
    <3> QED BY <3>3, <3>4, <3>5, <3>6
  <2> QED BY <2>1, <2>2 DEF ReadsExact, Room
<1> QED BY <1>1, BytesAlways, PTL

-----------------------------------------------------------------------------
(* What a list of any length puts on the wire.  Induction up to n, for the *)
(* numbers with a property given as their set                              *)
LEMMA Upto ==
  ASSUME NEW n \in Nat, NEW S, 0 \in S,
         \A i, j \in 0 .. n : i \in S /\ j = i + 1 => j \in S
  PROVE  0 .. n \subseteq S
<1> DEFINE Miss == {i \in 0 .. n : i \notin S}
<1> SUFFICES ASSUME Miss # {} PROVE FALSE
  OBVIOUS
<1>1. /\ Miss \in SUBSET Nat /\ Miss \subseteq 0 .. n /\ \A x : x \in Miss => x \notin S
      /\ \A x \in 0 .. n : x \notin Miss => x \in S
  OBVIOUS
<1> HIDE DEF Miss
<1>2. PICK m \in Miss : \A y \in Miss : ~(<<y, m>> \in OpToRel(<, Nat))
  BY <1>1, WFMin, NatLessThanWellFounded, Zenon
<1>3. m \in 0 .. n /\ m \notin S /\ m # 0
  BY <1>1
<1>4. PICK i \in 0 .. n : m = i + 1
  BY <1>3
<1>5. <<i, m>> \in OpToRel(<, Nat)
  BY <1>3, <1>4 DEF OpToRel
<1>6. i \in S
  BY <1>1, <1>2, <1>5
<1> QED BY <1>3, <1>4, <1>6

(* f[i] is the concatenation of the first i sequences of q *)
Flattens(f, q, S) ==
  /\ f \in [0 .. Len(q) -> Seq(S)] /\ f[0] = <<>>
  /\ \A i, j \in 0 .. Len(q) : j = i + 1 => f[j] = f[i] \o q[j]

LEMMA FlatExists ==
  ASSUME NEW S, NEW q \in Seq(Seq(S))
  PROVE  \E f : Flattens(f, q, S)
<1> DEFINE n == Len(q)
           Ok(f, m) == /\ f \in [0 .. m -> Seq(S)] /\ f[0] = <<>>
                       /\ \A i, j \in 0 .. m : j = i + 1 => f[j] = f[i] \o q[j]
           K == {m \in 0 .. n : \E f : Ok(f, m)}
<1>1. n \in Nat /\ \A j \in 1 .. n : q[j] \in Seq(S)
  OBVIOUS
<1> HIDE DEF n
<1>2. 0 \in K
  <2> DEFINE f == [i \in 0 .. 0 |-> <<>>]
  <2>1. <<>> \in Seq(S)
    OBVIOUS
  <2>2. f \in [0 .. 0 -> Seq(S)] /\ f[0] = <<>>
    BY <2>1
  <2>3. Ok(f, 0)
    BY <2>2
  <2>4. 0 \in 0 .. n
    BY <1>1
  <2> HIDE DEF Ok, f
  <2> QED BY <2>3, <2>4
<1>3. ASSUME NEW m \in 0 .. n, NEW k \in 0 .. n, m \in K, k = m + 1 PROVE k \in K
  <2>1. PICK f : Ok(f, m)
    BY <1>3
  <2> DEFINE v == f[m] \o q[k]
             g == [i \in 0 .. k |-> IF i = k THEN v ELSE f[i]]
  <2>2. v \in Seq(S)
    <3>1. f[m] \in Seq(S) /\ q[k] \in Seq(S)
      BY <1>1, <1>3, <2>1
    <3> QED BY <3>1, ConcatProperties
  <2>3. g \in [0 .. k -> Seq(S)] /\ g[0] = <<>>
    <3> HIDE DEF v
    <3> QED BY <1>3, <2>1, <2>2
  <2>4. ASSUME NEW i \in 0 .. k, NEW j \in 0 .. k, j = i + 1 PROVE g[j] = g[i] \o q[j]
    <3>1. CASE j = k
      <4>1. i = m /\ i # k
        BY <1>3, <2>4, <3>1
      <4> QED BY <3>1, <4>1
    <3>2. CASE j # k
      <4>1. i \in 0 .. m /\ j \in 0 .. m /\ i # k
        BY <1>3, <2>4, <3>2
      <4>2. f[j] = f[i] \o q[j]
        BY <2>1, <2>4, <4>1
      <4> QED BY <3>2, <4>1, <4>2
    <3> QED BY <3>1, <3>2
  <2>5. Ok(g, k)
    BY <2>3, <2>4
  <2> HIDE DEF Ok, g
  <2> QED BY <2>5
<1> HIDE DEF K
<1>4. 0 .. n \subseteq K
  BY <1>1, <1>2, <1>3, Upto
<1>5. n \in K
  BY <1>1, <1>4
<1>6. PICK f : Ok(f, n)
  BY <1>5 DEF K
<1> QED BY <1>6 DEF n, Flattens

LEMMA FlattenSeqIs ==
  ASSUME NEW S, NEW q \in Seq(Seq(S)), Len(q) # 0, NEW f, Flattens(f, q, S)
  PROVE  FlattenSeq(q) = f[Len(q)]
<1> DEFINE n == Len(q)
           Eq(g) == g = [i \in 1 .. n |-> IF i = 1 THEN q[i] ELSE g[i - 1] \o q[i]]
           d == CHOOSE g : Eq(g)
           h == [i \in 1 .. n |-> f[i]]
<1>1. n \in Nat \ {0} /\ \A j \in 1 .. n : q[j] \in Seq(S)
  OBVIOUS
<1>2. f[1] = q[1]
  <2>1. 0 \in 0 .. n /\ 1 \in 0 .. n /\ 1 = 0 + 1
    BY <1>1
  <2>2. f[1] = <<>> \o q[1]
    BY <2>1 DEF Flattens
  <2>3. q[1] \in Seq(S)
    BY <1>1
  <2> QED BY <2>2, <2>3, ConcatEmptySeq
<1>3. \A i \in 1 .. n : i # 1 => i - 1 \in 1 .. n /\ f[i] = f[i - 1] \o q[i]
  <2> TAKE i \in 1 .. n
  <2> HAVE i # 1
  <2>1. i - 1 \in 1 .. n /\ i - 1 \in 0 .. n /\ i \in 0 .. n /\ i = (i - 1) + 1
    BY <1>1
  <2> QED BY <2>1 DEF Flattens
<1>4. FlattenSeq(q) = d[n]
  BY DEF FlattenSeq
<1> HIDE DEF n
<1>5. Eq(h)
  <2>1. \A i \in 1 .. n : h[i] = IF i = 1 THEN q[i] ELSE h[i - 1] \o q[i]
    BY <1>2, <1>3
  <2> QED BY <2>1
<1>6. Eq(d)
  <2> HIDE DEF h, Eq
  <2> QED BY <1>5
<1> HIDE DEF d
<1>7. \A i \in 1 .. n : d[i] = IF i = 1 THEN q[i] ELSE d[i - 1] \o q[i]
  BY <1>6
<1> DEFINE K == {i \in 0 .. n : i > 0 => d[i] = f[i]}
<1>8. 0 .. n \subseteq K
  <2>1. 0 \in K
    BY <1>1
  <2>2. ASSUME NEW i \in 0 .. n, NEW j \in 0 .. n, i \in K, j = i + 1 PROVE j \in K
    <3>1. CASE i = 0
      BY <1>2, <1>7, <2>2, <3>1
    <3>2. CASE i # 0
      <4>1. j \in 1 .. n /\ j # 1 /\ j - 1 = i /\ d[i] = f[i]
        BY <1>1, <2>2, <3>2
      <4>2. d[j] = d[i] \o q[j]
        BY <1>7, <4>1
      <4>3. f[j] = f[i] \o q[j]
        BY <1>3, <4>1
      <4> QED BY <4>1, <4>2, <4>3
    <3> QED BY <3>1, <3>2
  <2> HIDE DEF K
  <2> QED BY <1>1, <2>1, <2>2, Upto
<1>9. d[n] = f[n]
  BY <1>1, <1>8
<1> QED BY <1>4, <1>9 DEF n
LEMMA PairIs ==
  ASSUME NEW a, NEW b
  PROVE  <<a>> \o <<b>> = <<a, b>>
<1>1. <<a>> \in Seq({a, b}) /\ <<b>> \in Seq({a, b}) /\ Len(<<a>>) = 1 /\ Len(<<b>>) = 1
  OBVIOUS
<1>2. Len(<<a>> \o <<b>>) = 2 /\ \A i \in 1 .. 2 : (<<a>> \o <<b>>)[i] = <<a, b>>[i]
  BY <1>1
<1>3. <<a>> \o <<b>> \in Seq({a, b}) /\ <<a, b>> \in Seq({a, b}) /\ Len(<<a, b>>) = 2
  BY <1>1
<1> QED BY <1>2, <1>3, SeqEqual

(* What is on the wire in a transfer without faults *)
Tokens ==
  {START, STOP} \union {ADDRESS(a, r) : a \in Nat, r \in BOOLEAN}
  \union {WRITTEN(x) : x \in Nat \X Nat} \union {RECEIVED(k, a) : k \in Nat, a \in BOOLEAN}

(* One message of the list, from its start condition, if it has one *)
Opening(l, i) == IF l[i].nostart THEN <<>> ELSE <<START, ADDRESS(l[i].addr, l[i].read)>>

Closing(l, i) == IF i = Len(l) THEN <<STOP>> ELSE <<>>

Parts(l) == [i \in 1 .. Len(l) |-> Opening(l, i) \o Bytes(l, i) \o Closing(l, i)]

(* The first i messages, and with them n bytes of the next *)
Flat(l, i) == (CHOOSE f : Flattens(f, Parts(l), Tokens))[i]

First(l, i, n) == [k \in 1 .. n |-> Bytes(l, i)[k]]

Sofar(l, i, n) == Flat(l, i - 1) \o (Opening(l, i) \o First(l, i, n))

LEMMA TokenReceived ==
  ASSUME NEW k \in Nat, NEW a \in BOOLEAN
  PROVE  RECEIVED(k, a) \in Tokens
BY DEF Tokens

LEMMA PartFacts ==
  ASSUME NEW l \in Lists, NEW i \in 1 .. Len(l)
  PROVE  /\ l[i].length \in Nat
         /\ Opening(l, i) \in Seq(Tokens) /\ Closing(l, i) \in Seq(Tokens)
         /\ Bytes(l, i) \in Seq(Tokens) /\ Len(Bytes(l, i)) = l[i].length
         /\ \A k \in 1 .. l[i].length : Bytes(l, i)[k] \in Tokens
         /\ START \in Tokens /\ STOP \in Tokens /\ ADDRESS(l[i].addr, l[i].read) \in Tokens
<1>1. l[i] \in Message /\ i \in Nat
  BY ListsAssumption
<1>2. l[i].length \in Nat /\ l[i].addr \in Nat /\ l[i].read \in BOOLEAN
  BY <1>1 DEF Message
<1>3. START \in Tokens /\ STOP \in Tokens /\ ADDRESS(l[i].addr, l[i].read) \in Tokens
  BY <1>2 DEF Tokens
<1>4. Opening(l, i) \in Seq(Tokens) /\ Closing(l, i) \in Seq(Tokens)
  <2> HIDE DEF START, STOP, ADDRESS
  <2> QED BY <1>3 DEF Opening, Closing
<1>5. ASSUME NEW k \in 1 .. l[i].length
      PROVE  (IF l[i].read THEN RECEIVED(k, k < l[i].length) ELSE WRITTEN(<<i, k>>)) \in Tokens
  <2>1. k \in Nat /\ <<i, k>> \in Nat \X Nat /\ (k < l[i].length) \in BOOLEAN
    BY <1>1, <1>2
  <2>2. RECEIVED(k, k < l[i].length) \in Tokens
    BY <2>1, TokenReceived, Zenon
  <2>3. WRITTEN(<<i, k>>) \in Tokens
    <3>1. WRITTEN(<<i, k>>) \in {WRITTEN(x) : x \in Nat \X Nat}
      BY <2>1
    <3> QED BY <3>1 DEF Tokens
  <2> QED BY <2>2, <2>3
<1>6. /\ Bytes(l, i) \in [1 .. l[i].length -> Tokens]
      /\ \A k \in 1 .. l[i].length : Bytes(l, i)[k] \in Tokens
  BY <1>5 DEF Bytes
<1>7. Bytes(l, i) \in Seq(Tokens) /\ Len(Bytes(l, i)) = l[i].length
  BY <1>2, <1>6
<1> QED BY <1>2, <1>3, <1>4, <1>6, <1>7

LEMMA FlatFacts ==
  ASSUME NEW l \in Lists
  PROVE  /\ Len(l) \in Nat \ {0} /\ Flat(l, 0) = <<>> /\ Flat(l, Len(l)) = Combined(l)
         /\ \A i \in 0 .. Len(l) : Flat(l, i) \in Seq(Tokens)
         /\ \A i \in 1 .. Len(l) :
              Flat(l, i) = Flat(l, i - 1) \o (Opening(l, i) \o Bytes(l, i) \o Closing(l, i))
<1> DEFINE q == Parts(l)
           f == CHOOSE g : Flattens(g, q, Tokens)
<1>1. Len(l) \in Nat \ {0}
  BY ListsAssumption
<1>2. q \in Seq(Seq(Tokens)) /\ Len(q) = Len(l)
  <2>1. ASSUME NEW i \in 1 .. Len(l)
        PROVE  Opening(l, i) \o Bytes(l, i) \o Closing(l, i) \in Seq(Tokens)
    <3>1. /\ Opening(l, i) \in Seq(Tokens) /\ Closing(l, i) \in Seq(Tokens)
          /\ Bytes(l, i) \in Seq(Tokens)
      BY PartFacts
    <3>2. Opening(l, i) \o Bytes(l, i) \in Seq(Tokens)
      BY <3>1, ConcatProperties
    <3> QED BY <3>1, <3>2, ConcatProperties
  <2>2. q \in [1 .. Len(l) -> Seq(Tokens)]
    BY <2>1 DEF Parts
  <2> HIDE DEF q
  <2> QED BY <1>1, <2>2
<1>3. Flattens(f, q, Tokens)
  <2> HIDE DEF q
  <2> QED BY <1>2, FlatExists
<1>4. \A i : Flat(l, i) = f[i]
  BY DEF Flat
<1>5. Combined(l) = FlattenSeq(q)
  BY DEF Combined, OnWire, Parts, Opening, Closing
<1>6. \A i \in 1 .. Len(l) : q[i] = Opening(l, i) \o Bytes(l, i) \o Closing(l, i)
  BY DEF Parts
<1> HIDE DEF f, q
<1>7. Combined(l) = f[Len(l)]
  BY <1>1, <1>2, <1>3, <1>5, FlattenSeqIs
<1>8. \A i \in 1 .. Len(l) : f[i] = f[i - 1] \o q[i]
  <2> TAKE i \in 1 .. Len(l)
  <2>1. i - 1 \in 0 .. Len(q) /\ i \in 0 .. Len(q) /\ i = (i - 1) + 1
    BY <1>1, <1>2
  <2> QED BY <1>3, <2>1 DEF Flattens
<1>9. f[0] = <<>> /\ \A i \in 0 .. Len(l) : f[i] \in Seq(Tokens)
  BY <1>2, <1>3 DEF Flattens
<1> QED BY <1>1, <1>4, <1>6, <1>7, <1>8, <1>9

(* How the wire of a transfer grows *)
LEMMA WireGrows ==
  ASSUME NEW l \in Lists, NEW i \in 1 .. Len(l)
  PROVE  /\ ~l[i].nostart =>
              Flat(l, i - 1) \o <<START>> \o <<ADDRESS(l[i].addr, l[i].read)>> = Sofar(l, i, 0)
         /\ l[i].nostart => Flat(l, i - 1) = Sofar(l, i, 0)
         /\ \A n \in 0 .. l[i].length : Sofar(l, i, n) \in Seq(Tokens)
         /\ \A n \in 0 .. l[i].length : n < l[i].length =>
              Sofar(l, i, n) \o <<Bytes(l, i)[n + 1]>> = Sofar(l, i, n + 1)
         /\ i # Len(l) => Sofar(l, i, l[i].length) = Flat(l, i)
         /\ i = Len(l) => Sofar(l, i, l[i].length) \o <<STOP>> = Flat(l, i)
<1> DEFINE F == Flat(l, i - 1)
           O == Opening(l, i)
           B == Bytes(l, i)
           n0 == l[i].length
<1>1. /\ n0 \in Nat /\ O \in Seq(Tokens) /\ B \in Seq(Tokens) /\ Len(B) = n0
      /\ \A k \in 1 .. n0 : B[k] \in Tokens
      /\ START \in Tokens /\ STOP \in Tokens /\ ADDRESS(l[i].addr, l[i].read) \in Tokens
  BY PartFacts
<1>2. F \in Seq(Tokens)
  <2>1. i - 1 \in 0 .. Len(l)
    BY FlatFacts
  <2> QED BY <2>1, FlatFacts
<1>3. ASSUME NEW n \in 0 .. n0
      PROVE  First(l, i, n) \in Seq(Tokens) /\ Len(First(l, i, n)) = n
  <2>1. First(l, i, n) \in [1 .. n -> Tokens] /\ n \in Nat
    BY <1>1, <1>3 DEF First
  <2> QED BY <2>1 DEF First
<1>4. First(l, i, 0) = <<>>
  BY DEF First
<1>5. First(l, i, n0) = B
  BY <1>1 DEF First
<1>6. ASSUME NEW n \in 0 .. n0, n < n0
      PROVE  First(l, i, n) \o <<B[n + 1]>> = First(l, i, n + 1)
  BY <1>1, <1>3, <1>6 DEF First
<1>7. /\ ~l[i].nostart => O = <<START, ADDRESS(l[i].addr, l[i].read)>>
      /\ l[i].nostart => O = <<>>
  BY DEF Opening
<1>8. Flat(l, i) = F \o (O \o B \o Closing(l, i))
  BY FlatFacts
<1>9. \A n : Sofar(l, i, n) = F \o (O \o First(l, i, n))
  BY DEF Sofar
<1>10. O \o B \in Seq(Tokens) /\ O \o <<>> = O
  BY <1>1, ConcatProperties, ConcatEmptySeq
<1> HIDE DEF F, O, B, n0
<1>11. Sofar(l, i, 0) = F \o O
  BY <1>4, <1>9, <1>10
<1>12. ~l[i].nostart =>
         F \o <<START>> \o <<ADDRESS(l[i].addr, l[i].read)>> = Sofar(l, i, 0)
  <2> SUFFICES ASSUME ~l[i].nostart
               PROVE  F \o <<START>> \o <<ADDRESS(l[i].addr, l[i].read)>> = F \o O
    BY <1>11
  <2> DEFINE a == START
             b == ADDRESS(l[i].addr, l[i].read)
  <2>1. a \in Tokens /\ b \in Tokens /\ O = <<a, b>>
    BY <1>1, <1>7
  <2> HIDE DEF a, b
  <2>2. <<a>> \in Seq(Tokens) /\ <<b>> \in Seq(Tokens) /\ <<a>> \o <<b>> = <<a, b>>
    <3>1. <<a>> \in Seq(Tokens) /\ <<b>> \in Seq(Tokens)
      BY <2>1
    <3>2. <<a>> \o <<b>> = <<a, b>>
      BY PairIs
    <3> QED BY <3>1, <3>2
  <2>3. F \o <<a>> \o <<b>> = F \o (<<a>> \o <<b>>)
    BY <1>2, <2>2, ConcatAssociative
  <2> QED BY <2>1, <2>2, <2>3 DEF a, b
<1>13. l[i].nostart => F = Sofar(l, i, 0)
  BY <1>2, <1>7, <1>11, ConcatEmptySeq
<1>14. ASSUME NEW n \in 0 .. n0
       PROVE  /\ Sofar(l, i, n) \in Seq(Tokens)
              /\ n < n0 => Sofar(l, i, n) \o <<B[n + 1]>> = Sofar(l, i, n + 1)
  <2> DEFINE f == First(l, i, n)
  <2>1. f \in Seq(Tokens) /\ O \o f \in Seq(Tokens)
    BY <1>1, <1>3, ConcatProperties
  <2> HIDE DEF f
  <2>2. Sofar(l, i, n) \in Seq(Tokens)
    BY <1>2, <1>9, <2>1, ConcatProperties DEF f
  <2>3. ASSUME n < n0 PROVE Sofar(l, i, n) \o <<B[n + 1]>> = Sofar(l, i, n + 1)
    <3> DEFINE e == B[n + 1]
    <3>1. <<e>> \in Seq(Tokens)
      BY <1>1, <2>3
    <3>2. f \o <<e>> = First(l, i, n + 1)
      BY <1>6, <2>3 DEF f
    <3> DEFINE u == <<e>>
    <3> HIDE DEF e, u
    <3>3. u \in Seq(Tokens) /\ O \in Seq(Tokens)
      BY <1>1, <3>1 DEF u
    <3>4. (O \o f) \o u = O \o (f \o u)
      BY <2>1, <3>3, ConcatAssociative
    <3>5. (F \o (O \o f)) \o u = F \o ((O \o f) \o u)
      <4> DEFINE v == O \o f
      <4>1. v \in Seq(Tokens)
        BY <2>1
      <4> HIDE DEF v
      <4>2. (F \o v) \o u = F \o (v \o u)
        BY <1>2, <3>3, <4>1
      <4> QED BY <4>2 DEF v
    <3> QED BY <1>9, <3>2, <3>4, <3>5 DEF e, f, u
  <2> QED BY <2>2, <2>3
<1>15. Sofar(l, i, n0) = F \o (O \o B)
  BY <1>5, <1>9
<1>16. i # Len(l) => Sofar(l, i, n0) = Flat(l, i)
  <2>1. (O \o B) \o <<>> = O \o B
    BY <1>10, ConcatEmptySeq
  <2> QED BY <1>8, <1>15, <2>1 DEF Closing
<1>17. i = Len(l) => Sofar(l, i, n0) \o <<STOP>> = Flat(l, i)
  <2>1. <<STOP>> \in Seq(Tokens)
    BY <1>1
  <2>2. (F \o (O \o B)) \o <<STOP>> = F \o ((O \o B) \o <<STOP>>)
    <3> DEFINE u == <<STOP>>
               v == O \o B
    <3>1. u \in Seq(Tokens) /\ v \in Seq(Tokens)
      BY <1>10, <2>1
    <3> HIDE DEF u, v
    <3>2. (F \o v) \o u = F \o (v \o u)
      BY <1>2, <3>1, ConcatAssociative
    <3> QED BY <3>2 DEF u, v
  <2> QED BY <1>8, <1>15, <2>2 DEF Closing
<1> QED BY <1>12, <1>13, <1>14, <1>16, <1>17 DEF F, B, n0

-----------------------------------------------------------------------------
(* What is on the wire, phase by phase *)
Out(v) == IF v = <<>> THEN <<>> ELSE <<WRITTEN(v)>>

(* What the data register and the shift register hold in a message that is *)
(* written                                                                 *)
OutBytes == {<<>>} \union (Nat \X Nat)

WireInv ==
  msgs # <<>> /\ ~faulted =>
    /\ wire \in Seq(Tokens)
    /\ priv.done => Sent = Combined(msgs)
    /\ ~priv.done /\ hw.start => wire = Flat(msgs, priv.cur)
    /\ ~priv.done /\ ~hw.start =>
         /\ hw.mode = "sb" => wire = Flat(msgs, priv.cur) \o <<START>>
         /\ hw.mode = "addr" =>
              /\ wire = Flat(msgs, priv.cur - 1) \o <<START>> /\ ~msgs[priv.cur].nostart
              /\ hw.dr = <<msgs[priv.cur].addr, msgs[priv.cur].read>>
         /\ hw.mode = "wait" => wire = Sofar(msgs, priv.cur, 0)
         /\ hw.mode = "tx" =>
              /\ hw.shift \in OutBytes /\ hw.dr \in OutBytes
              /\ (wire \o Out(hw.shift)) \o Out(hw.dr) = Sofar(msgs, priv.cur, priv.ptr - 1)
         /\ hw.mode = "rx" => wire = Sofar(msgs, priv.cur, hw.k)
         /\ hw.mode = "idle" => wire = Flat(msgs, priv.cur)

LEMMA Grown ==
  ASSUME NEW w \in Seq(Tokens), NEW t \in Tokens
  PROVE  w \o <<t>> \in Seq(Tokens) /\ w \o <<>> = w
<1>1. <<t>> \in Seq(Tokens)
  OBVIOUS
<1> QED BY <1>1, ConcatProperties, ConcatEmptySeq

LEMMA ControlTokens == START \in Tokens /\ STOP \in Tokens
BY DEF Tokens

LEMMA OutIs ==
  ASSUME NEW v \in Nat \X Nat
  PROVE  v # <<>> /\ v \in OutBytes /\ Out(v) = <<WRITTEN(v)>> /\ WRITTEN(v) \in Tokens
<1>1. v # <<>>
  <2>1. PICK a \in Nat, b \in Nat : v = <<a, b>>
    OBVIOUS
  <2> QED BY <2>1
<1>2. WRITTEN(v) \in {WRITTEN(x) : x \in Nat \X Nat}
  OBVIOUS
<1>3. WRITTEN(v) \in Tokens
  BY <1>2 DEF Tokens
<1> QED BY <1>1, <1>3 DEF Out, OutBytes

LEMMA OutNothing == Out(<<>>) = <<>> /\ <<>> \in OutBytes
BY DEF Out, OutBytes

LEMMA WireSetup ==
  ASSUME BytesInv, SetupBytes
  PROVE  WireInv'
<1>1. Starting' /\ priv'.cur = 0 /\ wire' = <<>>
  BY BytesSetup
<1>2. msgs' \in Lists /\ ~priv'.done /\ hw'.start
  BY <1>1 DEF Starting, Due, Sound, Placed
<1>3. Flat(msgs', 0) = <<>>
  BY <1>2, FlatFacts
<1>4. wire' \in Seq(Tokens)
  BY <1>1
<1> QED BY <1>1, <1>2, <1>3, <1>4 DEF WireInv

LEMMA WireStart ==
  ASSUME BytesInv, WireInv, StartCondition
  PROVE  WireInv'
<1>1. /\ Starting /\ Started' /\ wire' = wire \o <<START>>
      /\ msgs' = msgs /\ priv' = priv /\ faulted' = faulted
  BY StartStep
<1>2. ~priv.done /\ hw.start /\ msgs \in Lists /\ msgs # <<>> /\ ~faulted
  BY <1>1, ListFacts DEF Starting, Due, Sound, Placed
<1>3. hw'.mode = "sb" /\ ~hw'.start
  BY <1>1 DEF Started
<1>4. wire = Flat(msgs, priv.cur) /\ wire \in Seq(Tokens)
  BY <1>2 DEF WireInv
<1>5. wire' \in Seq(Tokens)
  BY <1>1, <1>4, Grown, ControlTokens
<1> QED BY <1>1, <1>2, <1>3, <1>4, <1>5 DEF WireInv

LEMMA WireStop ==
  ASSUME BytesInv, WireInv, StopCondition
  PROVE  WireInv'
<1>1. /\ msgs' = msgs /\ priv' = priv /\ faulted' = faulted
      /\ hw.stop /\ wire' = wire \o <<STOP>> /\ ~hw'.stop /\ hw'.mode = "idle"
      /\ \/ priv.done
         \/ Reading /\ ~hw'.start /\ hw.mode = "rx" /\ hw.k = 1 /\ msgs[priv.cur].length = 1
  BY StopStep
<1> SUFFICES ASSUME msgs # <<>>, ~faulted
             PROVE  WireInv'
  BY <1>1 DEF WireInv
<1>2. wire \in Seq(Tokens)
  BY DEF WireInv
<1>3. wire' \in Seq(Tokens) /\ wire' \o <<>> = wire'
  BY <1>1, <1>2, Grown, ControlTokens
<1>4. CASE priv.done
  BY <1>1, <1>3, <1>4 DEF WireInv, Sent
<1>5. CASE ~priv.done
  <2>1. Reading /\ ~hw'.start /\ hw.mode = "rx" /\ hw.k = 1 /\ msgs[priv.cur].length = 1
    BY <1>1, <1>5
  <2>2. /\ msgs \in Lists /\ priv.cur \in 1 .. Len(msgs) /\ priv.cur = Len(msgs) /\ ~hw.start
    <3>1. /\ msgs \in Lists /\ priv.cur > 0 /\ priv.cur \in 0 .. Len(msgs) /\ ~hw.start
          /\ priv.msgc = Len(msgs) - priv.cur
      BY <2>1 DEF Reading, Sound, Placed
    <3>2. priv.msgc = 0
      BY <1>1, <2>1 DEF Reading, Single, Several
    <3> QED BY <3>1, <3>2, ListFacts
  <2>3. wire = Sofar(msgs, priv.cur, 1)
    BY <1>5, <2>1, <2>2 DEF WireInv
  <2>4. wire' = Flat(msgs, priv.cur)
    BY <1>1, <2>1, <2>2, <2>3, WireGrows
  <2> QED BY <1>1, <1>3, <1>5, <2>1, <2>4 DEF WireInv
<1> QED BY <1>4, <1>5

LEMMA WireAck ==
  ASSUME BytesInv, WireInv, AddressAck
  PROVE  WireInv'
<1>1. /\ msgs' = msgs /\ priv' = priv /\ faulted' = faulted
      /\ Addressing /\ Addressed' /\ wire' = wire \o <<ADDRESS(hw.dr[1], hw.dr[2])>>
  BY AckStep
<1>2. /\ ~priv.done /\ ~hw.start /\ msgs \in Lists /\ msgs # <<>> /\ ~faulted
      /\ hw.mode = "addr" /\ priv.cur \in 1 .. Len(msgs)
  BY <1>1, ListFacts DEF Addressing, Selecting, Sound, Placed
<1>3. hw'.mode = "wait" /\ ~hw'.start
  BY <1>1 DEF Addressed, Selecting
<1>4. /\ wire = Flat(msgs, priv.cur - 1) \o <<START>> /\ ~msgs[priv.cur].nostart
      /\ hw.dr = <<msgs[priv.cur].addr, msgs[priv.cur].read>>
  BY <1>2 DEF WireInv
<1>5. hw.dr[1] = msgs[priv.cur].addr /\ hw.dr[2] = msgs[priv.cur].read
  BY <1>4
<1>6. wire' = Sofar(msgs, priv.cur, 0)
  BY <1>1, <1>2, <1>4, <1>5, WireGrows
<1>7. wire' \in Seq(Tokens)
  <2>1. msgs[priv.cur].length \in Nat
    BY <1>2, ListFacts
  <2>2. 0 \in 0 .. msgs[priv.cur].length
    BY <2>1
  <2> QED BY <1>2, <1>6, <2>2, WireGrows
<1> QED BY <1>1, <1>2, <1>3, <1>6, <1>7 DEF WireInv

LEMMA WireSend ==
  ASSUME BytesInv, WireInv, SendByte
  PROVE  WireInv'
<1>1. /\ msgs' = msgs /\ priv' = priv /\ faulted' = faulted
      /\ Writing /\ Writing' /\ hw.shift # <<>> /\ wire' = wire \o <<WRITTEN(hw.shift)>>
      /\ hw'.shift = hw.dr /\ hw'.dr = <<>>
  BY SendStep
<1>2. /\ ~priv.done /\ ~hw.start /\ msgs # <<>> /\ ~faulted /\ hw.mode = "tx"
      /\ hw'.mode = "tx" /\ ~hw'.start
  BY <1>1, ListFacts DEF Writing, Sound, Placed
<1>3. /\ wire \in Seq(Tokens) /\ hw.shift \in OutBytes /\ hw.dr \in OutBytes
      /\ (wire \o Out(hw.shift)) \o Out(hw.dr) = Sofar(msgs, priv.cur, priv.ptr - 1)
  BY <1>2 DEF WireInv
<1>4. hw.shift \in Nat \X Nat
  BY <1>1, <1>3 DEF OutBytes
<1>5. Out(hw.shift) = <<WRITTEN(hw.shift)>> /\ WRITTEN(hw.shift) \in Tokens
  BY <1>4, OutIs
<1>6. wire' \in Seq(Tokens)
  BY <1>1, <1>3, <1>5, Grown
<1>7. wire' \o Out(hw.dr) \in Seq(Tokens)
  <2>1. CASE hw.dr = <<>>
    BY <1>6, <2>1, OutNothing, Grown, ControlTokens
  <2>2. CASE hw.dr # <<>>
    <3>1. Out(hw.dr) = <<WRITTEN(hw.dr)>> /\ WRITTEN(hw.dr) \in Tokens
      BY <1>3, <2>2, OutIs DEF OutBytes
    <3> QED BY <1>6, <3>1, Grown
  <2> QED BY <2>1, <2>2
<1>8. (wire' \o Out(hw'.shift)) \o Out(hw'.dr) = Sofar(msgs, priv.cur, priv.ptr - 1)
  <2>1. (wire' \o Out(hw.dr)) \o <<>> = wire' \o Out(hw.dr)
    BY <1>7, ConcatEmptySeq
  <2> QED BY <1>1, <1>3, <1>5, <2>1, OutNothing
<1> QED BY <1>1, <1>2, <1>3, <1>6, <1>8, OutNothing DEF WireInv

LEMMA WireReceive ==
  ASSUME BytesInv, WireInv, ReceiveByte
  PROVE  WireInv'
<1> DEFINE n == msgs[priv.cur].length
<1>1. /\ msgs' = msgs /\ priv' = priv /\ faulted' = faulted
      /\ Reading /\ Reading' /\ hw.mode = "rx" /\ hw'.mode = "rx"
      /\ hw.k \in 0 .. n /\ hw.k < n /\ hw'.k = hw.k + 1
      /\ wire' = wire \o <<RECEIVED(hw.k + 1, hw.k + 1 < n)>>
  BY ReceiveStep
<1>2. /\ ~priv.done /\ ~hw.start /\ msgs \in Lists /\ msgs # <<>> /\ ~faulted /\ ~hw'.start
      /\ priv.cur \in 1 .. Len(msgs) /\ msgs[priv.cur].read /\ n \in Nat
  BY <1>1, ListFacts DEF Reading, Sound, Placed
<1>3. wire = Sofar(msgs, priv.cur, hw.k)
  BY <1>1, <1>2 DEF WireInv
<1>4. hw.k + 1 \in 1 .. n /\ hw.k + 1 \in 0 .. n
  BY <1>1, <1>2
<1>5. Bytes(msgs, priv.cur)[hw.k + 1] = RECEIVED(hw.k + 1, hw.k + 1 < n)
  BY <1>2, <1>4 DEF Bytes
<1>6. wire' = Sofar(msgs, priv.cur, hw.k + 1)
  BY <1>1, <1>2, <1>3, <1>5, WireGrows
<1>7. wire' \in Seq(Tokens)
  BY <1>2, <1>4, <1>6, WireGrows
<1> QED BY <1>1, <1>2, <1>6, <1>7 DEF WireInv

LEMMA WireStarted ==
  ASSUME Typed, WireInv, Started, NEW b \in Branches, IsrBranch(b),
         \A l \in Lists : OneSlave(l)
  PROVE  WireInv'
<1>1. /\ Addressing' /\ msgs' = msgs /\ wire' = wire
      /\ priv'.cur = priv.cur + 1 /\ priv'.cur \in 1 .. Len(msgs)
      /\ hw'.dr[1] \in {msgs[i].addr : i \in DOMAIN msgs}
      /\ hw'.dr = <<hw'.dr[1], msgs[priv'.cur].read>>
  BY StartedStep
<1>2. /\ ~priv.done /\ ~hw.start /\ msgs \in Lists /\ msgs # <<>> /\ ~faulted /\ hw.mode = "sb"
      /\ ~msgs[priv.msgv].nostart /\ priv.msgv = priv.cur + 1 /\ priv.cur \in Nat
  BY ListFacts DEF Started, Due, Sound, Placed
<1>3. ~priv'.done /\ ~hw'.start /\ hw'.mode = "addr"
  BY <1>1 DEF Addressing, Selecting, Sound, Placed
<1>4. wire = Flat(msgs, priv.cur) \o <<START>> /\ wire \in Seq(Tokens)
  BY <1>2 DEF WireInv
<1>5. priv'.cur - 1 = priv.cur
  BY <1>1, <1>2
<1>6. hw'.dr = <<msgs[priv'.cur].addr, msgs[priv'.cur].read>>
  <2>1. OneSlave(msgs) /\ DOMAIN msgs = 1 .. Len(msgs)
    BY <1>2, ListFacts
  <2>2. hw'.dr[1] = msgs[1].addr /\ msgs[priv'.cur].addr = msgs[1].addr
    BY <1>1, <2>1 DEF OneSlave
  <2> QED BY <1>1, <2>2
<1>7. /\ wire' = Flat(msgs', priv'.cur - 1) \o <<START>> /\ ~msgs'[priv'.cur].nostart
      /\ hw'.dr = <<msgs'[priv'.cur].addr, msgs'[priv'.cur].read>>
      /\ wire' \in Seq(Tokens)
  BY <1>1, <1>2, <1>4, <1>5, <1>6
<1> QED BY <1>3, <1>7 DEF WireInv

LEMMA WireAddressedRead ==
  ASSUME Typed, WireInv, Addressed, msgs[priv.cur].read, NEW b \in Branches, IsrBranch(b)
  PROVE  WireInv'
<1>1. /\ Reading' /\ msgs' = msgs /\ wire' = wire
      /\ priv'.cur = priv.cur /\ hw'.mode = "rx" /\ hw'.k = 0
  BY AddressedRead
<1>2. ~priv.done /\ ~hw.start /\ msgs # <<>> /\ ~faulted /\ hw.mode = "wait"
  BY ListFacts DEF Addressed, Selecting, Sound, Placed
<1>3. ~priv'.done /\ ~hw'.start
  BY <1>1 DEF Reading, Sound, Placed
<1>4. wire = Sofar(msgs, priv.cur, 0) /\ wire \in Seq(Tokens)
  BY <1>2 DEF WireInv
<1> QED BY <1>1, <1>3, <1>4 DEF WireInv

(* The bytes that a run writes come next on the wire *)
LEMMA WireWrites ==
  ASSUME NEW c, NEW x, NEW v \in OutBytes, WritesOn(c, x, v), BytesInv', Writing',
         msgs \in Lists, ~msgs[c].read, wire \in Seq(Tokens),
         wire \o Out(v) = Sofar(msgs, c, x - 1)
  PROVE  WireInv'
<1> DEFINE n == msgs[c].length
           B == Bytes(msgs, c)
<1>1. /\ msgs' = msgs /\ wire' = wire /\ priv'.cur = c /\ c \in 1 .. Len(msgs)
      /\ x \in Nat \ {0}
  BY DEF WritesOn
<1>2. /\ ~priv'.done /\ ~hw'.start /\ hw'.mode = "tx" /\ n \in Nat /\ priv'.ptr <= n + 1
  <2>1. /\ ~priv'.done /\ ~hw'.start /\ hw'.mode = "tx"
    BY DEF Writing, Sound, Placed
  <2>2. n \in Nat
    BY <1>1, ListFacts
  <2>3. /\ priv'.ptr = n + 1 - (IF priv'.dcnt = -1 THEN 0 ELSE priv'.dcnt)
        /\ priv'.dcnt > 0 \/ priv'.dcnt = 0 \/ priv'.dcnt = -1
    BY <1>1 DEF Writing
  <2>4. priv'.dcnt \in Int /\ priv'.ptr \in Nat
    BY DEF BytesInv, Typed, ByteTypeOK
  <2> HIDE DEF n
  <2> QED BY <2>1, <2>2, <2>3, <2>4
<1>3. ASSUME NEW k \in 1 .. n
      PROVE  /\ B[k] = WRITTEN(<<c, k>>) /\ <<c, k>> \in Nat \X Nat
             /\ Sofar(msgs, c, k - 1) \in Seq(Tokens) /\ Sofar(msgs, c, k) \in Seq(Tokens)
             /\ Sofar(msgs, c, k - 1) \o Out(<<c, k>>) = Sofar(msgs, c, k)
  <2>1. B[k] = WRITTEN(<<c, k>>)
    BY DEF Bytes
  <2>2. <<c, k>> \in Nat \X Nat
    BY <1>1, <1>2
  <2>3. k - 1 \in 0 .. n /\ k \in 0 .. n /\ (k - 1) + 1 = k /\ k - 1 < n
    BY <1>2
  <2>4. Sofar(msgs, c, k - 1) \o <<B[(k - 1) + 1]>> = Sofar(msgs, c, (k - 1) + 1)
        /\ Sofar(msgs, c, k - 1) \in Seq(Tokens) /\ Sofar(msgs, c, k) \in Seq(Tokens)
    BY <1>1, <2>3, WireGrows
  <2>5. Out(<<c, k>>) = <<WRITTEN(<<c, k>>)>>
    BY <2>2, OutIs
  <2> QED BY <2>1, <2>2, <2>3, <2>4, <2>5
<1> HIDE DEF n, B
<1>4. /\ hw'.shift \in OutBytes /\ hw'.dr \in OutBytes
      /\ (wire \o Out(hw'.shift)) \o Out(hw'.dr) = Sofar(msgs, c, priv'.ptr - 1)
  <2>1. CASE v # <<>> /\ priv'.ptr = x + 1 /\ hw'.shift = v /\ hw'.dr = <<c, x>>
    <3>1. x \in 1 .. n /\ priv'.ptr - 1 = x
      BY <1>1, <1>2, <2>1
    <3>2. hw'.dr \in OutBytes
      BY <1>3, <2>1, <3>1, OutIs
    <3>3. Sofar(msgs, c, x - 1) \o Out(<<c, x>>) = Sofar(msgs, c, x)
      BY <1>3, <3>1
    <3> QED BY <2>1, <3>1, <3>2, <3>3
  <2>2. CASE v = <<>>
    <3>1. x \in 1 .. n /\ hw'.shift = <<c, x>>
      BY <1>1, <1>2, <2>2 DEF WritesOn
    <3>2. hw'.shift \in OutBytes /\ <<c, x>> \in Nat \X Nat
      BY <1>3, <3>1, OutIs
    <3>3. wire = Sofar(msgs, c, x - 1)
      BY <2>2, OutNothing, ConcatEmptySeq
    <3>4. wire \o Out(hw'.shift) = Sofar(msgs, c, x) /\ Sofar(msgs, c, x) \in Seq(Tokens)
      BY <1>3, <3>1, <3>3
    <3>5. CASE priv'.ptr = x + 1 /\ hw'.dr = <<>>
      <4>1. priv'.ptr - 1 = x
        BY <1>1, <3>5
      <4>2. Sofar(msgs, c, x) \o <<>> = Sofar(msgs, c, x)
        BY <3>4, ConcatEmptySeq
      <4> QED BY <3>2, <3>4, <3>5, <4>1, <4>2, OutNothing
    <3>6. CASE priv'.ptr = x + 2 /\ hw'.dr = <<c, x + 1>>
      <4>1. priv'.ptr - 1 = x + 1 /\ x + 1 \in 1 .. n /\ (x + 1) - 1 = x
        BY <1>1, <1>2, <3>6
      <4>2. /\ Sofar(msgs, c, (x + 1) - 1) \o Out(<<c, x + 1>>) = Sofar(msgs, c, x + 1)
            /\ <<c, x + 1>> \in Nat \X Nat
        BY <1>3, <4>1
      <4>3. hw'.dr \in OutBytes
        BY <3>6, <4>2, OutIs
      <4> QED BY <3>2, <3>4, <3>6, <4>1, <4>2, <4>3
    <3> QED BY <2>2, <3>5, <3>6 DEF WritesOn
  <2> QED BY <2>1, <2>2 DEF WritesOn
<1> QED BY <1>1, <1>2, <1>4 DEF WireInv

LEMMA WireAddressedWrite ==
  ASSUME Typed, WireInv, Addressed, ~msgs[priv.cur].read, NEW b \in Branches, IsrBranch(b)
  PROVE  WireInv'
<1>1. BytesInv' /\ Writing' /\ WritesOn(priv.cur, 1, <<>>)
  BY AddressedWrite
<1>2. ~priv.done /\ ~hw.start /\ msgs \in Lists /\ msgs # <<>> /\ ~faulted /\ hw.mode = "wait"
  BY ListFacts DEF Addressed, Selecting, Sound, Placed
<1>3. wire = Sofar(msgs, priv.cur, 1 - 1) /\ wire \in Seq(Tokens)
  BY <1>2 DEF WireInv
<1>4. wire \o Out(<<>>) = wire /\ <<>> \in OutBytes
  BY <1>3, OutNothing, ConcatEmptySeq
<1> QED BY <1>1, <1>2, <1>3, <1>4, WireWrites

(* What a run of the routine finds on the wire in a message that is        *)
(* written, when the data register is empty                                *)
LEMMA WireWriting ==
  ASSUME Typed, WireInv, Writing, hw.dr = <<>>
  PROVE  /\ msgs \in Lists /\ msgs # <<>> /\ ~faulted /\ priv.cur \in 1 .. Len(msgs)
         /\ ~msgs[priv.cur].read /\ wire \in Seq(Tokens) /\ hw.shift \in OutBytes
         /\ wire \o Out(hw.shift) = Sofar(msgs, priv.cur, priv.ptr - 1)
<1>1. /\ ~priv.done /\ ~hw.start /\ msgs \in Lists /\ msgs # <<>> /\ ~faulted /\ hw.mode = "tx"
      /\ priv.cur \in 1 .. Len(msgs) /\ ~msgs[priv.cur].read
  BY ListFacts DEF Writing, Sound, Placed
<1>2. /\ wire \in Seq(Tokens) /\ hw.shift \in OutBytes
      /\ (wire \o Out(hw.shift)) \o Out(hw.dr) = Sofar(msgs, priv.cur, priv.ptr - 1)
  BY <1>1 DEF WireInv
<1>3. wire \o Out(hw.shift) \in Seq(Tokens)
  <2>1. CASE hw.shift = <<>>
    BY <1>2, <2>1, OutNothing, ConcatEmptySeq
  <2>2. CASE hw.shift # <<>>
    <3>1. Out(hw.shift) = <<WRITTEN(hw.shift)>> /\ WRITTEN(hw.shift) \in Tokens
      BY <1>2, <2>2, OutIs DEF OutBytes
    <3> QED BY <1>2, <3>1, Grown
  <2> QED BY <2>1, <2>2
<1>4. (wire \o Out(hw.shift)) \o <<>> = wire \o Out(hw.shift)
  BY <1>3, ConcatEmptySeq
<1> QED BY <1>1, <1>2, <1>4, OutNothing

LEMMA WireWritingMore ==
  ASSUME Typed, WireInv, Writing, priv.dcnt > 0, NEW b \in Branches, IsrBranch(b)
  PROVE  WireInv'
<1>1. BytesInv' /\ Writing' /\ WritesOn(priv.cur, priv.ptr, hw.shift) /\ hw.dr = <<>>
  BY WritingMore
<1> QED BY <1>1, WireWriting, WireWrites

(* The message is over: the list is, or a start condition follows *)
LEMMA MessageOver ==
  ASSUME Placed, priv.cur > 0
  PROVE  LET w == Sofar(msgs, priv.cur, msgs[priv.cur].length)
         IN /\ priv.msgc > 0 => w = Flat(msgs, priv.cur)
            /\ priv.msgc = 0 => w \o <<STOP>> = Combined(msgs)
<1>1. /\ msgs \in Lists /\ priv.cur \in 1 .. Len(msgs) /\ DOMAIN msgs = 1 .. Len(msgs)
      /\ Len(msgs) \in Nat /\ priv.msgc = Len(msgs) - priv.cur
  BY ListFacts DEF Placed
<1>2. priv.msgc = 0 <=> priv.cur = Len(msgs)
  BY <1>1
<1>3. ~(priv.msgc > 0 /\ priv.msgc = 0)
  BY <1>1
<1> QED BY <1>1, <1>2, <1>3, WireGrows, FlatFacts

LEMMA WireWritingNext ==
  ASSUME Typed, WireInv, Writing, priv.dcnt = -1, NEW b \in Branches, IsrBranch(b)
  PROVE  WireInv'
<1> DEFINE c == priv.cur + 1
<1>1. BytesInv' /\ Writing' /\ WritesOn(c, 1, hw.shift) /\ hw.dr = <<>> /\ msgs[c].nostart
  BY WritingNext
<1>2. /\ msgs \in Lists /\ wire \in Seq(Tokens) /\ hw.shift \in OutBytes
      /\ priv.cur \in 1 .. Len(msgs)
      /\ wire \o Out(hw.shift) = Sofar(msgs, priv.cur, priv.ptr - 1)
  BY <1>1, WireWriting
<1>3. /\ Placed /\ priv.cur > 0 /\ priv.msgc > 0
      /\ priv.ptr - 1 = msgs[priv.cur].length
  <2>1. Placed /\ priv.cur > 0 /\ NextContinues(priv)
    BY DEF Writing, Sound
  <2>2. msgs[priv.cur].length \in Nat
    BY <1>2, ListFacts
  <2>3. priv.ptr = msgs[priv.cur].length + 1 - 0
    BY DEF Writing
  <2> QED BY <2>1, <2>2, <2>3 DEF NextContinues
<1>4. wire \o Out(hw.shift) = Flat(msgs, priv.cur)
  BY <1>2, <1>3, MessageOver
<1>5. c \in 1 .. Len(msgs) /\ c - 1 = priv.cur /\ 1 - 1 = 0
  BY <1>1, <1>2 DEF WritesOn
<1>6. Flat(msgs, c - 1) = Sofar(msgs, c, 0) /\ ~msgs[c].read
  <2>1. ~msgs[c].read
    BY <1>1 DEF Writing, WritesOn
  <2> HIDE DEF c
  <2> QED BY <1>1, <1>2, <1>5, <2>1, WireGrows
<1> HIDE DEF c
<1>7. wire \o Out(hw.shift) = Sofar(msgs, c, 1 - 1)
  BY <1>4, <1>5, <1>6
<1> QED BY <1>1, <1>2, <1>6, <1>7, WireWrites

LEMMA WireWritingEnd ==
  ASSUME Typed, WireInv, Writing, priv.dcnt = 0, NEW b \in Branches, IsrBranch(b)
  PROVE  WireInv'
<1>1. /\ msgs' = msgs /\ wire' = wire /\ priv'.cur = priv.cur
      /\ hw.shift = <<>> /\ hw.dr = <<>>
      /\ \/ priv'.done /\ priv.msgc = 0 /\ hw'.stop
         \/ Starting' /\ priv.msgc > 0
         \/ Writing' /\ priv'.ptr = priv.ptr /\ hw'.shift = <<>> /\ hw'.dr = <<>>
  BY WritingEnd
<1>2. /\ msgs \in Lists /\ msgs # <<>> /\ wire \in Seq(Tokens) /\ priv.cur \in 1 .. Len(msgs)
      /\ wire \o Out(hw.shift) = Sofar(msgs, priv.cur, priv.ptr - 1)
  BY <1>1, WireWriting
<1>3. wire \o <<>> = wire /\ wire = Sofar(msgs, priv.cur, priv.ptr - 1)
  BY <1>1, <1>2, OutNothing, ConcatEmptySeq
<1>4. /\ Placed /\ priv.cur > 0 /\ priv.ptr - 1 = msgs[priv.cur].length
  <2>1. Placed /\ priv.cur > 0
    BY DEF Writing, Sound
  <2>2. msgs[priv.cur].length \in Nat
    BY <1>2, ListFacts
  <2>3. priv.ptr = msgs[priv.cur].length + 1 - 0
    BY DEF Writing
  <2> QED BY <2>1, <2>2, <2>3
<1>5. /\ priv.msgc > 0 => wire = Flat(msgs, priv.cur)
      /\ priv.msgc = 0 => wire \o <<STOP>> = Combined(msgs)
  BY <1>3, <1>4, MessageOver
<1>6. CASE priv'.done /\ priv.msgc = 0 /\ hw'.stop
  BY <1>1, <1>2, <1>5, <1>6 DEF WireInv, Sent
<1>7. CASE Starting' /\ priv.msgc > 0
  <2>1. ~priv'.done /\ hw'.start
    BY <1>7 DEF Starting, Due, Sound, Placed
  <2> QED BY <1>1, <1>2, <1>5, <1>7, <2>1 DEF WireInv
<1>8. CASE Writing' /\ priv'.ptr = priv.ptr /\ hw'.shift = <<>> /\ hw'.dr = <<>>
  <2>1. ~priv'.done /\ ~hw'.start /\ hw'.mode = "tx"
    BY <1>8 DEF Writing, Sound, Placed
  <2>2. (wire' \o Out(hw'.shift)) \o Out(hw'.dr) = Sofar(msgs, priv.cur, priv.ptr - 1)
    BY <1>1, <1>3, <1>8, OutNothing
  <2> QED BY <1>1, <1>2, <1>8, <2>1, <2>2, OutNothing DEF WireInv
<1> QED BY <1>1, <1>6, <1>7, <1>8

LEMMA WireReading ==
  ASSUME Typed, WireInv, Reading, NEW b \in Branches, IsrBranch(b)
  PROVE  WireInv'
<1>1. /\ ~priv.done /\ ~hw.start /\ msgs \in Lists /\ msgs # <<>> /\ ~faulted
      /\ Placed /\ priv.cur > 0
  BY ListFacts DEF Reading, Sound, Placed
<1>2. /\ wire \in Seq(Tokens)
      /\ hw.mode = "rx" => wire = Sofar(msgs, priv.cur, hw.k)
      /\ hw.mode = "idle" => wire = Flat(msgs, priv.cur)
  BY <1>1 DEF WireInv
<1>3. priv.dcnt = 1 \/ priv.dcnt = 2 \/ priv.dcnt > 2
  <2>1. priv.dcnt \in 1 .. msgs[priv.cur].length /\ msgs[priv.cur].length \in Nat
    BY ReadingRun
  <2> QED BY <2>1
<1>4. CASE priv.dcnt > 2
  <2>1. /\ Reading' /\ msgs' = msgs /\ wire' = wire /\ priv'.cur = priv.cur
        /\ hw.mode = "rx" /\ hw'.mode = "rx" /\ hw'.k = hw.k
    BY <1>4, ReadingMore
  <2>2. ~priv'.done /\ ~hw'.start
    BY <2>1 DEF Reading, Sound, Placed
  <2> QED BY <1>2, <2>1, <2>2 DEF WireInv
<1>5. CASE priv.dcnt = 1
  <2>1. /\ priv'.done /\ msgs' = msgs /\ wire' = wire /\ priv.msgc = 0
        /\ msgs[priv.cur].length = 1 /\ hw.k = 1 /\ hw'.stop = hw.stop
        /\ (hw.mode = "rx" /\ hw.stop) \/ (hw.mode = "idle" /\ ~hw.stop)
    BY <1>5, ReadingSingle
  <2>2. CASE hw.mode = "rx" /\ hw.stop
    <3>1. wire \o <<STOP>> = Combined(msgs)
      BY <1>1, <1>2, <2>1, <2>2, MessageOver
    <3> QED BY <1>2, <2>1, <2>2, <3>1 DEF WireInv, Sent
  <2>3. CASE hw.mode = "idle" /\ ~hw.stop
    <3>1. priv.cur = Len(msgs)
      BY <1>1, <2>1, ListFacts DEF Placed
    <3>2. wire = Combined(msgs)
      BY <1>1, <1>2, <2>3, <3>1, FlatFacts
    <3>3. wire \o <<>> = wire
      BY <1>2, ConcatEmptySeq
    <3> QED BY <1>2, <2>1, <2>3, <3>2, <3>3 DEF WireInv, Sent
  <2> QED BY <2>1, <2>2, <2>3
<1>6. CASE priv.dcnt = 2
  <2>1. /\ msgs' = msgs /\ wire' = wire /\ priv'.cur = priv.cur
        /\ hw.mode = "rx" /\ hw.k = msgs[priv.cur].length
        /\ \/ priv'.done /\ priv.msgc = 0 /\ hw'.stop
           \/ Starting' /\ priv.msgc > 0
    BY <1>6, ReadingTwo
  <2>2. /\ priv.msgc > 0 => wire = Flat(msgs, priv.cur)
        /\ priv.msgc = 0 => wire \o <<STOP>> = Combined(msgs)
    BY <1>1, <1>2, <2>1, MessageOver
  <2>3. CASE priv'.done /\ priv.msgc = 0 /\ hw'.stop
    BY <1>2, <2>1, <2>2, <2>3 DEF WireInv, Sent
  <2>4. CASE Starting' /\ priv.msgc > 0
    <3>1. ~priv'.done /\ hw'.start
      BY <2>4 DEF Starting, Due, Sound, Placed
    <3> QED BY <1>2, <2>1, <2>2, <2>4, <3>1 DEF WireInv
  <2> QED BY <2>1, <2>3, <2>4
<1> QED BY <1>3, <1>4, <1>5, <1>6

LEMMA WireNext ==
  ASSUME \A l \in Lists : OneSlave(l)
  PROVE  BytesInv /\ WireInv /\ [ByteNext]_byteVars => WireInv'
<1> SUFFICES ASSUME BytesInv, WireInv, [ByteNext]_byteVars
             PROVE  WireInv'
  OBVIOUS
<1>1. Typed
  BY DEF BytesInv
<1>2. faulted' => WireInv'
  BY DEF WireInv
<1>3. CASE RunIsr
  <2>1. CASE IsrStateError
    BY <1>2, <2>1, StateErrorStep DEF Refused
  <2>2. ASSUME NEW b \in Branches, IsrBranch(b)
        PROVE  WireInv'
    <3>1. Started \/ Addressed \/ Writing \/ Reading \/ Refused
      BY <2>2, BranchRun, Phases
    <3>2. CASE Started
      BY <1>1, <2>2, <3>2, WireStarted
    <3>3. CASE Addressed
      BY <1>1, <2>2, <3>3, WireAddressedRead, WireAddressedWrite
    <3>4. CASE Writing
      <4>1. priv.dcnt > 0 \/ priv.dcnt = 0 \/ priv.dcnt = -1
        BY <3>4 DEF Writing
      <4> QED BY <1>1, <2>2, <3>4, <4>1, WireWritingMore, WireWritingEnd, WireWritingNext
    <3>5. CASE Reading
      BY <1>1, <2>2, <3>5, WireReading
    <3>6. CASE Refused
      BY <1>2, <2>2, <3>6, BranchRun DEF Refused
    <3> QED BY <3>1, <3>2, <3>3, <3>4, <3>5, <3>6
  <2> QED BY <1>3, <2>1, <2>2 DEF RunIsr
<1>4. CASE SetupBytes
  BY <1>4, WireSetup
<1>5. CASE Controller
  BY <1>5, WireStart, WireStop, WireAck, WireSend, WireReceive DEF Controller
<1>6. CASE Refuse
  BY <1>2, <1>6 DEF Refuse
<1>7. CASE UNCHANGED byteVars
  BY <1>7 DEF byteVars, WireInv, Sent
<1> QED BY <1>3, <1>4, <1>5, <1>6, <1>7 DEF ByteNext

(* When all messages of a list go to one slave, a transfer that ends       *)
(* without an error was one combined transfer of them, whatever their      *)
(* number, lengths and flags and however late stm32_i2c_isr_process() is   *)
(* called: a repeated start condition between two messages and a stop      *)
(* condition at the end only.                                              *)
THEOREM BytesOnWire ==
  ASSUME \A l \in Lists : OneSlave(l)
  PROVE  ByteSpec => []WireCombined
<1>1. ByteInit => WireInv
  BY DEF ByteInit, WireInv
<1>2. BytesInv /\ WireInv /\ [ByteNext]_byteVars => WireInv'
  BY WireNext
<1>3. BytesInv /\ WireInv => WireCombined
  <2> SUFFICES ASSUME BytesInv, WireInv, Succeeded
               PROVE  Sent = Combined(msgs)
    BY DEF WireCombined
  <2>1. Rest /\ msgs # <<>> /\ priv.done
    BY Phases DEF Succeeded, Ended
  <2>2. ~faulted
    BY <2>1 DEF Succeeded, Rest, ErrorBits
  <2> QED BY <2>1, <2>2 DEF WireInv
<1> QED BY <1>1, <1>2, <1>3, BytesAlways, PTL DEF ByteSpec

(* When besides the last message of a list asks for a stop condition and   *)
(* no other does, that is what the rules of i2c_master.h say of it.  Of    *)
(* lists without NOSTOP the rules say otherwise, as MCI2cIsr shows.        *)
THEOREM BytesDocumented ==
  ASSUME \A l \in Lists : OneSlave(l) /\ Regular(l)
  PROVE  ByteSpec => []WireAsDocumented
<1>1. ASSUME NEW l \in Lists
      PROVE  Documented(l) = Combined(l)
  <2>1. Regular(l) /\ Len(l) \in Nat \ {0}
    BY ListsAssumption
  <2>2. {i \in 1 .. Len(l) : StopAfter(l, i)} = {Len(l)}
    BY <2>1 DEF Regular
  <2> QED BY <2>2 DEF Documented, Combined
<1>2. ByteSpec => []WireCombined
  BY BytesOnWire
<1>3. BytesInv /\ WireCombined => WireAsDocumented
  <2>1. BytesInv /\ Succeeded => msgs \in Lists
    BY DEF BytesInv, Typed, ByteTypeOK, Succeeded, Ended
  <2> QED BY <1>1, <2>1 DEF WireCombined, WireAsDocumented
<1> QED BY <1>2, <1>3, BytesAlways, PTL
=============================================================================

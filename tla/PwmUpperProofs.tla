--------------------------- MODULE PwmUpperProofs ---------------------------
(***************************************************************************)
(* Proofs about PwmUpper for every set of threads and files, every bound   *)
(* and every width of the reference count.                                 *)
(***************************************************************************)
EXTENDS PwmUpper, FiniteSetTheorems, TLAPS

(* The uint8_t sum of pwm_open() is again a count, and it is the successor *)
(* unless it wraps                                                         *)
LEMMA NextCrefRange ==
  ASSUME NEW c \in 0 .. CrefLimit - 1
  PROVE  /\ NextCref(c) \in 0 .. CrefLimit - 1
         /\ NextCref(c) # 0 => NextCref(c) = c + 1
<1>1. CrefLimit \in Nat /\ CrefLimit > 1
  BY CrefLimitAssumption
<1>2. CASE c + 1 < CrefLimit
  <2>1. (c + 1) % CrefLimit = c + 1
    BY <1>1, <1>2
  <2> QED BY <1>1, <1>2, <2>1 DEF NextCref
<1>3. CASE c + 1 = CrefLimit
  <2>1. (c + 1) % CrefLimit = 0
    BY <1>1, <1>3
  <2> QED BY <1>1, <2>1 DEF NextCref
<1> QED BY <1>1, <1>2, <1>3

(* The methods of the lower half keep the timer a timer *)
LEMMA TimerMethods ==
  ASSUME NEW x \in Timers, NEW i \in Infos \cup {NoInfo}
  PROVE  /\ ResetTimer \in Timers
         /\ TimerStop(x) \in Timers
         /\ TimerSetup(x) \in Timers
         /\ TimerShutdown(x) \in Timers
         /\ TimerStart(x, i) \in Timers
<1>1. ResetTimer \in Timers
  BY DEF Timers, ResetTimer
<1>2. x.clk \in BOOLEAN /\ x.mode \in BOOLEAN /\ x.cen \in BOOLEAN
  BY DEF Timers
<1>3. i.frequency \in Freqs \cup {0} /\ i.duty \in Duties \cup {0}
  BY DEF Infos, NoInfo
<1>4. TimerStop(x) \in Timers
  BY <1>1, <1>2 DEF Timers, TimerStop
<1>5. TimerSetup(x) \in Timers
  BY DEF Timers, TimerSetup
<1>6. TimerShutdown(x) \in Timers
  BY <1>4 DEF Timers, TimerShutdown
<1>7. TimerDuty(x, i) \in Timers
  BY <1>3 DEF Timers, TimerDuty
<1>8. TimerRun(x, i) \in Timers
  BY <1>3 DEF Timers, TimerRun
<1>9. TimerStart(x, i) \in Timers
  BY <1>3, <1>7, <1>8 DEF Timers, TimerStart
<1> QED BY <1>1, <1>4, <1>5, <1>6, <1>9

-----------------------------------------------------------------------------
(* exclsem: its waiters are the blocked threads, a count in the semaphore  *)
(* means that nobody is in the driver, a missing count is with exactly one *)
(* thread, and a thread in the driver has a call to carry out              *)
SemInv ==
  /\ \A t \in Threads : t \in waiting <=> pc[t] = "wait"
  /\ \A t \in Threads : pc[t] # "idle" => avail = 0 /\ call[t] \in Calls
  /\ avail = 0 => \E t \in Threads : Inside(t)
  /\ MutualExclusion

Inv1 == TypeOK /\ SemInv

(* nxsem_wait() keeps the semaphore consistent when the caller brings a    *)
(* call                                                                    *)
LEMMA LockPreserves ==
  ASSUME Inv1, NEW t \in Threads, pc[t] = "idle", Lock(t),
         NEW c \in Calls, call' = [call EXCEPT ![t] = c]
  PROVE  /\ avail' \in {0, 1} /\ waiting' \in SUBSET Threads
         /\ pc' \in [Threads -> {"idle", "wait", "first", "second"}]
         /\ call' \in [Threads -> Calls \cup {NoCall}]
         /\ SemInv'
<1> USE DEF Inv1, TypeOK, SemInv, MutualExclusion, Inside
<1>1. CASE avail > 0
  BY <1>1 DEF Lock
<1>2. CASE ~(avail > 0)
  BY <1>2 DEF Lock
<1> QED BY <1>1, <1>2

(* nxsem_post() by the thread inside keeps the semaphore consistent *)
LEMMA UnlockPreserves ==
  ASSUME Inv1, NEW t \in Threads, Inside(t), Unlock(t)
  PROVE  /\ avail' \in {0, 1} /\ waiting' \in SUBSET Threads
         /\ pc' \in [Threads -> {"idle", "wait", "first", "second"}]
         /\ call' \in [Threads -> Calls \cup {NoCall}]
         /\ SemInv'
<1> USE DEF Inv1, TypeOK, SemInv, MutualExclusion, Inside
<1>1. CASE waiting = {} /\ avail' = avail + 1 /\ pc' = [pc EXCEPT ![t] = "idle"] /\ UNCHANGED waiting
  BY <1>1 DEF Unlock
<1>2. ASSUME NEW w \in waiting, waiting' = waiting \ {w},
             pc' = [pc EXCEPT ![t] = "idle", ![w] = "first"], UNCHANGED avail
      PROVE  /\ avail' \in {0, 1} /\ waiting' \in SUBSET Threads
             /\ pc' \in [Threads -> {"idle", "wait", "first", "second"}]
             /\ call' \in [Threads -> Calls \cup {NoCall}]
             /\ SemInv'
  <2>1. w \in Threads /\ w # t /\ pc[w] = "wait"
    BY <1>2
  <2>2. \A u \in Threads : u # t /\ u # w => pc'[u] = pc[u] /\ call'[u] = call[u]
    BY <1>2 DEF Unlock
  <2>3. pc'[t] = "idle" /\ pc'[w] = "first" /\ call'[w] = call[w]
    BY <1>2, <2>1 DEF Unlock
  <2> QED BY <1>2, <2>1, <2>2, <2>3 DEF Unlock
<1> QED BY <1>1, <1>2 DEF Unlock

(* Going on to the second step keeps it, too *)
LEMMA ContinuePreserves ==
  ASSUME Inv1, NEW t \in Threads, Inside(t), Continue(t)
  PROVE  /\ avail' \in {0, 1} /\ waiting' \in SUBSET Threads
         /\ pc' \in [Threads -> {"idle", "wait", "first", "second"}]
         /\ call' \in [Threads -> Calls \cup {NoCall}]
         /\ SemInv'
BY DEF Inv1, TypeOK, SemInv, MutualExclusion, Inside, Continue, semVars

LEMMA Inv1Init == Init => Inv1
<1> SUFFICES ASSUME Init PROVE Inv1
  OBVIOUS
<1>1. ResetTimer \in Timers
  BY DEF ResetTimer, Timers
<1>2. TypeOK
  <2>1. 0 \in 0 .. CrefLimit - 1 /\ 0 \in 0 .. MaxInterrupted /\ 1 \in {0, 1}
    BY CrefLimitAssumption, MaxInterruptedAssumption
  <2>2. info \in Infos \cup {NoInfo} /\ tim \in Timers /\ started \in BOOLEAN
    BY <1>1 DEF Init
  <2>3. call \in [Threads -> Calls \cup {NoCall}]
    BY DEF Init
  <2> QED BY <2>1, <2>2, <2>3 DEF Init, TypeOK
<1>3. SemInv
  BY DEF Init, SemInv, MutualExclusion, Inside
<1> QED BY <1>2, <1>3 DEF Inv1

(* Every step of every thread preserves the type and the semaphore *)
LEMMA Inv1Step == Inv1 /\ [Next]_vars => Inv1'
<1> SUFFICES ASSUME Inv1, [Next]_vars PROVE Inv1'
  OBVIOUS
<1>u. CASE UNCHANGED vars
  BY <1>u DEF Inv1, TypeOK, SemInv, MutualExclusion, Inside, vars, devVars, semVars
<1>n. ASSUME NEW t \in Threads, Enter(t) \/ Interrupt(t) \/ Step(t)
      PROVE  Inv1'
  <2> USE DEF Inv1
  <2>1. ASSUME NEW f \in Files, EnterOpen(t, f) PROVE Inv1'
    <3>1. [op |-> "open", file |-> f, info |-> NoInfo] \in Calls
      BY DEF Calls
    <3>2. SemInv'
      BY <2>1, <3>1, LockPreserves DEF EnterOpen
    <3> QED BY <2>1, <3>1, <3>2, LockPreserves DEF EnterOpen, TypeOK, devVars
  <2>2. ASSUME NEW f \in Files, EnterClose(t, f) PROVE Inv1'
    <3>1. [op |-> "close", file |-> f, info |-> NoInfo] \in Calls
      BY DEF Calls
    <3> QED BY <2>2, <3>1, LockPreserves DEF EnterClose, TypeOK, devVars
  <2>3. ASSUME NEW f \in Files, NEW op \in Ioctls, NEW i,
               [op |-> op, file |-> f, info |-> i] \in Calls,
               EnterIoctl(t, f, op, i)
        PROVE  Inv1'
    <3>1. [op |-> op, file |-> f, info |-> i] \in Calls
      BY <2>3
    <3> QED BY <2>3, <3>1, LockPreserves DEF EnterIoctl, TypeOK, devVars
  <2>4. CASE Interrupt(t)
    <3>1. call[t] \in Calls /\ avail = 0
      BY <2>4 DEF Interrupt, SemInv, TypeOK
    <3>2. TypeOK'
      BY <2>4, <3>1, MaxInterruptedAssumption
         DEF Interrupt, TypeOK, FileBecomes, devVars, Calls
    <3>3. SemInv'
      BY <2>4, <3>1 DEF Interrupt, TypeOK, SemInv, MutualExclusion, Inside, devVars
    <3> QED BY <3>2, <3>3
  <2>5. CASE OpenSetup(t)
    <3>1. Inside(t) /\ call[t] \in Calls
      BY <2>5 DEF OpenSetup, At, Inside, SemInv
    <3>2. NextCref(crefs) \in 0 .. CrefLimit - 1
      BY NextCrefRange DEF TypeOK
    <3>3. TimerSetup(tim) \in Timers
      BY TimerMethods DEF TypeOK
    <3>4. CASE NextCref(crefs) = 0
      BY <2>5, <3>1, <3>4, UnlockPreserves DEF OpenSetup, TypeOK, FileBecomes, Calls
    <3>5. CASE NextCref(crefs) # 0
      BY <2>5, <3>1, <3>2, <3>3, <3>5, ContinuePreserves DEF OpenSetup, TypeOK
    <3> QED BY <3>4, <3>5
  <2>6. CASE OpenSave(t)
    <3>1. Inside(t) /\ call[t] \in Calls
      BY <2>6 DEF OpenSave, At, Inside, SemInv
    <3> QED BY <2>6, <3>1, UnlockPreserves, CrefLimitAssumption
            DEF OpenSave, TypeOK, FileBecomes, Calls
  <2>7. CASE CloseDrop(t)
    <3>1. Inside(t) /\ call[t] \in Calls
      BY <2>7 DEF CloseDrop, At, Inside, SemInv
    <3>2. CASE crefs > 1
      BY <2>7, <3>1, <3>2, UnlockPreserves, CrefLimitAssumption
         DEF CloseDrop, TypeOK, FileBecomes, Calls
    <3>3. CASE ~(crefs > 1)
      BY <2>7, <3>1, <3>3, ContinuePreserves, CrefLimitAssumption DEF CloseDrop, TypeOK
    <3> QED BY <3>2, <3>3
  <2>8. CASE CloseShutdown(t)
    <3>1. Inside(t) /\ call[t] \in Calls
      BY <2>8 DEF CloseShutdown, At, Inside, SemInv
    <3>2. TimerShutdown(tim) \in Timers
      BY TimerMethods DEF TypeOK
    <3> QED BY <2>8, <3>1, <3>2, UnlockPreserves
            DEF CloseShutdown, TypeOK, FileBecomes, Calls
  <2>9. CASE SetSave(t)
    <3>1. Inside(t) /\ call[t] \in Calls
      BY <2>9 DEF SetSave, At, Inside, SemInv
    <3> QED BY <2>9, <3>1, ContinuePreserves DEF SetSave, TypeOK, Calls
  <2>10. CASE SetRestart(t)
    <3>1. Inside(t)
      BY <2>10 DEF SetRestart, At, Inside
    <3>2. TimerStart(tim, info) \in Timers
      BY TimerMethods DEF TypeOK
    <3> QED BY <2>10, <3>1, <3>2, UnlockPreserves DEF SetRestart, TypeOK
  <2>11. CASE Get(t)
    <3>1. Inside(t)
      BY <2>11 DEF Get, At, Inside
    <3> QED BY <2>11, <3>1, UnlockPreserves DEF Get, TypeOK, devVars
  <2>12. CASE StartTimer(t)
    <3>1. Inside(t)
      BY <2>12 DEF StartTimer, At, Inside
    <3>2. TimerStart(tim, info) \in Timers
      BY TimerMethods DEF TypeOK
    <3>3. CASE started
      BY <2>12, <3>1, <3>3, UnlockPreserves DEF StartTimer, TypeOK
    <3>4. CASE ~started
      BY <2>12, <3>1, <3>2, <3>4, ContinuePreserves DEF StartTimer, TypeOK
    <3> QED BY <3>3, <3>4
  <2>13. CASE StartMark(t)
    <3>1. Inside(t)
      BY <2>13 DEF StartMark, At, Inside
    <3> QED BY <2>13, <3>1, UnlockPreserves DEF StartMark, TypeOK
  <2>14. CASE StopTimer(t)
    <3>1. Inside(t)
      BY <2>14 DEF StopTimer, At, Inside
    <3>2. TimerStop(tim) \in Timers
      BY TimerMethods DEF TypeOK
    <3>3. CASE started
      BY <2>14, <3>1, <3>2, <3>3, ContinuePreserves DEF StopTimer, TypeOK
    <3>4. CASE ~started
      BY <2>14, <3>1, <3>4, UnlockPreserves DEF StopTimer, TypeOK
    <3> QED BY <3>3, <3>4
  <2>15. CASE StopMark(t)
    <3>1. Inside(t)
      BY <2>15 DEF StopMark, At, Inside
    <3> QED BY <2>15, <3>1, UnlockPreserves DEF StopMark, TypeOK
  <2>16. CASE Enter(t)
    BY <2>16, <2>1, <2>2, <2>3 DEF Enter, Ioctls, Calls
  <2>17. CASE Step(t)
    BY <2>17, <2>5, <2>6, <2>7, <2>8, <2>9, <2>10, <2>11, <2>12, <2>13, <2>14, <2>15
       DEF Step
  <2> QED BY <1>n, <2>4, <2>16, <2>17
<1> QED BY <1>u, <1>n DEF Next

(* The driver's state keeps its type and exclsem its meaning *)
THEOREM TypeCorrect == Spec => []TypeOK
<1>1. Inv1 => TypeOK
  BY DEF Inv1
<1> QED BY <1>1, Inv1Init, Inv1Step, PTL DEF Spec

(* upper->exclsem admits one thread at a time, whatever the number of      *)
(* threads and whenever signals arrive                                     *)
THEOREM Exclusion == Spec => []MutualExclusion
<1>1. Inv1 => MutualExclusion
  BY DEF Inv1, SemInv
<1> QED BY <1>1, Inv1Init, Inv1Step, PTL DEF Spec

-----------------------------------------------------------------------------
(* The files that opens and closes are working on, and the reference count *)
(* with the one reference that a final close has already taken away        *)
RefInv ==
  /\ \A t \in Threads : pc[t] # "idle" =>
       /\ call[t].op = "open" => fstate[call[t].file] = "opening"
       /\ call[t].op = "close" => fstate[call[t].file] = "closing"
  /\ \A s, t \in Threads :
       /\ pc[s] # "idle" /\ call[s].op \in {"open", "close"}
       /\ pc[t] # "idle" /\ call[t].op \in {"open", "close"}
       /\ call[s].file = call[t].file
       => s = t
  /\ \A t \in Threads : At(t, "second", "open") => tmp[t] = crefs + 1
  /\ Doing("close") => crefs = 0
  /\ Cardinality(Referenced) + interrupted = IF Doing("close") THEN 1 ELSE crefs

(* The clock is on exactly while a reference exists, is being made or is   *)
(* being taken away                                                        *)
PowerInv == tim.clk <=> (crefs > 0 \/ Doing("open") \/ Doing("close"))

(* A running counter was started, carries the frequency the driver         *)
(* remembers, and unless an update is in progress the characteristics      *)
(* asked for                                                               *)
OutputInv ==
  /\ tim.cen => started \/ Doing("start")
  /\ Doing("stop") => ~tim.cen
  /\ tim.cen => tim.clk /\ tim.arr = tim.frequency
  /\ tim.cen /\ ~Doing("set") => tim.arr = info.frequency /\ tim.ccr = info.duty

Inv2 == RefInv /\ PowerInv /\ OutputInv

(* Which update is in progress is decided by the one thread inside *)
LEMMA DoingInside ==
  ASSUME Inv1, NEW t \in Threads, Inside(t)
  PROVE  \A op : Doing(op) <=> At(t, "second", op)
BY DEF Inv1, SemInv, MutualExclusion, Inside, Doing, At

(* After nxsem_post() no update is in progress *)
LEMMA DoingUnlock ==
  ASSUME Inv1, NEW t \in Threads, Inside(t), Unlock(t)
  PROVE  \A op : ~Doing(op)'
<1> USE DEF Inv1, TypeOK, SemInv, MutualExclusion, Inside
<1>1. \A u \in Threads : u # t => pc[u] # "second"
  OBVIOUS
<1>2. \A u \in Threads : pc'[u] # "second"
  BY <1>1 DEF Unlock
<1> QED BY <1>2 DEF Doing, At

(* Going on to the second step puts the thread's own update in progress *)
LEMMA DoingContinue ==
  ASSUME Inv1, NEW t \in Threads, pc[t] = "first", Continue(t)
  PROVE  /\ \A op : ~Doing(op)
         /\ \A op : Doing(op)' <=> call[t].op = op
<1> USE DEF Inv1, TypeOK, SemInv, MutualExclusion, Inside
<1>1. \A u \in Threads : u # t => pc[u] # "second" /\ pc'[u] = pc[u]
  BY DEF Continue
<1>2. pc'[t] = "second" /\ call' = call
  BY DEF Continue
<1> QED BY <1>1, <1>2 DEF Doing, At

(* Entering a call and giving up a wait leave the update in progress alone *)
LEMMA DoingOutside ==
  ASSUME Inv1, NEW t \in Threads, ~Inside(t), ~Inside(t)' \/ pc'[t] = "first",
         NEW p, pc' = [pc EXCEPT ![t] = p],
         NEW c, call' = [call EXCEPT ![t] = c]
  PROVE  \A op : Doing(op)' <=> Doing(op)
<1>1. pc[t] # "second" /\ pc'[t] # "second"
  BY DEF Inside
<1>2. \A u \in Threads : u # t => pc'[u] = pc[u] /\ call'[u] = call[u]
  BY DEF Inv1, TypeOK
<1> QED BY <1>1, <1>2 DEF Doing, At

(* The referenced files are finitely many *)
LEMMA ReferencedFinite ==
  /\ IsFiniteSet(Referenced)
  /\ Cardinality(Referenced) \in Nat
<1>1. IsFiniteSet(Referenced)
  BY FilesAssumption, FS_Subset DEF Referenced
<1> QED BY <1>1, FS_CardinalityType

(* Leaving the driver ends the thread's own call and no other *)
LEMMA CallsAfterUnlock ==
  ASSUME Inv1, NEW t \in Threads, Inside(t), Unlock(t)
  PROVE  \A u \in Threads : pc'[u] # "idle" =>
            u # t /\ pc[u] # "idle" /\ call'[u] = call[u]
<1> USE DEF Inv1, TypeOK, SemInv, Inside
<1>1. CASE waiting = {} /\ pc' = [pc EXCEPT ![t] = "idle"]
  BY <1>1 DEF Unlock
<1>2. ASSUME NEW w \in waiting, pc' = [pc EXCEPT ![t] = "idle", ![w] = "first"]
      PROVE  \A u \in Threads : pc'[u] # "idle" =>
               u # t /\ pc[u] # "idle" /\ call'[u] = call[u]
  BY <1>2 DEF Unlock
<1> QED BY <1>1, <1>2 DEF Unlock

(* Steps under the semaphore that leave files, counts and references alone *)
LEMMA RefInvKept ==
  ASSUME Inv1, RefInv, NEW t \in Threads, Inside(t),
         call[t].op \in Ioctls, Unlock(t) \/ (Continue(t) /\ pc[t] = "first"),
         UNCHANGED <<crefs, tmp, fstate, interrupted>>
  PROVE  RefInv'
<1>1. Referenced' = Referenced
  BY DEF Referenced
<1>2. ~Doing("open") /\ ~Doing("close")
  BY DoingInside DEF At, Ioctls
<1>3. CASE Unlock(t)
  <2>1. ~Doing("open")' /\ ~Doing("close")'
    BY <1>3, DoingUnlock
  <2>2. \A u \in Threads : pc'[u] # "idle" =>
           u # t /\ pc[u] # "idle" /\ call'[u] = call[u]
    BY <1>3, CallsAfterUnlock
  <2> QED BY <1>1, <1>2, <2>1, <2>2 DEF RefInv, Doing, At
<1>4. CASE Continue(t) /\ pc[t] = "first"
  <2>1. ~Doing("open")' /\ ~Doing("close")'
    BY <1>4, DoingContinue DEF Ioctls
  <2>2. \A u \in Threads : (pc'[u] # "idle" <=> pc[u] # "idle") /\ call'[u] = call[u]
    BY <1>4 DEF Continue, Inv1, TypeOK
  <2> QED BY <1>1, <1>2, <2>1, <2>2 DEF RefInv, Doing, At
<1> QED BY <1>3, <1>4

LEMMA Inv2Init == Init => Inv2
<1> SUFFICES ASSUME Init PROVE Inv2
  OBVIOUS
<1>1. Referenced = {}
  BY DEF Init, Referenced
<1>2. Cardinality(Referenced) = 0
  BY <1>1, FS_EmptySet
<1>3. \A op : ~Doing(op)
  BY DEF Init, Doing, At
<1>4. RefInv
  BY <1>2, <1>3 DEF Init, RefInv, At
<1>5. PowerInv
  BY <1>3 DEF Init, PowerInv, ResetTimer
<1>6. OutputInv
  BY DEF Init, OutputInv, ResetTimer
<1> QED BY <1>4, <1>5, <1>6 DEF Inv2

(* Entering a call changes no reference, no clock and no output *)
LEMMA Inv2Enter ==
  ASSUME Inv1, Inv2, NEW t \in Threads, Enter(t)
  PROVE  Inv2'
<1>0. pc[t] = "idle"
  BY DEF Enter, EnterOpen, EnterClose, EnterIoctl
<1>1. PICK f \in Files : \/ EnterOpen(t, f)
                         \/ EnterClose(t, f)
                         \/ \E op \in Ioctls \ {"set"} : EnterIoctl(t, f, op, NoInfo)
                         \/ \E i \in Infos : EnterIoctl(t, f, "set", i)
  BY DEF Enter
<1>2. PICK c : call' = [call EXCEPT ![t] = c]
  BY <1>1 DEF EnterOpen, EnterClose, EnterIoctl
<1>3. \A u \in Threads : u # t => pc'[u] = pc[u] /\ call'[u] = call[u]
  BY <1>1, <1>2 DEF Inv1, TypeOK, EnterOpen, EnterClose, EnterIoctl, Lock
<1>4. PICK p : pc' = [pc EXCEPT ![t] = p] /\ p \in {"first", "wait"}
  BY <1>1 DEF EnterOpen, EnterClose, EnterIoctl, Lock
<1>5. \A op : Doing(op)' <=> Doing(op)
  <2>1. ~Inside(t) /\ (~Inside(t)' \/ pc'[t] = "first")
    BY <1>0, <1>4 DEF Inv1, TypeOK, Inside
  <2> QED BY <1>2, <1>4, <2>1, DoingOutside
<1>6. UNCHANGED <<crefs, started, info, tim, tmp, interrupted>>
  BY <1>1 DEF EnterOpen, EnterClose, EnterIoctl, devVars
<1>7. Referenced' = Referenced
  BY <1>1 DEF Inv1, TypeOK, EnterOpen, EnterClose, EnterIoctl, Referenced
<1>8. PowerInv' /\ OutputInv'
  BY <1>5, <1>6 DEF Inv2, PowerInv, OutputInv
<1>9. pc'[t] # "second"
  BY <1>4 DEF Inv1, TypeOK
<1>10. RefInv'
  <2>1. \A u \in Threads : At(u, "second", "open")' => At(u, "second", "open")
    BY <1>3, <1>9 DEF At
  <2>2. CASE EnterOpen(t, f)
    BY <1>3, <1>5, <1>6, <1>7, <2>1, <2>2
       DEF EnterOpen, Inv1, Inv2, TypeOK, SemInv, RefInv, Calls, At
  <2>3. CASE EnterClose(t, f)
    BY <1>3, <1>5, <1>6, <1>7, <2>1, <2>3
       DEF EnterClose, Inv1, Inv2, TypeOK, SemInv, RefInv, Calls, At
  <2>4. ASSUME NEW op \in Ioctls, NEW i, EnterIoctl(t, f, op, i)
        PROVE  RefInv'
    <3>1. fstate' = fstate /\ call'[t].op \notin {"open", "close"}
      BY <2>4 DEF EnterIoctl, Ioctls, Inv1, TypeOK
    <3> QED BY <1>3, <1>5, <1>6, <1>7, <2>1, <3>1 DEF Inv1, Inv2, TypeOK, RefInv, At
  <2> QED BY <1>1, <2>2, <2>3, <2>4 DEF Ioctls
<1> QED BY <1>8, <1>10 DEF Inv2

(* Giving up a wait moves the reference of an abandoned close from the     *)
(* files to the interrupted ones                                           *)
LEMMA Inv2Interrupt ==
  ASSUME Inv1, Inv2, NEW t \in Threads, Interrupt(t)
  PROVE  Inv2'
<1>0. pc[t] = "wait" /\ pc'[t] = "idle" /\ call[t] \in Calls
  BY DEF Interrupt, Inv1, TypeOK, SemInv
<1>1. \A u \in Threads : u # t => pc'[u] = pc[u] /\ call'[u] = call[u]
  BY DEF Inv1, TypeOK, Interrupt
<1>2. \A op : Doing(op)' <=> Doing(op)
  <2>1. ~Inside(t) /\ ~Inside(t)'
    BY <1>0 DEF Inside
  <2> QED BY <2>1, DoingOutside DEF Interrupt
<1>3. UNCHANGED <<crefs, started, info, tim, tmp>>
  BY DEF Interrupt, devVars
<1>4. PowerInv' /\ OutputInv'
  BY <1>2, <1>3 DEF Inv2, PowerInv, OutputInv
<1>5. \A u \in Threads : At(u, "second", "open")' => At(u, "second", "open")
  BY <1>0, <1>1 DEF At
<1>6. interrupted \in Nat /\ interrupted' \in Nat /\ crefs \in Nat
  BY MaxInterruptedAssumption, CrefLimitAssumption DEF Inv1, TypeOK, Interrupt
<1>7. Cardinality(Referenced') + interrupted' = Cardinality(Referenced) + interrupted
  <2>1. CASE call[t].op = "close"
    <3>1. call[t].file \in Referenced
      BY <1>0, <2>1 DEF Inv2, RefInv, Referenced, Calls
    <3>2. Referenced' = Referenced \ {call[t].file}
      BY <1>0, <2>1 DEF Interrupt, FileBecomes, Referenced, Inv1, TypeOK, Calls
    <3>3. Cardinality(Referenced') = Cardinality(Referenced) - 1
      BY <3>1, <3>2, FS_RemoveElement, ReferencedFinite
    <3>4. interrupted' = interrupted + 1
      BY <2>1 DEF Interrupt
    <3> QED BY <3>3, <3>4, <1>6, ReferencedFinite
  <2>2. CASE call[t].op = "open"
    <3>1. call[t].file \notin Referenced
      BY <1>0, <2>2 DEF Inv2, RefInv, Referenced, Calls
    <3>2. Referenced' = Referenced
      BY <1>0, <2>2, <3>1 DEF Interrupt, FileBecomes, Referenced, Inv1, TypeOK, Calls
    <3> QED BY <2>2, <3>2 DEF Interrupt
  <2>3. CASE call[t].op \notin {"open", "close"}
    BY <2>3 DEF Interrupt, Referenced
  <2> QED BY <2>1, <2>2, <2>3
<1>8. RefInv'
  <2>1. \A u \in Threads :
           u # t /\ pc[u] # "idle" /\ call[u].op \in {"open", "close"}
           => fstate'[call[u].file] = fstate[call[u].file]
    BY <1>0 DEF Interrupt, FileBecomes, Inv1, Inv2, TypeOK, SemInv, RefInv, Calls
  <2> QED BY <1>0, <1>1, <1>2, <1>3, <1>5, <1>7, <2>1 DEF Inv2, RefInv, At
<1> QED BY <1>4, <1>8 DEF Inv2

(* An open or a close that leaves the driver hands its file back, and the  *)
(* references add up again if they added up with it                        *)
LEMMA RefInvLeave ==
  ASSUME Inv1, RefInv, NEW t \in Threads, Inside(t),
         call[t].op \in {"open", "close"}, Unlock(t),
         NEW s, fstate' = [fstate EXCEPT ![call[t].file] = s],
         Cardinality(Referenced') + interrupted' = crefs'
  PROVE  RefInv'
<1>1. \A u \in Threads : pc'[u] # "idle" =>
         u # t /\ pc[u] # "idle" /\ call'[u] = call[u]
  BY CallsAfterUnlock
<1>2. \A u \in Threads :
        u # t /\ pc[u] # "idle" /\ call[u].op \in {"open", "close"}
        => fstate'[call[u].file] = fstate[call[u].file]
  BY DEF Inv1, TypeOK, SemInv, RefInv, Inside, Calls
<1>3. \A op : ~Doing(op)'
  BY DoingUnlock
<1>4. \A u \in Threads : pc'[u] # "idle" =>
        /\ call'[u].op = "open" => fstate'[call'[u].file] = "opening"
        /\ call'[u].op = "close" => fstate'[call'[u].file] = "closing"
  BY <1>1, <1>2 DEF RefInv
<1>5. \A u, v \in Threads :
        /\ pc'[u] # "idle" /\ call'[u].op \in {"open", "close"}
        /\ pc'[v] # "idle" /\ call'[v].op \in {"open", "close"}
        /\ call'[u].file = call'[v].file
        => u = v
  BY <1>1 DEF RefInv
<1>6. \A u \in Threads : ~At(u, "second", "open")'
  BY <1>3 DEF Doing
<1> QED BY <1>3, <1>4, <1>5, <1>6 DEF RefInv

(* pwm_open() under the semaphore *)
LEMMA Inv2Open ==
  ASSUME Inv1, Inv2, NEW t \in Threads, OpenSetup(t) \/ OpenSave(t)
  PROVE  Inv2'
<1> DEFINE f == call[t].file
<1>0. Inside(t) /\ call[t] \in Calls /\ call[t].op = "open" /\ f \in Files
  BY DEF OpenSetup, OpenSave, At, Inside, Inv1, SemInv, Calls
<1>1. fstate[f] = "opening" /\ f \notin Referenced
  BY <1>0 DEF Inv2, RefInv, Inside, Referenced
<1>2. \A op : Doing(op) <=> At(t, "second", op)
  BY <1>0, DoingInside
<1>3. ~Doing("close") /\ ~Doing("set") /\ ~Doing("start")
  BY <1>0, <1>2 DEF At
<1>4. crefs \in Nat /\ interrupted \in Nat /\ Cardinality(Referenced) + interrupted = crefs
  BY <1>3, CrefLimitAssumption, MaxInterruptedAssumption DEF Inv1, TypeOK, Inv2, RefInv
<1>6. CASE OpenSetup(t) /\ NextCref(crefs) = 0
  <2>1. Unlock(t) /\ FileBecomes(t, "free") /\ pc[t] = "first"
        /\ UNCHANGED <<crefs, started, info, tim, tmp, interrupted>>
    BY <1>6 DEF OpenSetup, At
  <2>2. \A op : ~Doing(op) /\ ~Doing(op)'
    BY <1>0, <1>2, <2>1, DoingUnlock DEF At
  <2>4. fstate' = [fstate EXCEPT ![f] = "free"]
    BY <2>1 DEF FileBecomes
  <2>5. Referenced' = Referenced
    BY <1>0, <1>1, <2>4 DEF Referenced, Inv1, TypeOK
  <2>6. RefInv'
    BY <1>0, <1>4, <2>1, <2>4, <2>5, RefInvLeave DEF Inv2
  <2>7. PowerInv' /\ OutputInv'
    BY <2>1, <2>2 DEF Inv2, PowerInv, OutputInv
  <2> QED BY <2>6, <2>7 DEF Inv2
<1>7. CASE OpenSetup(t) /\ NextCref(crefs) # 0
  <2>1. Continue(t) /\ pc[t] = "first"
        /\ UNCHANGED <<crefs, started, info, fstate, interrupted>>
        /\ tmp' = [tmp EXCEPT ![t] = NextCref(crefs)]
        /\ tim' = IF NextCref(crefs) = 1 THEN TimerSetup(tim) ELSE tim
    BY <1>7 DEF OpenSetup, At
  <2>2. NextCref(crefs) = crefs + 1
    BY <1>7, NextCrefRange DEF Inv1, TypeOK
  <2>3. (\A op : ~Doing(op)) /\ (\A op : Doing(op)' <=> op = "open")
    BY <1>0, <2>1, DoingContinue
  <2>4. \A u \in Threads : (pc'[u] # "idle" <=> pc[u] # "idle") /\ call'[u] = call[u]
    BY <2>1 DEF Continue, Inv1, TypeOK
  <2>5. \A u \in Threads : At(u, "second", "open")' => u = t
    BY <1>0, <2>1 DEF Continue, Inv1, TypeOK, SemInv, MutualExclusion, Inside, At
  <2>6. Referenced' = Referenced
    BY <2>1 DEF Referenced
  <2>7. RefInv'
    BY <2>1, <2>2, <2>3, <2>4, <2>5, <2>6 DEF Inv1, Inv2, TypeOK, RefInv
  <2>8. tim'.clk /\ (tim'.cen => tim' = tim)
    BY <1>4, <2>1, <2>2, <2>3 DEF Inv1, Inv2, TypeOK, PowerInv, TimerSetup, Timers
  <2>9. PowerInv'
    BY <2>3, <2>8 DEF PowerInv
  <2>10. OutputInv'
    BY <2>1, <2>3, <2>8 DEF Inv2, OutputInv
  <2> QED BY <2>7, <2>9, <2>10 DEF Inv2
<1>8. CASE OpenSave(t)
  <2>1. Unlock(t) /\ pc[t] = "second" /\ crefs' = tmp[t]
        /\ fstate' = [fstate EXCEPT ![f] = "open"]
        /\ tmp' = [tmp EXCEPT ![t] = 0]
        /\ UNCHANGED <<started, info, tim, interrupted>>
    BY <1>8 DEF OpenSave, At, FileBecomes
  <2>2. (\A op : ~Doing(op)') /\ Doing("open")
    BY <1>0, <1>2, <2>1, DoingUnlock DEF At
  <2>4. crefs' = crefs + 1
    BY <1>0, <2>1 DEF Inv2, RefInv, At
  <2>5. Referenced' = Referenced \cup {f}
    BY <1>0, <2>1 DEF Referenced, Inv1, TypeOK
  <2>6. Cardinality(Referenced') = Cardinality(Referenced) + 1
    BY <1>1, <2>5, FS_AddElement, ReferencedFinite
  <2>7. Cardinality(Referenced') + interrupted' = crefs'
    BY <1>4, <2>1, <2>4, <2>6, ReferencedFinite
  <2>8. RefInv'
    BY <1>0, <2>1, <2>7, RefInvLeave DEF Inv2
  <2>9. PowerInv'
    BY <1>4, <2>1, <2>2, <2>4 DEF Inv2, PowerInv
  <2>10. OutputInv'
    BY <1>3, <2>1, <2>2 DEF Inv2, OutputInv
  <2> QED BY <2>8, <2>9, <2>10 DEF Inv2
<1> QED BY <1>6, <1>7, <1>8

(* pwm_close() under the semaphore *)
LEMMA Inv2Close ==
  ASSUME Inv1, Inv2, NEW t \in Threads, CloseDrop(t) \/ CloseShutdown(t)
  PROVE  Inv2'
<1> DEFINE f == call[t].file
<1>0. Inside(t) /\ call[t] \in Calls /\ call[t].op = "close" /\ f \in Files
  BY DEF CloseDrop, CloseShutdown, At, Inside, Inv1, SemInv, Calls
<1>1. fstate[f] = "closing" /\ f \in Referenced
  BY <1>0 DEF Inv2, RefInv, Inside, Referenced
<1>2. \A op : Doing(op) <=> At(t, "second", op)
  BY <1>0, DoingInside
<1>3. ~Doing("open") /\ ~Doing("set") /\ ~Doing("start")
  BY <1>0, <1>2 DEF At
<1>4. crefs \in Nat /\ interrupted \in Nat
  BY CrefLimitAssumption, MaxInterruptedAssumption DEF Inv1, TypeOK
<1>6. Cardinality(Referenced \ {f}) = Cardinality(Referenced) - 1
  BY <1>1, FS_RemoveElement, ReferencedFinite
<1>7. CASE CloseDrop(t) /\ crefs > 1
  <2>1. Unlock(t) /\ pc[t] = "first" /\ crefs' = crefs - 1
        /\ fstate' = [fstate EXCEPT ![f] = "free"]
        /\ UNCHANGED <<started, info, tim, tmp, interrupted>>
    BY <1>7 DEF CloseDrop, At, FileBecomes
  <2>2. \A op : ~Doing(op) /\ ~Doing(op)'
    BY <1>0, <1>2, <2>1, DoingUnlock DEF At
  <2>4. Referenced' = Referenced \ {f}
    BY <1>0, <2>1 DEF Referenced, Inv1, TypeOK
  <2>5. Cardinality(Referenced) + interrupted = crefs
    BY <2>2 DEF Inv2, RefInv
  <2>6. Cardinality(Referenced') + interrupted' = crefs'
    BY <1>4, <1>6, <2>1, <2>4, <2>5, ReferencedFinite
  <2>7. RefInv'
    BY <1>0, <2>1, <2>6, RefInvLeave DEF Inv2
  <2>8. PowerInv' /\ OutputInv'
    BY <1>4, <1>7, <2>1, <2>2 DEF Inv2, PowerInv, OutputInv
  <2> QED BY <2>7, <2>8 DEF Inv2
<1>8. CASE CloseDrop(t) /\ ~(crefs > 1)
  <2>1. Continue(t) /\ pc[t] = "first" /\ crefs' = 0
        /\ UNCHANGED <<started, info, tim, tmp, fstate, interrupted>>
    BY <1>8 DEF CloseDrop, At
  <2>2. (\A op : ~Doing(op)) /\ (\A op : Doing(op)' <=> op = "close")
    BY <1>0, <2>1, DoingContinue
  <2>3. \A u \in Threads : (pc'[u] # "idle" <=> pc[u] # "idle") /\ call'[u] = call[u]
    BY <2>1 DEF Continue, Inv1, TypeOK
  <2>4. Referenced' = Referenced
    BY <2>1 DEF Referenced
  <2>5. Cardinality(Referenced) + interrupted = crefs
    BY <2>2 DEF Inv2, RefInv
  <2>6. Cardinality(Referenced) # 0
    BY <1>1, FS_EmptySet, ReferencedFinite
  <2>7. crefs = 1
    BY <1>4, <1>8, <2>5, <2>6, ReferencedFinite
  <2>8. RefInv'
    <3>1. \A u \in Threads : ~At(u, "second", "open")'
      BY <2>2 DEF Doing
    <3>2. Cardinality(Referenced') + interrupted' = 1
      BY <2>1, <2>4, <2>5, <2>7
    <3> QED BY <2>1, <2>2, <2>3, <3>1, <3>2 DEF Inv2, RefInv
  <2>9. PowerInv' /\ OutputInv'
    BY <2>1, <2>2, <2>7 DEF Inv2, PowerInv, OutputInv
  <2> QED BY <2>8, <2>9 DEF Inv2
<1>9. CASE CloseShutdown(t)
  <2>1. Unlock(t) /\ pc[t] = "second" /\ tim' = TimerShutdown(tim)
        /\ fstate' = [fstate EXCEPT ![f] = "free"]
        /\ UNCHANGED <<crefs, started, info, tmp, interrupted>>
    BY <1>9 DEF CloseShutdown, At, FileBecomes
  <2>2. (\A op : ~Doing(op)') /\ Doing("close")
    BY <1>0, <1>2, <2>1, DoingUnlock DEF At
  <2>4. Referenced' = Referenced \ {f}
    BY <1>0, <2>1 DEF Referenced, Inv1, TypeOK
  <2>5. Cardinality(Referenced) + interrupted = 1 /\ crefs = 0
    BY <2>2 DEF Inv2, RefInv
  <2>6. Cardinality(Referenced') + interrupted' = crefs'
    BY <1>4, <1>6, <2>1, <2>4, <2>5, ReferencedFinite
  <2>7. RefInv'
    BY <1>0, <2>1, <2>6, RefInvLeave DEF Inv2
  <2>8. ~tim'.clk /\ ~tim'.cen
    BY <2>1 DEF TimerShutdown, TimerStop, ResetTimer
  <2>9. PowerInv' /\ OutputInv'
    BY <2>1, <2>2, <2>5, <2>8 DEF PowerInv, OutputInv
  <2> QED BY <2>7, <2>9 DEF Inv2
<1> QED BY <1>7, <1>8, <1>9

(* Starting and stopping the timer leave its clock alone *)
LEMMA TimerClock ==
  ASSUME NEW x \in Timers, NEW i \in Infos \cup {NoInfo}
  PROVE  /\ TimerStart(x, i).clk = x.clk
         /\ TimerStop(x).clk = x.clk
         /\ ~TimerStop(x).cen
BY DEF TimerStart, TimerDuty, TimerRun, TimerStop, ResetTimer, Timers

(* A start leaves a running timer with the characteristics it was given,   *)
(* if the driver's copy of the frequency was right                         *)
LEMMA TimerStarted ==
  ASSUME NEW x \in Timers, NEW i \in Infos \cup {NoInfo},
         x.cen => x.clk /\ x.arr = x.frequency
  PROVE  LET y == TimerStart(x, i)
         IN  y.cen => y.clk /\ y.arr = y.frequency /\ y.arr = i.frequency
                      /\ y.ccr = i.duty
<1>1. CASE i.frequency = x.frequency
  <2>1. TimerStart(x, i) = TimerDuty(x, i)
    BY <1>1 DEF TimerStart
  <2>2. CASE x.clk
    BY <1>1, <2>1, <2>2 DEF TimerDuty, Timers
  <2>3. CASE ~x.clk
    BY <2>1, <2>3 DEF TimerDuty
  <2> QED BY <2>2, <2>3
<1>2. CASE i.frequency # x.frequency
  <2>1. TimerStart(x, i) = [TimerRun(x, i) EXCEPT !.frequency = i.frequency]
    BY <1>2 DEF TimerStart
  <2>2. CASE x.clk
    BY <2>1, <2>2 DEF TimerRun, Timers
  <2>3. CASE ~x.clk
    BY <2>1, <2>3 DEF TimerRun, Timers
  <2> QED BY <2>2, <2>3
<1> QED BY <1>1, <1>2

(* The ioctl commands under the semaphore *)
LEMMA Inv2Ioctl ==
  ASSUME Inv1, Inv2, NEW t \in Threads,
         \/ SetSave(t) \/ SetRestart(t) \/ Get(t) \/ StartTimer(t)
         \/ StartMark(t) \/ StopTimer(t) \/ StopMark(t)
  PROVE  Inv2'
<1> USE DEF At
<1>0. Inside(t) /\ call[t].op \in Ioctls
  BY DEF SetSave, SetRestart, Get, StartTimer, StartMark, StopTimer, StopMark,
         Inside, Ioctls
<1>1. UNCHANGED <<crefs, tmp, fstate, interrupted>>
  BY DEF SetSave, SetRestart, Get, StartTimer, StartMark, StopTimer, StopMark, devVars
<1>2. Unlock(t) \/ (Continue(t) /\ pc[t] = "first")
  BY DEF SetSave, SetRestart, Get, StartTimer, StartMark, StopTimer, StopMark
<1>3. RefInv'
  BY <1>0, <1>1, <1>2, RefInvKept DEF Inv2
<1>4. tim'.clk = tim.clk
  BY TimerClock DEF SetSave, SetRestart, Get, StartTimer, StartMark, StopTimer,
                    StopMark, devVars, Inv1, TypeOK
<1>5. \A op : Doing(op) <=> At(t, "second", op)
  BY <1>0, DoingInside
<1>6. ~Doing("open")' /\ ~Doing("close")' /\ ~Doing("open") /\ ~Doing("close")
  <2>1. CASE Unlock(t)
    BY <1>0, <1>5, <2>1, DoingUnlock DEF Ioctls
  <2>2. CASE Continue(t) /\ pc[t] = "first"
    BY <1>0, <1>5, <2>2, DoingContinue DEF Ioctls
  <2> QED BY <1>2, <2>1, <2>2
<1>7. PowerInv'
  BY <1>1, <1>4, <1>6 DEF Inv2, PowerInv
<1>8. tim \in Timers /\ info \in Infos \cup {NoInfo} /\ OutputInv
  BY DEF Inv1, TypeOK, Inv2
<1>9. CASE SetSave(t)
  <2>1. \A op : Doing(op)' <=> op = "set"
    BY <1>9, DoingContinue DEF SetSave
  <2>2. ~Doing("start")
    BY <1>5, <1>9 DEF SetSave
  <2>3. OutputInv'
    BY <1>8, <1>9, <2>1, <2>2 DEF SetSave, OutputInv
  <2> QED BY <1>3, <1>7, <2>3 DEF Inv2
<1>10. CASE SetRestart(t)
  <2>1. \A op : ~Doing(op)'
    BY <1>0, <1>10, DoingUnlock DEF SetRestart
  <2>2. ~Doing("start")
    BY <1>5, <1>10 DEF SetRestart
  <2>3. CASE started
    BY <1>8, <1>10, <2>1, <2>3, <1>3, <1>7, TimerStarted DEF SetRestart, OutputInv, Inv2
  <2>4. CASE ~started
    BY <1>8, <1>10, <2>1, <2>2, <2>4, <1>3, <1>7 DEF SetRestart, OutputInv, Inv2
  <2> QED BY <1>3, <1>7, <2>3, <2>4 DEF Inv2
<1>11. CASE Get(t)
  <2>1. \A op : ~Doing(op)'
    BY <1>0, <1>11, DoingUnlock DEF Get
  <2>2. \A op : ~Doing(op)
    BY <1>5, <1>11 DEF Get
  <2>3. OutputInv'
    BY <1>8, <1>11, <2>1, <2>2 DEF Get, OutputInv, devVars
  <2> QED BY <1>3, <1>7, <2>3 DEF Inv2
<1>12. CASE StartTimer(t) /\ started
  <2>1. \A op : ~Doing(op)'
    BY <1>0, <1>12, DoingUnlock DEF StartTimer
  <2>2. \A op : ~Doing(op)
    BY <1>5, <1>12 DEF StartTimer
  <2>3. OutputInv'
    BY <1>8, <1>12, <2>1, <2>2 DEF StartTimer, OutputInv
  <2> QED BY <1>3, <1>7, <2>3 DEF Inv2
<1>13. CASE StartTimer(t) /\ ~started
  <2>1. \A op : Doing(op)' <=> op = "start"
    BY <1>13, DoingContinue DEF StartTimer
  <2>2. OutputInv'
    BY <1>8, <1>13, <2>1, TimerStarted DEF StartTimer, OutputInv
  <2> QED BY <1>3, <1>7, <2>2 DEF Inv2
<1>14. CASE StartMark(t)
  <2>1. \A op : ~Doing(op)'
    BY <1>0, <1>14, DoingUnlock DEF StartMark
  <2>2. ~Doing("set")
    BY <1>5, <1>14 DEF StartMark
  <2>3. OutputInv'
    BY <1>8, <1>14, <2>1, <2>2 DEF StartMark, OutputInv
  <2> QED BY <1>3, <1>7, <2>3 DEF Inv2
<1>15. CASE StopTimer(t) /\ started
  <2>1. ~tim'.cen
    BY <1>8, <1>15, TimerClock DEF StopTimer
  <2> QED BY <1>3, <1>7, <2>1 DEF Inv2, OutputInv
<1>16. CASE StopTimer(t) /\ ~started
  <2>1. \A op : ~Doing(op)'
    BY <1>0, <1>16, DoingUnlock DEF StopTimer
  <2>2. \A op : ~Doing(op)
    BY <1>5, <1>16 DEF StopTimer
  <2>3. OutputInv'
    BY <1>8, <1>16, <2>1, <2>2 DEF StopTimer, OutputInv
  <2> QED BY <1>3, <1>7, <2>3 DEF Inv2
<1>17. CASE StopMark(t)
  <2>1. ~tim'.cen
    BY <1>5, <1>8, <1>17 DEF StopMark, OutputInv
  <2> QED BY <1>3, <1>7, <2>1 DEF Inv2, OutputInv
<1> QED BY <1>9, <1>10, <1>11, <1>12, <1>13, <1>14, <1>15, <1>16, <1>17

LEMMA Inv2Step == Inv1 /\ Inv2 /\ [Next]_vars => Inv2'
<1> SUFFICES ASSUME Inv1, Inv2, [Next]_vars PROVE Inv2'
  OBVIOUS
<1>1. CASE UNCHANGED vars
  BY <1>1 DEF Inv2, RefInv, PowerInv, OutputInv, Referenced, Doing, At,
              vars, devVars, semVars
<1>2. ASSUME NEW t \in Threads, Enter(t) \/ Interrupt(t) \/ Step(t)
      PROVE  Inv2'
  BY <1>2, Inv2Enter, Inv2Interrupt, Inv2Open, Inv2Close, Inv2Ioctl DEF Step
<1> QED BY <1>1, <1>2 DEF Next

(* No reference to the PWM device is lost or counted twice *)
THEOREM ReferenceCount == Spec => []CrefsAccounting
<1>1. Inv1 /\ Inv2 => CrefsAccounting
  BY DEF Inv2, RefInv, CrefsAccounting, Quiet, Doing, At
<1> QED BY <1>1, Inv1Init, Inv2Init, Inv1Step, Inv2Step, PTL DEF Spec

(* A file that is open always has a clocked timer below it *)
THEOREM Powered == Spec => []PoweredWhileOpen
<1>1. ASSUME Inv1, Inv2, NEW f \in Files, fstate[f] = "open"
      PROVE  tim.clk
  <2>1. f \in Referenced
    BY <1>1 DEF Referenced
  <2>2. Cardinality(Referenced) # 0
    BY <2>1, FS_EmptySet, ReferencedFinite
  <2>3. crefs \in Nat /\ interrupted \in Nat
    BY <1>1, CrefLimitAssumption, MaxInterruptedAssumption DEF Inv1, TypeOK
  <2>4. ~Doing("close") => crefs > 0
    BY <1>1, <2>2, <2>3, ReferencedFinite DEF Inv2, RefInv
  <2> QED BY <1>1, <2>4 DEF Inv2, PowerInv
<1>2. Inv1 /\ Inv2 => PoweredWhileOpen
  BY <1>1 DEF PoweredWhileOpen
<1> QED BY <1>2, Inv1Init, Inv2Init, Inv1Step, Inv2Step, PTL DEF Spec

(* With the last reference the clock and the output go off *)
THEOREM PoweredOff == Spec => []OffWhenUnreferenced
<1>1. Inv1 /\ Inv2 => OffWhenUnreferenced
  BY DEF Inv2, PowerInv, OffWhenUnreferenced, Quiet, Doing, At, Pulsing
<1> QED BY <1>1, Inv1Init, Inv2Init, Inv1Step, Inv2Step, PTL DEF Spec

(* The clock gate follows the references *)
THEOREM ClockGating == Spec => []ClockFollowsReferences
<1>1. PoweredWhileOpen /\ OffWhenUnreferenced => ClockFollowsReferences
  BY DEF ClockFollowsReferences
<1> QED BY <1>1, Powered, PoweredOff, PTL

(* Pulses have the characteristics that were asked for last *)
THEOREM OutputCorrect == Spec => []OutputMatchesInfo
<1>1. Inv1 /\ Inv2 => OutputMatchesInfo
  BY DEF Inv2, OutputInv, OutputMatchesInfo, Quiet, Doing, At, Pulsing
<1> QED BY <1>1, Inv1Init, Inv2Init, Inv1Step, Inv2Step, PTL DEF Spec

-----------------------------------------------------------------------------
(* A step that leaves the device data and the update in progress alone is  *)
(* no step of the abstract device                                          *)
LEMMA Stutter ==
  ASSUME UNCHANGED devVars, \A op : Doing(op)' <=> Doing(op)
  PROVE  UNCHANGED Completed
BY DEF Completed, devVars

(* A count that a uint8_t holds is the successor that pwm_open() computes *)
LEMMA NextCrefSucc ==
  ASSUME NEW c \in 0 .. CrefLimit - 1, c + 1 \in 0 .. CrefLimit - 1
  PROVE  NextCref(c) = c + 1
BY CrefLimitAssumption DEF NextCref

(* The operations of the instantiated device are those of PwmOps, applied   *)
(* to a device written out field by field                                  *)
LEMMA DeviceTimer ==
  ASSUME NEW x, NEW i
  PROVE  /\ Device!TimerSetup(x) = TimerSetup(x)
         /\ Device!TimerShutdown(x) = TimerShutdown(x)
         /\ Device!TimerStart(x, i) = TimerStart(x, i)
         /\ Device!TimerStop(x) = TimerStop(x)
         /\ Device!NextCref(x) = NextCref(x)
BY DEF Device!TimerSetup, Device!TimerShutdown, Device!TimerStart, Device!TimerRun,
       Device!TimerDuty, Device!TimerStop, Device!ResetTimer, Device!NextCref,
       TimerSetup, TimerShutdown, TimerStart, TimerRun, TimerDuty, TimerStop,
       ResetTimer, NextCref

LEMMA DeviceOpen ==
  ASSUME NEW c, NEW s, NEW i, NEW x
  PROVE  Device!DevOpen([crefs |-> c, started |-> s, info |-> i, tim |-> x]) =
           [crefs |-> NextCref(c), started |-> s, info |-> i,
            tim |-> IF NextCref(c) = 1 THEN TimerSetup(x) ELSE x]
<1> DEFINE d == [crefs |-> c, started |-> s, info |-> i, tim |-> x]
<1>1. /\ Device!NextCref(d.crefs) = NextCref(c)
      /\ Device!TimerSetup(d.tim) = TimerSetup(x) /\ d.tim = x
  BY DeviceTimer
<1>2. Device!DevOpen(d) = [d EXCEPT !.crefs = NextCref(c),
                                    !.tim = IF NextCref(c) = 1 THEN TimerSetup(x) ELSE x]
  BY <1>1 DEF Device!DevOpen
<1> QED BY <1>2

LEMMA DeviceClose ==
  ASSUME NEW c, NEW s, NEW i, NEW x, ~(c > 1)
  PROVE  Device!DevClose([crefs |-> c, started |-> s, info |-> i, tim |-> x]) =
           [crefs |-> 0, started |-> s, info |-> i, tim |-> TimerShutdown(x)]
BY DeviceTimer DEF Device!DevClose

LEMMA DeviceSet ==
  ASSUME NEW c, NEW s, NEW i, NEW x, NEW j
  PROVE  Device!DevSet([crefs |-> c, started |-> s, info |-> i, tim |-> x], j) =
           [crefs |-> c, started |-> s, info |-> j,
            tim |-> IF s THEN TimerStart(x, j) ELSE x]
<1> DEFINE d == [crefs |-> c, started |-> s, info |-> i, tim |-> x]
<1>1. Device!TimerStart(d.tim, j) = TimerStart(x, j) /\ d.tim = x /\ d.started = s
  BY DeviceTimer
<1>2. Device!DevSet(d, j) = [d EXCEPT !.info = j,
                                      !.tim = IF s THEN TimerStart(x, j) ELSE x]
  BY <1>1 DEF Device!DevSet
<1> QED BY <1>2

LEMMA DeviceStart ==
  ASSUME NEW c, NEW s, NEW i, NEW x, ~s
  PROVE  Device!DevStart([crefs |-> c, started |-> s, info |-> i, tim |-> x]) =
           [crefs |-> c, started |-> TRUE, info |-> i, tim |-> TimerStart(x, i)]
BY DeviceTimer DEF Device!DevStart

LEMMA DeviceStop ==
  ASSUME NEW c, NEW s, NEW i, NEW x, s
  PROVE  Device!DevStop([crefs |-> c, started |-> s, info |-> i, tim |-> x]) =
           [crefs |-> c, started |-> FALSE, info |-> i, tim |-> TimerStop(x)]
BY DeviceTimer DEF Device!DevStop

(* Each step of a handler maps to a whole operation or to nothing *)
LEMMA HandlerRefines ==
  ASSUME Inv1, Inv2, NEW t \in Threads, Step(t)
  PROVE  [Device!Next]_Completed
<1> USE DEF At
<1>0. Inside(t) /\ call[t] \in Calls
  BY DEF Step, OpenSetup, OpenSave, CloseDrop, CloseShutdown, SetSave, SetRestart, Get,
         StartTimer, StartMark, StopTimer, StopMark, Inside, Inv1, SemInv
<1>1. \A op : Doing(op) <=> At(t, "second", op)
  BY <1>0, DoingInside
<1>2. Unlock(t) => \A op : ~Doing(op)'
  BY <1>0, DoingUnlock
<1>3. Continue(t) /\ pc[t] = "first" => \A op : Doing(op)' <=> call[t].op = op
  BY DoingContinue
<1>4. pc[t] = "first" => Completed = [crefs |-> crefs, started |-> started,
                                      info |-> info, tim |-> tim]
  BY <1>1 DEF Completed
<1>5. Unlock(t) => Completed' = [crefs |-> crefs', started |-> started',
                                 info |-> info', tim |-> tim']
  BY <1>2 DEF Completed
<1>6. CASE OpenSetup(t)
  <2>1. CASE NextCref(crefs) = 0
    BY <1>4, <1>5, <1>6, <2>1 DEF OpenSetup
  <2>2. CASE NextCref(crefs) # 0
    <3>0. Doing("open")' /\ ~Doing("close")' /\ ~Doing("set")' /\ ~Doing("start")' /\ ~Doing("stop")'
      BY <1>3, <1>6, <2>2 DEF OpenSetup
    <3>1. Completed' = [crefs |-> NextCref(crefs), started |-> started, info |-> info,
                        tim |-> IF NextCref(crefs) = 1 THEN TimerSetup(tim) ELSE tim]
      BY <3>0, <1>6, <2>2 DEF OpenSetup, Completed, NextCref
    <3>2. Device!Open
      BY <1>4, <1>6, <2>2, <3>1, DeviceOpen, DeviceTimer
         DEF OpenSetup, Device!Open, Device!CanOpen
    <3> QED BY <3>2 DEF Device!Next
  <2> QED BY <2>1, <2>2
<1>7. CASE OpenSave(t)
  <2>1. tmp[t] = crefs + 1 /\ tmp[t] \in 0 .. CrefLimit - 1 /\ crefs \in 0 .. CrefLimit - 1
    BY <1>7 DEF OpenSave, Inv1, TypeOK, Inv2, RefInv
  <2>2. NextCref(crefs) = crefs'
    BY <1>7, <2>1, NextCrefSucc DEF OpenSave
  <2>3. Completed = [crefs |-> NextCref(crefs), started |-> started, info |-> info, tim |-> tim]
    BY <1>1, <1>7 DEF OpenSave, Completed
  <2> QED BY <1>5, <1>7, <2>2, <2>3 DEF OpenSave
<1>8. CASE CloseDrop(t)
  <2>1. CASE crefs > 1
    <3>1. Device!Close
      BY <1>4, <1>5, <1>8, <2>1 DEF CloseDrop, Device!Close, Device!DevClose
    <3> QED BY <3>1 DEF Device!Next
  <2>2. CASE ~(crefs > 1)
    <3>0. ~Doing("open")' /\ Doing("close")' /\ ~Doing("set")' /\ ~Doing("start")' /\ ~Doing("stop")'
      BY <1>3, <1>8, <2>2 DEF CloseDrop
    <3>1. Completed' = [crefs |-> 0, started |-> started, info |-> info,
                        tim |-> TimerShutdown(tim)]
      BY <3>0, <1>8, <2>2
         DEF CloseDrop, Completed, TimerShutdown, TimerStop, ResetTimer
    <3>2. Device!Close
      BY <1>4, <1>8, <2>2, <3>1, DeviceClose DEF CloseDrop, Device!Close
    <3> QED BY <3>2 DEF Device!Next
  <2> QED BY <2>1, <2>2
<1>9. CASE CloseShutdown(t)
  <2>1. Completed = [crefs |-> crefs, started |-> started, info |-> info,
                     tim |-> TimerShutdown(tim)]
    BY <1>1, <1>9 DEF CloseShutdown, Completed
  <2> QED BY <1>5, <1>9, <2>1 DEF CloseShutdown
<1>10. CASE SetSave(t)
  <2>1. call[t].info \in Infos
    BY <1>0, <1>10 DEF SetSave, Calls
  <2>0. ~Doing("open")' /\ ~Doing("close")' /\ Doing("set")' /\ ~Doing("start")' /\ ~Doing("stop")'
    BY <1>3, <1>10 DEF SetSave
  <2>2. Completed' = [crefs |-> crefs, started |-> started, info |-> call[t].info,
                      tim |-> IF started THEN TimerStart(tim, call[t].info) ELSE tim]
    BY <2>0, <1>10 DEF SetSave, Completed, TimerStart, TimerRun, TimerDuty
  <2>3. Completed' = Device!DevSet(Completed, call[t].info)
    BY <1>4, <1>10, <2>2, DeviceSet DEF SetSave
  <2>4. Device!Set
    BY <2>1, <2>3 DEF Device!Set, Device!Infos, Infos
  <2> QED BY <2>4 DEF Device!Next
<1>11. CASE SetRestart(t)
  <2>1. Completed = [crefs |-> crefs, started |-> started, info |-> info,
                     tim |-> IF started THEN TimerStart(tim, info) ELSE tim]
    BY <1>1, <1>11 DEF SetRestart, Completed
  <2> QED BY <1>5, <1>11, <2>1 DEF SetRestart
<1>12. CASE Get(t)
  BY <1>4, <1>5, <1>12 DEF Get, devVars
<1>13. CASE StartTimer(t)
  <2>1. CASE started
    BY <1>4, <1>5, <1>13, <2>1 DEF StartTimer
  <2>2. CASE ~started
    <3>0. ~Doing("open")' /\ ~Doing("close")' /\ ~Doing("set")' /\ Doing("start")' /\ ~Doing("stop")'
      BY <1>3, <1>13, <2>2 DEF StartTimer
    <3>1. Completed' = [crefs |-> crefs, started |-> TRUE, info |-> info,
                        tim |-> TimerStart(tim, info)]
      BY <3>0, <1>13, <2>2 DEF StartTimer, Completed
    <3>2. Device!Start
      BY <1>4, <1>13, <2>2, <3>1, DeviceStart DEF StartTimer, Device!Start
    <3> QED BY <3>2 DEF Device!Next
  <2> QED BY <2>1, <2>2
<1>14. CASE StartMark(t)
  <2>1. Completed = [crefs |-> crefs, started |-> TRUE, info |-> info, tim |-> tim]
    BY <1>1, <1>14 DEF StartMark, Completed
  <2> QED BY <1>5, <1>14, <2>1 DEF StartMark
<1>15. CASE StopTimer(t)
  <2>1. CASE ~started
    BY <1>4, <1>5, <1>15, <2>1 DEF StopTimer
  <2>2. CASE started
    <3>0. ~Doing("open")' /\ ~Doing("close")' /\ ~Doing("set")' /\ ~Doing("start")' /\ Doing("stop")'
      BY <1>3, <1>15, <2>2 DEF StopTimer
    <3>1. Completed' = [crefs |-> crefs, started |-> FALSE, info |-> info,
                        tim |-> TimerStop(tim)]
      BY <3>0, <1>15, <2>2 DEF StopTimer, Completed
    <3>2. Device!Stop
      BY <1>4, <1>15, <2>2, <3>1, DeviceStop DEF StopTimer, Device!Stop
    <3> QED BY <3>2 DEF Device!Next
  <2> QED BY <2>1, <2>2
<1>16. CASE StopMark(t)
  <2>1. Completed = [crefs |-> crefs, started |-> FALSE, info |-> info, tim |-> tim]
    BY <1>1, <1>16 DEF StopMark, Completed
  <2> QED BY <1>5, <1>16, <2>1 DEF StopMark
<1> QED BY <1>6, <1>7, <1>8, <1>9, <1>10, <1>11, <1>12, <1>13, <1>14, <1>15, <1>16
        DEF Step

(* Entering and abandoning a call are invisible in the abstract device *)
LEMMA OutsideRefines ==
  ASSUME Inv1, NEW t \in Threads, Enter(t) \/ Interrupt(t)
  PROVE  UNCHANGED Completed
<1>1. UNCHANGED devVars
  BY DEF Enter, EnterOpen, EnterClose, EnterIoctl, Interrupt
<1>2. ~Inside(t)
  BY DEF Enter, EnterOpen, EnterClose, EnterIoctl, Interrupt, Inside
<1>3. PICK p \in {"idle", "wait", "first"} : pc' = [pc EXCEPT ![t] = p]
  BY DEF Enter, EnterOpen, EnterClose, EnterIoctl, Interrupt, Lock
<1>4. PICK c : call' = [call EXCEPT ![t] = c]
  BY DEF Enter, EnterOpen, EnterClose, EnterIoctl, Interrupt
<1>5. ~Inside(t)' \/ pc'[t] = "first"
  BY <1>3 DEF Inside, Inv1, TypeOK
<1>6. \A op : Doing(op)' <=> Doing(op)
  BY <1>2, <1>3, <1>4, <1>5, DoingOutside
<1> QED BY <1>1, <1>6, Stutter

(* The driver with its semaphore implements the atomic PWM device, for     *)
(* every number of threads and files                                       *)
THEOREM Atomicity == Spec => AtomicDevice
<1>1. Init => Device!Init
  <2>1. ASSUME Init PROVE \A op : ~Doing(op)
    BY <2>1 DEF Init, Doing, At
  <2> QED BY <2>1 DEF Init, Completed, Device!Init, Device!NewDev, Device!NoInfo,
                      Device!ResetTimer, NoInfo, ResetTimer
<1>2. Inv1 /\ Inv2 /\ [Next]_vars => [Device!Next]_Completed
  <2> SUFFICES ASSUME Inv1, Inv2, [Next]_vars PROVE [Device!Next]_Completed
    OBVIOUS
  <2>1. CASE UNCHANGED vars
    <3>1. UNCHANGED devVars /\ \A op : Doing(op)' <=> Doing(op)
      BY <2>1 DEF vars, devVars, Doing, At
    <3> QED BY <3>1, Stutter
  <2>2. ASSUME NEW t \in Threads, Enter(t) \/ Interrupt(t) \/ Step(t)
        PROVE  [Device!Next]_Completed
    BY <2>2, HandlerRefines, OutsideRefines
  <2> QED BY <2>1, <2>2 DEF Next
<1> QED BY <1>1, <1>2, Inv1Init, Inv2Init, Inv1Step, Inv2Step, PTL
        DEF Spec, AtomicDevice, Device!Spec
=============================================================================

-------------------------- MODULE WorkQueueProofs ---------------------------
(***************************************************************************)
(* Proofs about WorkQueue, for every number of works, callers, worker      *)
(* threads and ticks of delay: the queue and the worker fields agree, and  *)
(* the thread that keeps the time never sleeps past the delay of work      *)
(* nobody is about to signal.                                              *)
(***************************************************************************)
EXTENDS WorkQueue, SequenceTheorems, NaturalsInduction, WellFoundedInduction, TLAPS

(* A set of numbers that is not empty has a least element *)
LEMMA MinOfSet ==
  ASSUME NEW S \in SUBSET Nat, S # {}
  PROVE  Min(S) \in S /\ \A y \in S : Min(S) <= y
<1>1. \E x \in S : \A y \in S : ~(<<y, x>> \in OpToRel(<, Nat))
  BY WFMin, NatLessThanWellFounded, Zenon
<1>2. \A x, y \in Nat : y < x => <<y, x>> \in OpToRel(<, Nat)
  BY DEF OpToRel
<1>3. \E x \in S : \A y \in S : x <= y
  <2>1. PICK x \in S : \A y \in S : ~(<<y, x>> \in OpToRel(<, Nat))
    BY <1>1, Zenon
  <2>2. \A y \in S : ~(y < x)
    BY <1>2, <2>1
  <2> QED BY <2>2
<1> QED BY <1>3 DEF Min

LEMMA MaxOfTwo ==
  ASSUME NEW a \in Int, NEW b \in Int
  PROVE  Max({a, b}) = IF a >= b THEN a ELSE b
<1>1. \E x \in {a, b} : \A y \in {a, b} : x >= y
  OBVIOUS
<1>2. Max({a, b}) \in {a, b} /\ \A y \in {a, b} : Max({a, b}) >= y
  BY <1>1 DEF Max
<1> QED BY <1>2

-----------------------------------------------------------------------------
(* The queue.  Distinct(q): no work is in it twice *)
Distinct(q) == \A i, j \in DOMAIN q : q[i] = q[j] => i = j

(* r is q without its element m *)
Removed(r, q, m) ==
  /\ r \in Seq(Works) /\ Len(r) = Len(q) - 1
  /\ \A k \in 1 .. Len(q) - 1 : /\ k < m => r[k] = q[k]
                                /\ k >= m => r[k] = q[k + 1]

LEMMA RemoveAtIs ==
  ASSUME NEW q \in Seq(Works), NEW m \in 1 .. Len(q)
  PROVE  Removed(RemoveAt(q, m), q, m)
<1> DEFINE a == SubSeq(q, 1, m - 1)
           b == SubSeq(q, m + 1, Len(q))
<1>1. a \in Seq(Works) /\ Len(a) = m - 1 /\ \A k \in 1 .. m - 1 : a[k] = q[k]
  OBVIOUS
<1>2. b \in Seq(Works) /\ Len(b) = Len(q) - m /\ \A k \in 1 .. Len(q) - m : b[k] = q[m + k]
  OBVIOUS
<1>3. RemoveAt(q, m) = a \o b
  BY DEF RemoveAt
<1> HIDE DEF a, b
<1>0. Len(q) \in Nat
  OBVIOUS
<1>4. /\ a \o b \in Seq(Works) /\ Len(a \o b) = Len(a) + Len(b)
      /\ \A k \in 1 .. Len(a) + Len(b) : (a \o b)[k] = IF k <= Len(a) THEN a[k] ELSE b[k - Len(a)]
  BY <1>1, <1>2, ConcatProperties
<1>5. /\ Len(a \o b) = Len(q) - 1
      /\ \A k \in 1 .. Len(q) - 1 : (a \o b)[k] = IF k < m THEN a[k] ELSE b[k - (m - 1)]
  <2>1. Len(a) = m - 1 /\ Len(a) + Len(b) = Len(q) - 1
    BY <1>0, <1>1, <1>2
  <2>2. \A k \in 1 .. Len(q) - 1 : k <= m - 1 <=> k < m
    BY <1>0
  <2> QED BY <1>4, <2>1, <2>2
<1>6. ASSUME NEW k \in 1 .. Len(q) - 1, k >= m PROVE (a \o b)[k] = q[k + 1]
  <2>1. PICK i \in 1 .. Len(q) - m : i = k - (m - 1)
    BY <1>0, <1>6
  <2>2. (a \o b)[k] = b[i]
    BY <1>0, <1>5, <1>6, <2>1
  <2>3. b[i] = q[m + i] /\ m + i = k + 1
    BY <1>0, <1>2, <1>6, <2>1
  <2> QED BY <2>2, <2>3
<1>7. \A k \in 1 .. Len(q) - 1 : k < m => (a \o b)[k] = q[k]
  BY <1>1, <1>5
<1> QED BY <1>3, <1>4, <1>5, <1>6, <1>7 DEF Removed

LEMMA RemoveList ==
  ASSUME NEW q \in Seq(Works), Distinct(q), NEW m \in 1 .. Len(q), NEW r, Removed(r, q, m)
  PROVE  r \in Seq(Works) /\ Distinct(r) /\ ToSet(r) = ToSet(q) \ {q[m]}
<1> DEFINE at(k) == IF k < m THEN k ELSE k + 1
<1>1. r \in Seq(Works) /\ DOMAIN r = 1 .. Len(q) - 1 /\ DOMAIN q = 1 .. Len(q) /\ Len(q) \in Nat
  BY DEF Removed
<1>2. \A k \in DOMAIN r : at(k) \in DOMAIN q /\ at(k) # m /\ r[k] = q[at(k)]
  BY <1>1 DEF Removed
<1>3. \A j, k \in DOMAIN r : at(j) = at(k) => j = k
  BY <1>1
<1>4. \A i \in DOMAIN q \ {m} : \E k \in DOMAIN r : at(k) = i
  <2> SUFFICES ASSUME NEW i \in DOMAIN q \ {m} PROVE \E k \in DOMAIN r : at(k) = i
    OBVIOUS
  <2>1. CASE i < m
    <3>1. i \in DOMAIN r /\ at(i) = i
      BY <1>1, <2>1
    <3> QED BY <3>1
  <2>2. CASE i > m
    <3>1. i - 1 \in DOMAIN r /\ at(i - 1) = i
      BY <1>1, <2>2
    <3> QED BY <3>1
  <2> QED BY <1>1, <2>1, <2>2
<1> HIDE DEF at
<1>5. Distinct(r)
  BY <1>2, <1>3 DEF Distinct
<1>6. ToSet(r) = ToSet(q) \ {q[m]}
  BY <1>1, <1>2, <1>4 DEF Distinct, ToSet
<1> QED BY <1>1, <1>5, <1>6

(* dq_rem() *)
LEMMA DequeueList ==
  ASSUME NEW q \in Seq(Works), Distinct(q), NEW w \in ToSet(q)
  PROVE  /\ RemoveFirst(q, w) \in Seq(Works) /\ Distinct(RemoveFirst(q, w))
         /\ ToSet(RemoveFirst(q, w)) = ToSet(q) \ {w}
<1> DEFINE I == {i \in 1 .. Len(q) : q[i] = w}
<1>1. I # {} /\ I \in SUBSET Nat
  BY DEF ToSet
<1>2. RemoveFirst(q, w) = RemoveAt(q, Min(I))
  BY <1>1 DEF RemoveFirst, SelectInSeq
<1>3. Min(I) \in I
  <2> HIDE DEF I
  <2> QED BY <1>1, MinOfSet
<1>4. PICK m \in 1 .. Len(q) : m = Min(I) /\ q[m] = w
  BY <1>3
<1>5. Removed(RemoveFirst(q, w), q, m)
  BY <1>2, <1>4, RemoveAtIs
<1> QED BY <1>4, <1>5, RemoveList

(* dq_addlast() *)
LEMMA EnqueueList ==
  ASSUME NEW q \in Seq(Works), Distinct(q), NEW w \in Works \ ToSet(q)
  PROVE  /\ Append(q, w) \in Seq(Works) /\ Distinct(Append(q, w))
         /\ ToSet(Append(q, w)) = ToSet(q) \cup {w}
<1>1. /\ Append(q, w) \in Seq(Works) /\ DOMAIN Append(q, w) = 1 .. Len(q) + 1
      /\ DOMAIN q = 1 .. Len(q) /\ Len(q) \in Nat
      /\ Append(q, w)[Len(q) + 1] = w /\ \A k \in 1 .. Len(q) : Append(q, w)[k] = q[k]
  OBVIOUS
<1>2. \A k \in 1 .. Len(q) + 1 : k = Len(q) + 1 \/ k \in 1 .. Len(q)
  BY <1>1
<1>3. \A k \in 1 .. Len(q) : q[k] # w
  BY <1>1 DEF ToSet
<1>4. Distinct(Append(q, w))
  BY <1>1, <1>2, <1>3 DEF Distinct
<1>5. ToSet(Append(q, w)) = ToSet(q) \cup {w}
  BY <1>1, <1>2 DEF ToSet
<1> QED BY <1>1, <1>4, <1>5

-----------------------------------------------------------------------------
QueueInv == ToSet(queue) = armed /\ Distinct(queue)

(* The sleep of thread 0 ends in time for w, or a caller is going to end   *)
(* it: one that still looks for a thread, and will find thread 0, or has   *)
(* found it.  A caller that has found another thread is no help            *)
Covered(w) ==
  \/ timer <= left[w] + 1
  \/ \E c \in Callers :
       /\ caller[c].work = w
       /\ caller[c].at = "pick" \/ (caller[c].at = "kill" /\ caller[c].thread = 0)

SleepInv == pc[0] = "wait" => timer > 0 /\ ~busy[0] /\ \A w \in armed : Covered(w)

Inv == TypeOK /\ QueueInv /\ SleepInv

CallerType == [at : {"idle", "pick", "kill"}, work : Works \cup {NoWork}, thread : Threads]
Delays == 0 .. MaxDelay \cup {Forever}

LEMMA Numbers ==
  /\ MaxDelay \in Nat /\ Forever \in Nat /\ Forever = MaxDelay + 2
  /\ 0 \in Threads /\ Threads \subseteq Nat /\ Idle \in CallerType /\ Idle.at = "idle"
BY WorkAssumption DEF Forever, Threads, Idle, CallerType

LEMMA FirstReadyIs ==
  ASSUME queue \in Seq(Works)
  PROVE  FirstReady \in 0 .. Len(queue)
<1> DEFINE I == {i \in 1 .. Len(queue) : left[queue[i]] = 0}
<1>1. FirstReady = IF I # {} THEN Min(I) ELSE 0
  BY DEF FirstReady, SelectInSeq
<1>2. I \in SUBSET Nat /\ I \subseteq 1 .. Len(queue) /\ Len(queue) \in Nat
  OBVIOUS
<1> HIDE DEF I
<1>3. CASE I = {}
  BY <1>1, <1>2, <1>3
<1>4. CASE I # {}
  <2>1. Min(I) \in I
    BY <1>2, <1>4, MinOfSet
  <2>2. Min(I) \in 1 .. Len(queue)
    BY <1>2, <2>1, Zenon
  <2> QED BY <1>1, <1>2, <1>4, <2>2
<1> QED BY <1>3, <1>4

(* The shortest delay a pass has seen is at most what any of the work has  *)
LEMMA ShortestIs ==
  ASSUME TypeOK, NEW k \in 0 .. Len(queue)
  PROVE  /\ Shortest(k) \in Delays
         /\ \A j \in 1 .. k : Shortest(k) <= left[queue[j]]
<1> DEFINE m(j) == Max({0, left[queue[j]] - span})
           S == {next} \cup {m(j) : j \in 1 .. k}
<1>1. /\ next \in Delays /\ span \in 0 .. MaxDelay /\ left \in [Works -> 0 .. MaxDelay]
      /\ queue \in Seq(Works) /\ Len(queue) \in Nat
  BY DEF TypeOK, Delays
<1>2. ASSUME NEW j \in 1 .. k PROVE m(j) \in 0 .. MaxDelay /\ m(j) <= left[queue[j]]
  <2>1. left[queue[j]] \in 0 .. MaxDelay
    BY <1>1
  <2>2. m(j) = IF 0 >= left[queue[j]] - span THEN 0 ELSE left[queue[j]] - span
    BY <1>1, <2>1, Numbers, MaxOfTwo
  <2> HIDE DEF m
  <2> QED BY <1>1, <2>1, <2>2, Numbers
<1>3. Shortest(k) = Min(S)
  BY DEF Shortest
<1> HIDE DEF m
<1>4. S \in SUBSET Delays /\ S # {} /\ \A j \in 1 .. k : m(j) \in S
  BY <1>1, <1>2 DEF Delays
<1>5. Delays \subseteq Nat
  BY Numbers DEF Delays
<1> HIDE DEF S
<1>6. Min(S) \in S /\ \A y \in S : Min(S) <= y
  BY <1>4, <1>5, MinOfSet
<1>7. ASSUME NEW j \in 1 .. k PROVE Min(S) <= left[queue[j]]
  <2>1. Min(S) <= m(j) /\ m(j) <= left[queue[j]] /\ m(j) \in Nat /\ Min(S) \in Nat
    BY <1>2, <1>4, <1>5, <1>6
  <2>2. left[queue[j]] \in Nat
    BY <1>1
  <2> QED BY <2>1, <2>2
<1> QED BY <1>3, <1>4, <1>6, <1>7

-----------------------------------------------------------------------------
(* A caller puts work into the queue, or takes it out *)
LEMMA QueueStep ==
  ASSUME Inv, NEW c \in Callers, NEW w \in Works, NEW d \in 0 .. MaxDelay, work_queue(c, w, d)
  PROVE  Inv'
<1> USE DEF Inv
<1> DEFINE q == IF w \in armed THEN RemoveFirst(queue, w) ELSE queue
<1>1. q \in Seq(Works) /\ Distinct(q) /\ ToSet(q) = armed \ {w}
  BY DequeueList DEF TypeOK, QueueInv
<1>2. queue' = Append(q, w) /\ armed' = armed \cup {w} /\ left' = [left EXCEPT ![w] = d]
  BY DEF work_queue, Enqueue
<1> HIDE DEF q
<1>3. queue' \in Seq(Works) /\ QueueInv'
  BY <1>1, <1>2, EnqueueList DEF QueueInv
<1> DEFINE r == [at |-> "pick", work |-> w, thread |-> 0]
<1>4. caller' = [caller EXCEPT ![c] = r] /\ caller[c].at = "idle"
  BY DEF work_queue
<1>5. r \in CallerType /\ r.at = "pick" /\ r.work = w
  BY Numbers DEF CallerType
<1> HIDE DEF r
<1>6. caller \in [Callers -> CallerType]
  BY DEF TypeOK, CallerType
<1>7. /\ caller' \in [Callers -> CallerType] /\ caller'[c].at = "pick" /\ caller'[c].work = w
      /\ \A e \in Callers \ {c} : caller'[e] = caller[e]
  BY <1>4, <1>5, <1>6
<1>8. TypeOK'
  BY <1>2, <1>3, <1>7 DEF TypeOK, CallerType, work_queue, threadVars
<1>9. SleepInv'
  <2> SUFFICES ASSUME pc[0] = "wait", NEW v \in armed' PROVE Covered(v)'
    BY DEF SleepInv, work_queue, threadVars
  <2>1. CASE v = w
    BY <1>7, <2>1 DEF Covered
  <2>2. CASE v # w
    <3>1. Covered(v) /\ left'[v] = left[v] /\ timer' = timer
      BY <1>2, <2>2 DEF SleepInv, TypeOK, work_queue, threadVars
    <3>2. CASE timer <= left[v] + 1
      BY <3>1, <3>2 DEF Covered
    <3>3. ASSUME NEW e \in Callers, caller[e].work = v,
                 caller[e].at = "pick" \/ (caller[e].at = "kill" /\ caller[e].thread = 0)
          PROVE  Covered(v)'
      BY <1>4, <1>7, <3>3 DEF Covered
    <3> QED BY <3>1, <3>2, <3>3 DEF Covered
  <2> QED BY <2>1, <2>2
<1> QED BY <1>3, <1>8, <1>9

LEMMA CancelStep ==
  ASSUME Inv, NEW c \in Callers, NEW w \in Works, work_cancel(c, w)
  PROVE  Inv'
<1> USE DEF Inv
<1>1. queue' \in Seq(Works) /\ QueueInv'
  BY DequeueList DEF TypeOK, QueueInv, work_cancel
<1>2. TypeOK'
  <2>1. left' \in [Works -> 0 .. MaxDelay]
    BY Numbers DEF TypeOK, work_cancel
  <2> QED BY <1>1, <2>1 DEF TypeOK, work_cancel, threadVars
<1>3. \A v \in armed' : Covered(v) => Covered(v)'
  BY DEF Covered, work_cancel, threadVars, TypeOK
<1>4. SleepInv'
  BY <1>3 DEF SleepInv, work_cancel, threadVars
<1> QED BY <1>1, <1>2, <1>4

(* A caller looks for an idle thread: thread 0 is the first that sleeps *)
LEMMA PickStep ==
  ASSUME Inv, NEW c \in Callers, PickThread(c)
  PROVE  Inv'
<1> USE DEF Inv
<1> DEFINE idle == {i \in Threads : i < n /\ ~busy[i]}
           r == IF idle = {} THEN Idle
                ELSE [at |-> "kill", work |-> caller[c].work, thread |-> Min(idle)]
<1>1. caller' = [caller EXCEPT ![c] = r] /\ caller \in [Callers -> CallerType]
  BY DEF PickThread, TypeOK, CallerType
<1>2. idle \subseteq Threads /\ idle \in SUBSET Nat
  BY Numbers
<1>3. idle # {} => Min(idle) \in idle /\ \A y \in idle : Min(idle) <= y
  <2> HIDE DEF idle
  <2> QED BY <1>2, MinOfSet
<1>4. pc[0] = "wait" => 0 \in idle
  BY Numbers DEF SleepInv, TypeOK
<1> HIDE DEF idle
<1>5. r \in CallerType
  BY <1>1, <1>2, <1>3, Numbers DEF CallerType
<1>6. pc[0] = "wait" => r.at = "kill" /\ r.thread = 0 /\ r.work = caller[c].work
  <2> SUFFICES ASSUME pc[0] = "wait" PROVE r.at = "kill" /\ r.thread = 0 /\ r.work = caller[c].work
    OBVIOUS
  <2>0. idle # {} /\ Min(idle) \in Nat /\ Min(idle) <= 0
    BY <1>2, <1>3, <1>4, Zenon
  <2>1. Min(idle) = 0 /\ idle # {}
    BY <2>0
  <2> QED BY <2>1
<1> HIDE DEF r
<1>7. /\ caller' \in [Callers -> CallerType] /\ caller'[c] = r
      /\ \A e \in Callers \ {c} : caller'[e] = caller[e]
  BY <1>1, <1>5
<1>8. TypeOK' /\ QueueInv'
  BY <1>7 DEF TypeOK, CallerType, QueueInv, PickThread, threadVars
<1>9. SleepInv'
  <2> SUFFICES ASSUME pc[0] = "wait", NEW v \in armed PROVE Covered(v)'
    BY DEF SleepInv, PickThread, threadVars
  <2>1. Covered(v) /\ left' = left /\ timer' = timer
    BY DEF SleepInv, PickThread, threadVars
  <2>2. CASE timer <= left[v] + 1
    BY <2>1, <2>2 DEF Covered
  <2>3. ASSUME NEW e \in Callers, caller[e].work = v,
               caller[e].at = "pick" \/ (caller[e].at = "kill" /\ caller[e].thread = 0)
        PROVE  Covered(v)'
    BY <1>6, <1>7, <2>3 DEF Covered
  <2> QED BY <2>1, <2>2, <2>3 DEF Covered
<1> QED BY <1>8, <1>9

(* The signal: a caller that signals another thread than 0 covered nothing *)
LEMMA KillStep ==
  ASSUME Inv, NEW c \in Callers, KillThread(c)
  PROVE  Inv'
<1> USE DEF Inv
<1>1. /\ caller' = [caller EXCEPT ![c] = Idle] /\ caller[c].at = "kill"
      /\ caller \in [Callers -> CallerType]
  BY DEF KillThread, TypeOK, CallerType
<1>2. /\ caller' \in [Callers -> CallerType]
      /\ \A e \in Callers \ {c} : caller'[e] = caller[e]
  BY <1>1, Numbers
<1>3. /\ pc' \in [Threads -> {"none", "start", "scan", "run", "wait", "ready"}]
      /\ timer' \in 0 .. Forever
      /\ pc'[0] = "wait" => pc[0] = "wait" /\ timer' = timer /\ caller[c].thread # 0
  <2>1. PICK i \in Threads : i = caller[c].thread
    BY <1>1 DEF CallerType
  <2>2. CASE pc[i] = "wait"
    <3>1. pc' = [pc EXCEPT ![i] = "ready"] /\ timer' = IF i = 0 THEN 0 ELSE timer
      BY <2>1, <2>2 DEF KillThread
    <3>2. /\ pc' \in [Threads -> {"none", "start", "scan", "run", "wait", "ready"}]
          /\ pc'[0] = "wait" => pc[0] = "wait" /\ i # 0
      BY <3>1, Numbers DEF TypeOK
    <3>3. timer' \in 0 .. Forever
      BY <3>1, Numbers DEF TypeOK
    <3> QED BY <2>1, <3>1, <3>2, <3>3
  <2>3. CASE pc[i] # "wait"
    <3>1. pc' = pc /\ timer' = timer
      BY <2>1, <2>3 DEF KillThread
    <3>2. pc[0] = "wait" => i # 0
      BY <2>3
    <3> QED BY <2>1, <3>1, <3>2 DEF TypeOK
  <2> QED BY <2>2, <2>3
<1>4. TypeOK' /\ QueueInv'
  BY <1>2, <1>3 DEF TypeOK, CallerType, QueueInv, KillThread
<1>5. SleepInv'
  <2> SUFFICES ASSUME pc'[0] = "wait"
               PROVE  timer' > 0 /\ ~busy'[0] /\ \A v \in armed' : Covered(v)'
    BY DEF SleepInv
  <2>1. /\ timer' = timer /\ timer > 0 /\ ~busy'[0] /\ armed' = armed /\ left' = left
        /\ \A v \in armed : Covered(v)
    BY <1>3 DEF SleepInv, KillThread
  <2>2. ASSUME NEW v \in armed PROVE Covered(v)'
    <3>1. CASE timer <= left[v] + 1
      BY <2>1, <3>1 DEF Covered
    <3>2. ASSUME NEW e \in Callers, caller[e].work = v,
                 caller[e].at = "pick" \/ (caller[e].at = "kill" /\ caller[e].thread = 0)
          PROVE  Covered(v)'
      BY <1>1, <1>2, <1>3, <3>2 DEF Covered
    <3> QED BY <2>1, <3>1, <3>2 DEF Covered
  <2> QED BY <2>1, <2>2
<1> QED BY <1>4, <1>5

-----------------------------------------------------------------------------
(* The worker threads.  Where thread 0 does not go to sleep, and neither   *)
(* the queue nor a caller changes to its harm, SleepInv is kept            *)
LEMMA SleepKept ==
  ASSUME SleepInv, caller' = caller, left' = left, timer' = timer, armed' \subseteq armed,
         pc'[0] = "wait" => pc[0] = "wait" /\ busy'[0] = busy[0]
  PROVE  SleepInv'
<1>1. \A w \in armed' : Covered(w) => Covered(w)'
  BY DEF Covered
<1> QED BY <1>1 DEF SleepInv

LEMMA StartStep ==
  ASSUME Inv, NEW i \in Threads, StartPass(i)
  PROVE  Inv'
<1> USE DEF Inv
<1>1. /\ pc' \in [Threads -> {"none", "start", "scan", "run", "wait", "ready"}]
      /\ pc'[0] = "wait" => pc[0] = "wait"
  BY Numbers DEF StartPass, TypeOK
<1>2. next' \in 0 .. MaxDelay \cup {Forever} /\ span' \in 0 .. MaxDelay
  BY Numbers DEF StartPass, TypeOK
<1>3. TypeOK' /\ QueueInv'
  BY <1>1, <1>2 DEF StartPass, TypeOK, QueueInv
<1>4. SleepInv'
  BY <1>1, SleepKept DEF StartPass
<1> QED BY <1>3, <1>4

LEMMA RunStep ==
  ASSUME Inv, NEW i \in Threads, RunWork(i)
  PROVE  Inv'
<1> USE DEF Inv
<1>1. queue \in Seq(Works) /\ Len(queue) \in Nat /\ Distinct(queue) /\ ToSet(queue) = armed
  BY DEF TypeOK, QueueInv
<1>2. FirstReady \in 0 .. Len(queue) /\ FirstReady > 0
  BY <1>1, FirstReadyIs DEF RunWork
<1>3. PICK m \in 1 .. Len(queue) : m = FirstReady
  BY <1>1, <1>2
<1>4. PICK w \in Works : w = queue[m] /\ w \in ToSet(queue)
  BY <1>1, <1>3 DEF ToSet
<1>5. /\ queue' = RemoveFirst(queue, w) /\ armed' = armed \ {w}
      /\ runs' = [runs EXCEPT ![i] = w] /\ pc' = [pc EXCEPT ![i] = "run"]
      /\ next' = IF i = 0 THEN Shortest(m - 1) ELSE next
  BY <1>3, <1>4 DEF RunWork
<1>6. queue' \in Seq(Works) /\ QueueInv'
  BY <1>1, <1>4, <1>5, DequeueList DEF QueueInv
<1>7. next' \in Delays
  <2>1. m - 1 \in 0 .. Len(queue)
    BY <1>1, <1>3
  <2>2. Shortest(m - 1) \in Delays
    BY <2>1, ShortestIs
  <2>3. next \in Delays
    BY DEF TypeOK, Delays
  <2> QED BY <1>5, <2>2, <2>3, Zenon
<1>8. /\ pc' \in [Threads -> {"none", "start", "scan", "run", "wait", "ready"}]
      /\ runs' \in [Threads -> Works \cup {NoWork}]
      /\ pc'[0] = "wait" => pc[0] = "wait"
  BY <1>4, <1>5, Numbers DEF TypeOK
<1>9. armed' \subseteq armed /\ armed' \subseteq Works
  BY <1>5 DEF TypeOK
<1>10. TypeOK'
  BY <1>6, <1>7, <1>8, <1>9 DEF TypeOK, RunWork, Delays
<1>11. SleepInv'
  BY <1>8, <1>9, SleepKept DEF RunWork
<1> QED BY <1>6, <1>10, <1>11

LEMMA DoneStep ==
  ASSUME Inv, NEW i \in Threads, WorkDone(i)
  PROVE  Inv'
<1> USE DEF Inv
<1>1. /\ pc' \in [Threads -> {"none", "start", "scan", "run", "wait", "ready"}]
      /\ runs' \in [Threads -> Works \cup {NoWork}]
      /\ pc'[0] = "wait" => pc[0] = "wait"
  BY Numbers DEF WorkDone, TypeOK
<1>2. TypeOK' /\ QueueInv'
  BY <1>1 DEF WorkDone, TypeOK, QueueInv
<1>3. SleepInv'
  BY <1>1, SleepKept DEF WorkDone
<1> QED BY <1>2, <1>3

LEMMA ResumeStep ==
  ASSUME Inv, NEW i \in Threads, Resume(i)
  PROVE  Inv'
<1> USE DEF Inv
<1>1. /\ pc' \in [Threads -> {"none", "start", "scan", "run", "wait", "ready"}]
      /\ pc'[0] = "wait" => pc[0] = "wait" /\ i # 0
  BY Numbers DEF Resume, TypeOK
<1>2. busy' \in [Threads -> BOOLEAN] /\ (i # 0 => busy'[0] = busy[0])
  BY Numbers DEF Resume, TypeOK
<1>3. TypeOK' /\ QueueInv'
  BY <1>1, <1>2 DEF Resume, TypeOK, QueueInv
<1>4. SleepInv'
  BY <1>1, <1>2, SleepKept DEF Resume
<1> QED BY <1>3, <1>4

(* Thread 0 falls asleep for no longer than any of the work has left and   *)
(* one tick, or for ever when there is none                                *)
LEMMA SleepStep ==
  ASSUME Inv, NEW i \in Threads, Sleep(i)
  PROVE  Inv'
<1> USE DEF Inv
<1> DEFINE t == Shortest(Len(queue))
<1>1. queue \in Seq(Works) /\ Len(queue) \in Nat /\ ToSet(queue) = armed
  BY DEF TypeOK, QueueInv
<1>2. t \in Delays /\ \A j \in 1 .. Len(queue) : t <= left[queue[j]]
  <2>1. Len(queue) \in 0 .. Len(queue)
    BY <1>1
  <2> QED BY <2>1, ShortestIs
<1>3. \A w \in armed : t <= left[w] /\ left[w] \in 0 .. MaxDelay
  BY <1>1, <1>2 DEF ToSet, TypeOK
<1>4. /\ i = 0 /\ t = 0 => pc' = [pc EXCEPT ![i] = "start"] /\ busy' = busy /\ timer' = timer
      /\ ~(i = 0 /\ t = 0) => /\ pc' = [pc EXCEPT ![i] = "wait"]
                              /\ busy' = [busy EXCEPT ![i] = FALSE]
                              /\ timer' = IF i > 0 THEN timer
                                          ELSE IF t = Forever THEN Forever ELSE t + 1
  BY DEF Sleep
<1>5. /\ queue' = queue /\ armed' = armed /\ left' = left /\ caller' = caller /\ n' = n /\ runs' = runs
      /\ next' = IF i = 0 THEN Forever ELSE next
      /\ span' = IF i = 0 THEN 0 ELSE span
  BY DEF Sleep
<1> HIDE DEF t
<1>6. t \in Nat /\ (t # Forever => t \in 0 .. MaxDelay)
  BY <1>2, Numbers DEF Delays
<1>7. pc' \in [Threads -> {"none", "start", "scan", "run", "wait", "ready"}]
  BY <1>4 DEF TypeOK
<1>8. busy' \in [Threads -> BOOLEAN]
  BY <1>4 DEF TypeOK
<1>9. timer' \in 0 .. Forever
  BY <1>4, <1>6, Numbers DEF TypeOK
<1>10. next' \in 0 .. MaxDelay \cup {Forever} /\ span' \in 0 .. MaxDelay
  BY <1>5, Numbers DEF TypeOK
<1>11. TypeOK' /\ QueueInv'
  BY <1>5, <1>7, <1>8, <1>9, <1>10 DEF TypeOK, QueueInv
<1>12. SleepInv'
  <2>1. CASE i = 0 /\ t = 0
    <3>1. pc'[0] = "start"
      BY <1>4, <2>1, Numbers DEF TypeOK
    <3> QED BY <3>1 DEF SleepInv
  <2>2. CASE i = 0 /\ t # 0
    <3>1. ~busy'[0]
      BY <1>4, <2>2, Numbers DEF TypeOK
    <3>2. timer' = IF t = Forever THEN Forever ELSE t + 1
      BY <1>4, <2>2
    <3>3. timer' > 0
      BY <1>6, <3>2, Numbers
    <3>4. \A w \in armed : timer' <= left'[w] + 1
      BY <1>3, <1>5, <1>6, <3>2, Numbers
    <3>5. \A w \in armed' : Covered(w)'
      BY <1>5, <3>4 DEF Covered
    <3> QED BY <3>1, <3>3, <3>5 DEF SleepInv
  <2>3. CASE i # 0
    <3>1. pc'[0] = pc[0] /\ busy'[0] = busy[0]
      BY <1>4, <2>3, Numbers DEF TypeOK
    <3>2. timer' = timer
      BY <1>4, <2>3, Numbers
    <3> QED BY <1>5, <3>1, <3>2, SleepKept
  <2> QED BY <2>1, <2>2, <2>3
<1> QED BY <1>11, <1>12

(* Delays and the sleep run down together *)
LEMMA TickStep ==
  ASSUME Inv, Tick
  PROVE  Inv'
<1> USE DEF Inv
<1>1. /\ left \in [Works -> 0 .. MaxDelay] /\ timer \in 0 .. Forever /\ span \in 0 .. MaxDelay
      /\ armed \subseteq Works
  BY DEF TypeOK
<1>2. \A w \in Works : left'[w] = IF left[w] > 0 THEN left[w] - 1 ELSE 0
  BY DEF Tick
<1>3. left' \in [Works -> 0 .. MaxDelay]
  BY <1>1, Numbers DEF Tick
<1>4. timer' = (IF timer \in 1 .. Forever - 1 THEN timer - 1 ELSE timer) /\ timer' \in 0 .. Forever
  BY <1>1, Numbers DEF Tick
<1>5. span' \in 0 .. MaxDelay
  BY <1>1, Numbers DEF Tick
<1>6. /\ pc' \in [Threads -> {"none", "start", "scan", "run", "wait", "ready"}]
      /\ pc'[0] = "wait" => pc[0] = "wait" /\ timer' # 0
  BY Numbers DEF Tick, TypeOK
<1>7. TypeOK' /\ QueueInv'
  BY <1>3, <1>4, <1>5, <1>6 DEF TypeOK, QueueInv, Tick
<1>8. SleepInv'
  <2> SUFFICES ASSUME pc'[0] = "wait"
               PROVE  timer' > 0 /\ ~busy'[0] /\ \A v \in armed' : Covered(v)'
    BY DEF SleepInv
  <2>1. /\ timer > 0 /\ timer' # 0 /\ ~busy'[0] /\ armed' = armed /\ caller' = caller
        /\ \A v \in armed : Covered(v)
    BY <1>6 DEF SleepInv, Tick
  <2>2. timer' > 0
    BY <1>4, <2>1, Numbers
  <2>3. ASSUME NEW v \in armed, timer <= left[v] + 1 PROVE timer' <= left'[v] + 1
    <3>1. PICK l \in 0 .. MaxDelay : l = left[v] /\ left'[v] = IF l > 0 THEN l - 1 ELSE 0
      BY <1>1, <1>2
    <3>2. timer <= l + 1 /\ timer \in 1 .. Forever - 1
      BY <1>1, <2>1, <2>3, <3>1, Numbers
    <3> QED BY <1>1, <1>4, <2>1, <3>1, <3>2, Numbers
  <2>4. \A v \in armed : Covered(v)'
    BY <2>1, <2>3 DEF Covered
  <2> QED BY <2>1, <2>2, <2>4
<1> QED BY <1>7, <1>8

-----------------------------------------------------------------------------
LEMMA InvInit == Init => Inv
<1> SUFFICES ASSUME Init PROVE Inv
  OBVIOUS
<1>1. n \in 1 .. MaxThreads /\ queue = <<>> /\ armed = {} /\ DOMAIN queue = {}
  BY DEF Init
<1>2. QueueInv
  BY <1>1 DEF QueueInv, ToSet, Distinct
<1>3. SleepInv
  BY Numbers DEF Init, SleepInv
<1>4. /\ left \in [Works -> 0 .. MaxDelay] /\ next \in 0 .. MaxDelay \cup {Forever}
      /\ span \in 0 .. MaxDelay /\ timer \in 0 .. Forever
  BY Numbers DEF Init
<1>5. /\ pc \in [Threads -> {"none", "start", "scan", "run", "wait", "ready"}]
      /\ busy \in [Threads -> BOOLEAN] /\ runs \in [Threads -> Works \cup {NoWork}]
  BY DEF Init
<1>6. caller \in [Callers -> CallerType]
  BY Numbers DEF Init
<1>7. TypeOK
  BY <1>1, <1>4, <1>5, <1>6 DEF TypeOK, CallerType
<1> QED BY <1>2, <1>3, <1>7 DEF Inv

LEMMA InvNext == Inv /\ [Next]_vars => Inv'
<1> SUFFICES ASSUME Inv, [Next]_vars PROVE Inv'
  OBVIOUS
<1>1. ASSUME NEW c \in Callers, Calls(c) PROVE Inv'
  BY <1>1, QueueStep, CancelStep DEF Calls
<1>2. ASSUME NEW c \in Callers, Signal(c) PROVE Inv'
  BY <1>2, PickStep, KillStep DEF Signal
<1>3. ASSUME NEW i \in Threads, Worker(i) PROVE Inv'
  BY <1>3, StartStep, RunStep, SleepStep, ResumeStep DEF Worker
<1>4. ASSUME NEW i \in Threads, WorkDone(i) PROVE Inv'
  BY <1>4, DoneStep
<1>5. CASE Tick
  BY <1>5, TickStep
<1>6. CASE UNCHANGED vars
  BY <1>6 DEF vars, Inv, TypeOK, QueueInv, SleepInv, Covered
<1> QED BY <1>1, <1>2, <1>3, <1>4, <1>5, <1>6 DEF Next

(* work_qqueue(), work_cancel() and work_process() never leave work in the *)
(* queue twice, or in the queue without its worker field, or out of it     *)
(* with one, however they interleave                                       *)
THEOREM Queued == Spec => []QueueConsistent
<1>1. Inv => QueueConsistent
  BY DEF Inv, QueueConsistent, QueueInv, Distinct, IsInjective
<1> QED BY <1>1, InvInit, InvNext, PTL DEF Spec

(* No lost wake-up: thread 0, which alone sleeps with a timeout, wakes no  *)
(* later than a tick after the delay of any work in the queue, or the      *)
(* caller of work_queue() has not sent its signal yet                      *)
THEOREM WakeUp == Spec => []NoOversleep
<1>1. Inv => NoOversleep
  BY DEF Inv, SleepInv, Covered, NoOversleep
<1> QED BY <1>1, InvInit, InvNext, PTL DEF Spec
=============================================================================

---------------------------- MODULE NxSemProofs -----------------------------
(***************************************************************************)
(* Proofs about NxSem, for every set of tasks, semaphores and priorities:  *)
(* the signed counter, the list of waiting tasks, the watchdogs of timed   *)
(* waits, and that the counter and the list implement SemAbs.  The count   *)
(* is exact only when no task is deleted while it waits, the assumption    *)
(* ~DeleteWaiting of the theorems: run sem_delete shows what happens then. *)
(***************************************************************************)
EXTENDS NxSem, FiniteSetTheorems, NaturalsInduction, WellFoundedInduction, TLAPS

(* A set of numbers that is not empty has a least element *)
LEMMA MinOfSet ==
  ASSUME NEW S \in SUBSET Nat, S # {}
  PROVE  Min(S) \in S /\ \A y \in S : Min(S) <= y
<1>1. \E x \in S : \A y \in S : ~(<<y, x>> \in OpToRel(<, Nat))
  BY WFMin, NatLessThanWellFounded, Zenon
<1>2. \A x, y \in Nat : y < x => <<y, x>> \in OpToRel(<, Nat)
  BY DEF OpToRel
<1>3. \E x \in S : \A y \in S : x <= y
  <2>1. PICK x \in S : \A y \in S : ~(<<y, x>> \in OpToRel(<, Nat))
    BY <1>1, Zenon
  <2>2. \A y \in S : ~(y < x)
    BY <1>2, <2>1
  <2> QED BY <2>2
<1> QED BY <1>3 DEF Min

LEMMA MinOfTwo ==
  ASSUME NEW a \in Nat, NEW b \in Nat
  PROVE  Min({a, b}) = IF a <= b THEN a ELSE b
<1>1. Min({a, b}) \in {a, b} /\ \A y \in {a, b} : Min({a, b}) <= y
  BY MinOfSet
<1> QED BY <1>1

-----------------------------------------------------------------------------
(* The list.  Distinct(q): no task is in it twice; Sorted(q, f): the       *)
(* priorities f do not rise towards its end                                *)
Distinct(q) == \A i, j \in DOMAIN q : q[i] = q[j] => i = j

Sorted(q, f) == \A i, j \in DOMAIN q : i < j => f[q[i]] >= f[q[j]]

(* Taking tasks out of a list keeps it a sorted list of distinct tasks *)
LEMMA WithoutList ==
  ASSUME NEW q \in Seq(Tasks), Distinct(q), NEW W, NEW r \in Without(q, W),
         IsFiniteSet(Tasks)
  PROVE  /\ r \in Seq(Tasks)
         /\ ToSet(r) = ToSet(q) \ W
         /\ Distinct(r)
         /\ \A f : Sorted(q, f) => Sorted(r, f)
<1> DEFINE rest == ToSet(q) \ W
<1>1. rest \in SUBSET Tasks
  BY DEF ToSet
<1>2. Cardinality(rest) \in Nat
  BY <1>1, FS_Subset, FS_CardinalityType
<1>3. /\ r \in [1 .. Cardinality(rest) -> rest] /\ ToSet(r) = rest
      /\ \A i, j \in DOMAIN r : i < j =>
           \E k, l \in DOMAIN q : k < l /\ q[k] = r[i] /\ q[l] = r[j]
  BY DEF Without
<1> HIDE DEF rest
<1>4. r \in Seq(Tasks)
  BY <1>1, <1>2, <1>3
<1>5. Distinct(r)
  <2> SUFFICES ASSUME NEW i \in DOMAIN r, NEW j \in DOMAIN r, i < j, r[i] = r[j]
               PROVE  FALSE
    BY <1>2, <1>3 DEF Distinct
  <2>1. PICK k \in DOMAIN q, l \in DOMAIN q : k < l /\ q[k] = r[i] /\ q[l] = r[j]
    BY <1>3
  <2> QED BY <2>1 DEF Distinct
<1>6. ASSUME NEW f, Sorted(q, f) PROVE Sorted(r, f)
  <2> SUFFICES ASSUME NEW i \in DOMAIN r, NEW j \in DOMAIN r, i < j
               PROVE  f[r[i]] >= f[r[j]]
    BY DEF Sorted
  <2>1. PICK k \in DOMAIN q, l \in DOMAIN q : k < l /\ q[k] = r[i] /\ q[l] = r[j]
    BY <1>3
  <2> QED BY <1>6, <2>1 DEF Sorted
<1> QED BY <1>3, <1>4, <1>5, <1>6 DEF rest

(* r is q with t inserted at m *)
Inserted(r, q, m, t) ==
  /\ r \in Seq(Tasks) /\ Len(r) = Len(q) + 1
  /\ \A k \in 1 .. Len(q) + 1 : /\ k < m => r[k] = q[k]
                                /\ k = m => r[k] = t
                                /\ k > m => r[k] = q[k - 1]

(* The priorities in q are at least p before m, and lower from there *)
Parted(q, m, p) == \A k \in 1 .. Len(q) : IF k < m THEN prio[q[k]] >= p ELSE p > prio[q[k]]

LEMMA InsertList ==
  ASSUME NEW q \in Seq(Tasks), NEW m \in 1 .. Len(q), NEW t \in Tasks
  PROVE  Inserted(InsertAt(q, m, t), q, m, t)
<1>1. InsertAt(q, m, t) \in Seq(Tasks) /\ Len(InsertAt(q, m, t)) = Len(q) + 1
  BY DEF InsertAt
<1>2. \A k \in 1 .. Len(q) + 1 : /\ k < m => InsertAt(q, m, t)[k] = q[k]
                                 /\ k = m => InsertAt(q, m, t)[k] = t
                                 /\ k > m => InsertAt(q, m, t)[k] = q[k - 1]
  BY DEF InsertAt
<1> QED BY <1>1, <1>2 DEF Inserted

(* Where sched_addprioritized() puts a task *)
LEMMA AddPlace ==
  ASSUME NEW q \in Seq(Tasks), prio \in [Tasks -> Nat], Sorted(q, prio),
         NEW t \in Tasks, NEW p \in Nat
  PROVE  \E m \in 1 .. Len(q) + 1 :
           Inserted(AddPrioritized(q, t, p), q, m, t) /\ Parted(q, m, p)
<1> DEFINE later == {i \in DOMAIN q : p > prio[q[i]]}
<1>0. later \in SUBSET Nat /\ later \subseteq 1 .. Len(q) /\ \A i \in 1 .. Len(q) : prio[q[i]] \in Nat
  OBVIOUS
<1>1. CASE later = {}
  <2>1. AddPrioritized(q, t, p) = Append(q, t)
    BY <1>1 DEF AddPrioritized
  <2>2. \A k \in 1 .. Len(q) : prio[q[k]] >= p
    BY <1>0, <1>1
  <2> DEFINE n == Len(q) + 1
  <2>3. n \in 1 .. Len(q) + 1 /\ Inserted(Append(q, t), q, n, t) /\ Parted(q, n, p)
    BY <2>2 DEF Inserted, Parted
  <2> QED BY <2>1, <2>3
<1>2. CASE later # {}
  <2>1. AddPrioritized(q, t, p) = InsertAt(q, Min(later), t)
    BY <1>2 DEF AddPrioritized
  <2>2. PICK m \in later : m = Min(later) /\ \A i \in later : m <= i
    <3> HIDE DEF later
    <3> QED BY <1>0, <1>2, MinOfSet
  <2>3. m \in 1 .. Len(q)
    BY <1>0, <2>2
  <2>4. Inserted(InsertAt(q, m, t), q, m, t)
    BY <2>3, InsertList
  <2>6. Parted(q, m, p)
    <3> SUFFICES ASSUME NEW k \in 1 .. Len(q)
                 PROVE  IF k < m THEN prio[q[k]] >= p ELSE p > prio[q[k]]
      BY DEF Parted
    <3>1. CASE k < m
      <4>1. k \notin later
        <5> HIDE DEF later
        <5> QED BY <1>0, <2>2, <2>3, <3>1
      <4> QED BY <1>0, <2>3, <3>1, <4>1
    <3>2. CASE k = m
      BY <2>2, <3>2
    <3>3. CASE k > m
      <4>1. prio[q[m]] >= prio[q[k]]
        BY <2>3, <3>3 DEF Sorted
      <4>2. p > prio[q[m]] /\ prio[q[m]] \in Nat /\ prio[q[k]] \in Nat
        BY <1>0, <2>2, <2>3
      <4>3. p > prio[q[k]]
        BY <4>1, <4>2
      <4> QED BY <2>3, <3>3, <4>3
    <3> QED BY <2>3, <3>1, <3>2, <3>3
  <2>7. m \in 1 .. Len(q) + 1
    BY <2>3
  <2> HIDE DEF later
  <2>8. AddPrioritized(q, t, p) = InsertAt(q, m, t)
    BY <2>1, <2>2
  <2> QED BY <2>4, <2>6, <2>7, <2>8, Zenon
<1> QED BY <1>1, <1>2

(* It adds the task and keeps the list sorted, by a priority that the task *)
(* may only get with this very step                                        *)
LEMMA AddList ==
  ASSUME NEW q \in Seq(Tasks), prio \in [Tasks -> Nat], Distinct(q), Sorted(q, prio),
         NEW t \in Tasks, t \notin ToSet(q), NEW p \in Nat
  PROVE  /\ AddPrioritized(q, t, p) \in Seq(Tasks)
         /\ ToSet(AddPrioritized(q, t, p)) = ToSet(q) \cup {t}
         /\ Distinct(AddPrioritized(q, t, p))
         /\ Sorted(AddPrioritized(q, t, p), [prio EXCEPT ![t] = p])
<1> DEFINE r == AddPrioritized(q, t, p)
<1>0. PICK m \in 1 .. Len(q) + 1 : Inserted(r, q, m, t) /\ Parted(q, m, p)
  BY AddPlace
<1> HIDE DEF r
<1>1. /\ r \in Seq(Tasks) /\ Len(r) = Len(q) + 1
      /\ \A k \in 1 .. Len(q) + 1 : /\ k < m => r[k] = q[k]
                                    /\ k = m => r[k] = t
                                    /\ k > m => r[k] = q[k - 1]
      /\ \A k \in 1 .. Len(q) : IF k < m THEN prio[q[k]] >= p ELSE p > prio[q[k]]
  BY <1>0 DEF Inserted, Parted
<1>2. \A k \in 1 .. Len(q) : q[k] # t /\ q[k] \in Tasks /\ prio[q[k]] \in Nat
  BY DEF ToSet
<1>3. ToSet(r) = ToSet(q) \cup {t}
  <2>1. ToSet(r) \subseteq ToSet(q) \cup {t}
    <3> SUFFICES ASSUME NEW k \in 1 .. Len(q) + 1 PROVE r[k] \in ToSet(q) \cup {t}
      BY <1>1 DEF ToSet
    <3>1. CASE k < m
      <4>1. r[k] = q[k] /\ k \in DOMAIN q
        BY <1>1, <3>1
      <4> QED BY <4>1 DEF ToSet
    <3>2. CASE k = m
      BY <1>1, <3>2
    <3>3. CASE k > m
      <4>1. PICK h \in 1 .. Len(q) : h = k - 1
        BY <1>1, <3>3
      <4>2. r[k] = q[h]
        BY <1>1, <3>3, <4>1
      <4>3. h \in DOMAIN q
        OBVIOUS
      <4> QED BY <4>2, <4>3 DEF ToSet
    <3> QED BY <1>1, <3>1, <3>2, <3>3
  <2>2. ToSet(q) \subseteq ToSet(r)
    <3> SUFFICES ASSUME NEW k \in 1 .. Len(q) PROVE q[k] \in ToSet(r)
      BY DEF ToSet
    <3>1. CASE k < m
      <4>1. r[k] = q[k] /\ k \in DOMAIN r
        BY <1>1, <3>1
      <4> QED BY <4>1 DEF ToSet
    <3>2. CASE k >= m
      <4>0. k + 1 \in 1 .. Len(q) + 1 /\ k + 1 > m /\ (k + 1) - 1 = k
        BY <3>2
      <4>1. PICK h \in 1 .. Len(q) + 1 : h = k + 1
        BY <4>0
      <4>2. h > m /\ h - 1 = k
        BY <4>0, <4>1
      <4>3. h \in DOMAIN r
        BY <1>1
      <4>4. r[h] = q[k]
        BY <1>1, <4>2
      <4> QED BY <4>3, <4>4 DEF ToSet
    <3> QED BY <1>1, <3>1, <3>2
  <2>3. t \in ToSet(r)
    <3>1. r[m] = t /\ m \in DOMAIN r
      BY <1>1
    <3> QED BY <3>1 DEF ToSet
  <2> QED BY <2>1, <2>2, <2>3
<1>4. Distinct(r) /\ Sorted(r, [prio EXCEPT ![t] = p])
  <2> DEFINE f == [prio EXCEPT ![t] = p]
  <2>1. f[t] = p /\ \A k \in 1 .. Len(q) : f[q[k]] = prio[q[k]]
    BY <1>2
  <2> HIDE DEF f
  <2> SUFFICES ASSUME NEW i \in 1 .. Len(q) + 1, NEW j \in 1 .. Len(q) + 1, i < j
               PROVE  r[i] # r[j] /\ f[r[i]] >= f[r[j]]
    <3>1. DOMAIN r = 1 .. Len(q) + 1
      BY <1>1
    <3>2. Distinct(r)
      <4> SUFFICES ASSUME NEW i \in DOMAIN r, NEW j \in DOMAIN r, r[i] = r[j], i # j
                   PROVE  FALSE
        BY DEF Distinct
      <4> QED BY <3>1
    <3> QED BY <3>1, <3>2 DEF Sorted, f
  <2>2. CASE j < m
    <3>0. i < m /\ i \in 1 .. Len(q) /\ j \in 1 .. Len(q)
      BY <1>1, <2>2
    <3>1. r[i] = q[i]
      BY <1>1, <3>0
    <3>2. r[j] = q[j]
      BY <1>1, <2>2
    <3>3. i \in DOMAIN q /\ j \in DOMAIN q /\ i # j
      BY <3>0
    <3> QED BY <2>1, <3>0, <3>1, <3>2, <3>3 DEF Distinct, Sorted
  <2>3. CASE j = m
    <3>1. r[i] = q[i] /\ r[j] = t /\ i \in 1 .. Len(q) /\ prio[q[i]] >= p
      BY <1>1, <2>3
    <3> QED BY <1>2, <2>1, <3>1
  <2>4. CASE i < m /\ j > m
    <3>0. i \in 1 .. Len(q) /\ j - 1 \in 1 .. Len(q) /\ i < j - 1
      BY <2>4
    <3>1. r[i] = q[i] /\ r[j] = q[j - 1]
      BY <1>1, <2>4
    <3>2. q[i] # q[j - 1] /\ prio[q[i]] >= prio[q[j - 1]]
      <4>1. PICK k \in 1 .. Len(q) : k = j - 1
        BY <3>0
      <4>2. i < k /\ i # k /\ i \in DOMAIN q /\ k \in DOMAIN q
        BY <3>0, <4>1
      <4>3. q[i] # q[k] /\ prio[q[i]] >= prio[q[k]]
        BY <4>2 DEF Distinct, Sorted
      <4> QED BY <4>1, <4>3
    <3> QED BY <2>1, <3>0, <3>1, <3>2
  <2>5. CASE i = m
    <3>1. r[i] = t /\ r[j] = q[j - 1] /\ j - 1 \in 1 .. Len(q) /\ p > prio[q[j - 1]]
      BY <1>1, <2>5
    <3> QED BY <1>2, <2>1, <3>1
  <2>6. CASE i > m
    <3>0. i - 1 \in 1 .. Len(q) /\ j - 1 \in 1 .. Len(q) /\ i - 1 < j - 1 /\ j > m
      BY <2>6
    <3>1. r[i] = q[i - 1]
      BY <1>1, <2>6
    <3>2. r[j] = q[j - 1]
      BY <1>1, <3>0
    <3>3. \A k, l \in 1 .. Len(q) : k < l => q[k] # q[l]
      BY DEF Distinct
    <3>4. prio[q[i - 1]] >= prio[q[j - 1]]
      <4>1. PICK k \in DOMAIN q, l \in DOMAIN q : k = i - 1 /\ l = j - 1
        BY <3>0
      <4>2. prio[q[k]] >= prio[q[l]]
        BY <3>0, <4>1 DEF Sorted
      <4> QED BY <4>1, <4>2
    <3> QED BY <2>1, <3>0, <3>1, <3>2, <3>3, <3>4
  <2> QED BY <1>1, <2>2, <2>3, <2>4, <2>5, <2>6
<1> QED BY <1>1, <1>3, <1>4 DEF r

-----------------------------------------------------------------------------
RealCalls ==
  [kind : {"wait", "timed", "tick"}, sem : Sems, stage : {"begin", "block", "delete"},
   ret : Results]

(* The types without the range of the counters, which the deletion of a    *)
(* waiting task leaves                                                     *)
Types ==
  /\ semcount \in [Sems -> Int]
  /\ state \in [Tasks -> {"READY", "WAIT_SEM", "INVALID", "GONE"}]
  /\ waitsem \in [Tasks -> Sems \cup {NoSem}]
  /\ pterrno \in [Tasks -> {"errno", "OK", "EINTR", "ETIMEDOUT"}]
  /\ waitdog \in [Tasks -> {"NULL", "idle", "active"}]
  /\ prio \in [Tasks -> Prios]
  /\ waiting \in Seq(Tasks)
  /\ call \in [Tasks -> {NoCall} \cup RealCalls]

Blocked == {t \in Tasks : state[t] = "WAIT_SEM"}

(* g_waitingforsemaphore *)
ListInv ==
  /\ ToSet(waiting) = Blocked
  /\ Distinct(waiting)
  /\ Sorted(waiting, prio)

(* A task, its call and its watchdog: a blocked task is in the blocking    *)
(* stage of a call and waits for some semaphore, a task that is not there  *)
(* is in no call, and only a timed call has a watchdog, which its first    *)
(* stage has not started                                                   *)
CallInvOf(t) ==
  /\ state[t] = "WAIT_SEM" => /\ waitsem[t] \in Sems /\ pterrno[t] = "OK"
                              /\ call[t] \in RealCalls /\ call[t].stage = "block"
  /\ state[t] \in {"INVALID", "GONE"} => call[t] = NoCall
  /\ call[t] = NoCall => waitdog[t] = "NULL" \/ state[t] = "INVALID"
  /\ call[t] # NoCall =>
       /\ call[t].kind = "wait" => call[t].stage = "block" /\ waitdog[t] = "NULL"
       /\ call[t].stage = "begin" => waitdog[t] = "idle" /\ call[t].ret = "none"
       /\ call[t].stage = "block" => /\ pterrno[t] # "errno"
                                     /\ pterrno[t] = "ETIMEDOUT" => call[t].kind # "wait"
       /\ call[t].stage = "delete" => call[t].ret # "none"

CallInv == \A t \in Tasks : CallInvOf(t)

Inv1 == Types /\ ListInv /\ CallInv

(* The counters, as long as no waiting task is deleted *)
CountInv ==
  \A s \in Sems :
    /\ semcount[s] <= MaxCount
    /\ Cardinality(WaitersOf(s)) = IF semcount[s] < 0 THEN -semcount[s] ELSE 0

Inv == Inv1 /\ CountInv

LEMMA CallTypes ==
  /\ Calls = {NoCall} \cup RealCalls
  /\ \A c \in RealCalls : c # NoCall /\ c.kind # "none"
BY DEF Calls, RealCalls, NoCall

LEMMA PrioNat == Types => prio \in [Tasks -> Nat]
BY SemAssumption DEF Types

LEMMA Inv1Init == Init => Inv1
<1> SUFFICES ASSUME Init PROVE Inv1
  OBVIOUS
<1>1. Types
  <2>1. semcount \in [Sems -> Int] /\ waiting \in Seq(Tasks)
    BY DEF Init
  <2>2. /\ state \in [Tasks -> {"READY", "WAIT_SEM", "INVALID", "GONE"}]
        /\ waitsem \in [Tasks -> Sems \cup {NoSem}]
        /\ pterrno \in [Tasks -> {"errno", "OK", "EINTR", "ETIMEDOUT"}]
        /\ waitdog \in [Tasks -> {"NULL", "idle", "active"}]
        /\ prio \in [Tasks -> Prios]
        /\ call \in [Tasks -> {NoCall} \cup RealCalls]
    BY DEF Init
  <2> QED BY <2>1, <2>2 DEF Types
<1>2. ListInv
  <2>1. waiting = <<>> /\ Blocked = {}
    BY DEF Init, Blocked
  <2> QED BY <2>1 DEF ListInv, ToSet, Distinct, Sorted
<1>3. CallInv
  BY DEF Init, CallInv, CallInvOf
<1> QED BY <1>1, <1>2, <1>3 DEF Inv1

(* A step that changes the entries of one task *)
LEMMA OneTask ==
  ASSUME Inv1, NEW t \in Tasks, CallInvOf(t)',
         \A u \in Tasks \ {t} :
           /\ state'[u] = state[u] /\ waitsem'[u] = waitsem[u] /\ pterrno'[u] = pterrno[u]
           /\ waitdog'[u] = waitdog[u] /\ call'[u] = call[u]
  PROVE  CallInv'
<1> SUFFICES ASSUME NEW u \in Tasks, u # t PROVE CallInvOf(u)'
  BY DEF CallInv
<1>1. CallInvOf(u)
  BY DEF Inv1, CallInv
<1> QED BY <1>1 DEF CallInvOf

(* The list when nobody blocks, unblocks or changes priority *)
LEMMA ListStays ==
  ASSUME Inv1, UNCHANGED <<waiting, prio>>, \A t \in Tasks : state'[t] = "WAIT_SEM" <=> state[t] = "WAIT_SEM"
  PROVE  ListInv' /\ Blocked' = Blocked
<1>1. Blocked' = Blocked
  BY DEF Blocked
<1> QED BY <1>1 DEF Inv1, ListInv, Sorted, Distinct, ToSet

(* up_block_task() puts a running task into the list *)
LEMMA BlockList ==
  ASSUME Inv1, NEW t \in Tasks, NEW s \in Sems, state[t] = "READY", Block(t, s)
  PROVE  ListInv' /\ waiting' \in Seq(Tasks) /\ Blocked' = Blocked \cup {t}
<1>1. t \notin ToSet(waiting) /\ prio[t] \in Nat /\ prio \in [Tasks -> Nat]
  BY PrioNat DEF Inv1, ListInv, Blocked
<1>2. Blocked' = Blocked \cup {t}
  BY DEF Blocked, Block, Inv1, Types
<1>3. [prio EXCEPT ![t] = prio[t]] = prio /\ prio' = prio
  BY <1>1 DEF Block
<1>4. /\ waiting' \in Seq(Tasks) /\ ToSet(waiting') = ToSet(waiting) \cup {t}
      /\ Distinct(waiting') /\ Sorted(waiting', prio)
  <2>1. waiting \in Seq(Tasks) /\ Distinct(waiting) /\ Sorted(waiting, prio)
    BY DEF Inv1, Types, ListInv
  <2>2. waiting' = AddPrioritized(waiting, t, prio[t])
    BY DEF Block
  <2>3. Sorted(waiting', [prio EXCEPT ![t] = prio[t]])
    BY <1>1, <2>1, <2>2, AddList
  <2>4. waiting' \in Seq(Tasks) /\ ToSet(waiting') = ToSet(waiting) \cup {t} /\ Distinct(waiting')
    BY <1>1, <2>1, <2>2, AddList
  <2> QED BY <1>3, <2>3, <2>4
<1> QED BY <1>2, <1>3, <1>4 DEF Inv1, ListInv

(* up_unblock_task() takes tasks out of it *)
LEMMA UnblockList ==
  ASSUME Inv1, NEW W \in SUBSET Tasks, Unblock(W), UNCHANGED prio
  PROVE  ListInv' /\ waiting' \in Seq(Tasks) /\ Blocked' = Blocked \ W
<1>1. Blocked' = Blocked \ W
  BY DEF Blocked, Unblock
<1>2. /\ waiting' \in Seq(Tasks) /\ ToSet(waiting') = ToSet(waiting) \ W
      /\ Distinct(waiting') /\ Sorted(waiting', prio)
  BY SemAssumption, WithoutList DEF Inv1, Types, ListInv, Unblock
<1> QED BY <1>1, <1>2 DEF Inv1, ListInv

-----------------------------------------------------------------------------
(* What the stages of a call do to its record *)
LEMMA StartEffect ==
  ASSUME Inv1, NEW t \in Tasks, NEW k \in {"wait", "timed", "tick"}, NEW s \in Sems,
         NEW g \in {"begin", "block"}, Start(t, k, s, g)
  PROVE  /\ call' \in [Tasks -> {NoCall} \cup RealCalls]
         /\ call'[t] \in RealCalls /\ call'[t].kind = k /\ call'[t].stage = g
         /\ call'[t].ret = "none" /\ call'[t].sem = s
         /\ \A u \in Tasks \ {t} : call'[u] = call[u]
<1> DEFINE c == [kind |-> k, sem |-> s, stage |-> g, ret |-> "none"]
<1>1. c \in RealCalls /\ c.kind = k /\ c.stage = g /\ c.ret = "none" /\ c.sem = s
  BY DEF RealCalls, Results
<1>2. call' = [call EXCEPT ![t] = c]
  BY DEF Start
<1> HIDE DEF c
<1> QED BY <1>1, <1>2 DEF Inv1, Types

LEMMA FinishEffect ==
  ASSUME Inv1, NEW t \in Tasks, call[t] # NoCall, NEW r \in Results, Finish(t, r)
  PROVE  /\ call' \in [Tasks -> {NoCall} \cup RealCalls]
         /\ call'[t] \in RealCalls /\ call'[t].kind = call[t].kind
         /\ call'[t].stage = "delete" /\ call'[t].ret = r
         /\ \A u \in Tasks \ {t} : call'[u] = call[u]
<1>1. call \in [Tasks -> {NoCall} \cup RealCalls] /\ call[t] \in RealCalls
  BY DEF Inv1, Types
<1>2. call' = [call EXCEPT ![t] = [call[t] EXCEPT !.stage = "delete", !.ret = r]]
  BY <1>1 DEF Finish
<1> DEFINE c == [call[t] EXCEPT !.stage = "delete", !.ret = r]
<1>3. c \in RealCalls /\ c.kind = call[t].kind /\ c.stage = "delete" /\ c.ret = r
  BY <1>1 DEF RealCalls
<1> HIDE DEF c
<1>4. call' = [call EXCEPT ![t] = c]
  BY <1>2 DEF c
<1> QED BY <1>1, <1>3, <1>4

LEMMA ToBlockEffect ==
  ASSUME Inv1, NEW t \in Tasks, call[t] # NoCall, call' = [call EXCEPT ![t].stage = "block"]
  PROVE  /\ call' \in [Tasks -> {NoCall} \cup RealCalls]
         /\ call'[t] \in RealCalls /\ call'[t].kind = call[t].kind
         /\ call'[t].stage = "block" /\ call'[t].ret = call[t].ret
         /\ \A u \in Tasks \ {t} : call'[u] = call[u]
<1>1. call \in [Tasks -> {NoCall} \cup RealCalls] /\ call[t] \in RealCalls
  BY DEF Inv1, Types
<1> DEFINE c == [call[t] EXCEPT !.stage = "block"]
<1>2. c \in RealCalls /\ c.kind = call[t].kind /\ c.stage = "block" /\ c.ret = call[t].ret
  BY <1>1 DEF RealCalls
<1>3. call' = [call EXCEPT ![t] = c]
  OBVIOUS
<1> HIDE DEF c
<1> QED BY <1>1, <1>2, <1>3

-----------------------------------------------------------------------------
(* A task takes a count or begins to wait *)
LEMMA WaitStep ==
  ASSUME Inv1, NEW t \in Tasks, NEW s \in Sems, Wait(t, s) \/ TryWait(t, s)
  PROVE  Inv1'
<1>0. state[t] = "READY" /\ call[t] = NoCall /\ waitdog[t] = "NULL"
  BY DEF Wait, TryWait, Idle, Inv1, CallInv, CallInvOf
<1>1. CASE TakeCount(t, s) /\ UNCHANGED <<pterrno, call, waitdog>>
  <2>1. Types'
    BY <1>1 DEF Inv1, Types, TakeCount
  <2>2. ListInv'
    BY <1>1, ListStays DEF TakeCount
  <2>3. CallInv'
    BY <1>0, <1>1, OneTask DEF Inv1, Types, CallInv, CallInvOf, TakeCount
  <2> QED BY <2>1, <2>2, <2>3 DEF Inv1
<1>2. CASE Block(t, s) /\ Start(t, "wait", s, "block") /\ UNCHANGED waitdog
  <2>1. ListInv' /\ waiting' \in Seq(Tasks)
    BY <1>0, <1>2, BlockList
  <2>2. /\ call' \in [Tasks -> {NoCall} \cup RealCalls]
        /\ call'[t] \in RealCalls /\ call'[t].kind = "wait" /\ call'[t].stage = "block"
        /\ \A u \in Tasks \ {t} : call'[u] = call[u]
    BY <1>2, StartEffect
  <2>3. Types'
    <3>1. semcount' \in [Sems -> Int] /\ waitsem' \in [Tasks -> Sems \cup {NoSem}]
      BY <1>2 DEF Inv1, Types, Block
    <3> QED BY <1>2, <2>1, <2>2, <3>1 DEF Inv1, Types, Block
  <2>4. CallInvOf(t)'
    BY <1>0, <1>2, <2>2, CallTypes DEF Inv1, Types, CallInvOf, Block
  <2>5. CallInv'
    BY <1>2, <2>2, <2>4, OneTask DEF Inv1, Types, Block
  <2> QED BY <2>1, <2>3, <2>5 DEF Inv1
<1> QED BY <1>1, <1>2 DEF Wait, TryWait

(* The stages of a timed wait *)
LEMMA TimedBeginStep ==
  ASSUME Inv1, NEW t \in Tasks, NEW s \in Sems, NEW k \in {"timed", "tick"}, TimedBegin(t, s, k)
  PROVE  Inv1'
<1>1. /\ call' \in [Tasks -> {NoCall} \cup RealCalls]
      /\ call'[t] \in RealCalls /\ call'[t].kind = k /\ call'[t].stage = "begin"
      /\ call'[t].ret = "none" /\ \A u \in Tasks \ {t} : call'[u] = call[u]
  BY StartEffect DEF TimedBegin
<1>2. Types'
  BY <1>1 DEF Inv1, Types, TimedBegin
<1>3. ListInv'
  BY ListStays DEF TimedBegin
<1>4. CallInvOf(t)'
  BY <1>1, CallTypes DEF Inv1, Types, CallInvOf, TimedBegin, Idle
<1>5. CallInv'
  BY <1>1, <1>4, OneTask DEF Inv1, Types, TimedBegin
<1> QED BY <1>2, <1>3, <1>5 DEF Inv1

LEMMA TimedEnterStep ==
  ASSUME Inv1, NEW t \in Tasks, TimedEnter(t)
  PROVE  Inv1'
<1> DEFINE c == call[t]
<1>0. /\ state[t] = "READY" /\ c # NoCall /\ c.stage = "begin" /\ c \in RealCalls /\ c.sem \in Sems
      /\ c.kind # "wait" /\ waitdog[t] = "idle"
  BY DEF TimedEnter, Inv1, Types, RealCalls, CallInv, CallInvOf
<1>1. ASSUME NEW r \in {"OK", "refused"}, Finish(t, r), UNCHANGED <<pterrno, waitdog>>,
             TakeCount(t, c.sem) \/ UNCHANGED kernel
      PROVE  Inv1'
  <2>1. /\ call' \in [Tasks -> {NoCall} \cup RealCalls]
        /\ call'[t] \in RealCalls /\ call'[t].kind = call[t].kind
        /\ call'[t].stage = "delete" /\ call'[t].ret = r
        /\ \A u \in Tasks \ {t} : call'[u] = call[u]
    BY <1>0, <1>1, FinishEffect DEF Results
  <2>2. /\ semcount' \in [Sems -> Int] /\ waitsem' \in [Tasks -> Sems \cup {NoSem}]
        /\ UNCHANGED <<state, prio, waiting>>
        /\ \A u \in Tasks \ {t} : waitsem'[u] = waitsem[u]
    BY <1>0, <1>1 DEF Inv1, Types, TakeCount, kernel
  <2>3. Types'
    BY <1>1, <2>1, <2>2 DEF Inv1, Types
  <2>4. ListInv'
    BY <2>2, ListStays
  <2>5. CallInvOf(t)'
    BY <1>0, <1>1, <2>1, <2>2, CallTypes DEF Inv1, Types, CallInvOf
  <2>6. CallInv'
    BY <1>1, <2>1, <2>2, <2>5, OneTask
  <2> QED BY <2>3, <2>4, <2>6 DEF Inv1
<1>2. CASE /\ waitdog' = [waitdog EXCEPT ![t] = "active"] /\ Block(t, c.sem)
           /\ call' = [call EXCEPT ![t].stage = "block"]
  <2>1. ListInv' /\ waiting' \in Seq(Tasks)
    BY <1>0, <1>2, BlockList
  <2>2. /\ call' \in [Tasks -> {NoCall} \cup RealCalls]
        /\ call'[t] \in RealCalls /\ call'[t].kind = call[t].kind /\ call'[t].stage = "block"
        /\ \A u \in Tasks \ {t} : call'[u] = call[u]
    BY <1>0, <1>2, ToBlockEffect
  <2>3. Types'
    BY <1>0, <1>2, <2>1, <2>2 DEF Inv1, Types, Block
  <2>4. CallInvOf(t)'
    BY <1>0, <1>2, <2>2, CallTypes DEF Inv1, Types, CallInvOf, Block
  <2>5. CallInv'
    BY <1>2, <2>2, <2>4, OneTask DEF Inv1, Types, Block
  <2> QED BY <2>1, <2>3, <2>5 DEF Inv1
<1> QED BY <1>0, <1>1, <1>2 DEF TimedEnter, kernel

(* The woken task runs *)
LEMMA ResumeStep ==
  ASSUME Inv1, NEW t \in Tasks, Resume(t)
  PROVE  Inv1'
<1>0. /\ state[t] = "READY" /\ call[t] # NoCall /\ call[t].stage = "block" /\ call[t] \in RealCalls
      /\ pterrno[t] \in {"OK", "EINTR", "ETIMEDOUT"}
      /\ UNCHANGED <<semcount, state, waitsem, prio, waiting>>
      /\ pterrno' = [pterrno EXCEPT ![t] = "errno"]
  BY DEF Resume, Inv1, Types, CallInv, CallInvOf
<1>1. ListInv'
  BY <1>0, ListStays
<1>2. CASE call[t].kind = "wait"
  <2>1. call' = [call EXCEPT ![t] = NoCall] /\ waitdog' = waitdog /\ waitdog[t] = "NULL"
    BY <1>0, <1>2 DEF Resume, Inv1, CallInv, CallInvOf
  <2>2. Types'
    BY <1>0, <2>1 DEF Inv1, Types
  <2>3. CallInvOf(t)'
    BY <1>0, <2>1 DEF Inv1, Types, CallInvOf
  <2>4. CallInv'
    BY <1>0, <2>1, <2>3, OneTask DEF Inv1, Types
  <2> QED BY <1>1, <2>2, <2>4 DEF Inv1
<1>3. CASE call[t].kind # "wait"
  <2>1. /\ call' \in [Tasks -> {NoCall} \cup RealCalls]
        /\ call'[t] \in RealCalls /\ call'[t].kind = call[t].kind
        /\ call'[t].stage = "delete" /\ call'[t].ret = pterrno[t]
        /\ \A u \in Tasks \ {t} : call'[u] = call[u]
    <3>1. Finish(t, pterrno[t]) /\ pterrno[t] \in Results
      BY <1>0, <1>3 DEF Resume, Results
    <3> QED BY <1>0, <3>1, FinishEffect
  <2>2. waitdog' = [waitdog EXCEPT ![t] = "idle"] \/ waitdog' = waitdog
    BY <1>3 DEF Resume
  <2>3. Types'
    BY <1>0, <2>1, <2>2 DEF Inv1, Types
  <2>4. CallInvOf(t)'
    BY <1>0, <1>3, <2>1, CallTypes DEF Inv1, Types, CallInvOf
  <2>5. CallInv'
    BY <1>0, <2>1, <2>2, <2>4, OneTask DEF Inv1, Types
  <2> QED BY <1>1, <2>3, <2>5 DEF Inv1
<1> QED BY <1>2, <1>3

LEMMA TimedReturnStep ==
  ASSUME Inv1, NEW t \in Tasks, TimedReturn(t)
  PROVE  Inv1'
<1>1. ListInv'
  BY ListStays DEF TimedReturn
<1>2. Types'
  BY DEF Inv1, Types, TimedReturn
<1>3. CallInvOf(t)'
  BY DEF Inv1, Types, CallInvOf, TimedReturn
<1>4. CallInv'
  BY <1>3, OneTask DEF Inv1, Types, TimedReturn
<1> QED BY <1>1, <1>2, <1>4 DEF Inv1

(* Tasks are woken: what they find in their calls is as good as before *)
LEMMA UnblockStep ==
  ASSUME Inv1, NEW W \in SUBSET Blocked, Unblock(W), semcount' \in [Sems -> Int],
         UNCHANGED <<pterrno, waitdog, prio, call>>
  PROVE  Inv1'
<1>0. W \in SUBSET Tasks
  BY DEF Blocked
<1>1. ListInv' /\ waiting' \in Seq(Tasks)
  BY <1>0, UnblockList
<1>2. Types'
  BY <1>1 DEF Inv1, Types, Unblock
<1>3. ASSUME NEW t \in Tasks PROVE CallInvOf(t)'
  <2>1. CallInvOf(t)
    BY DEF Inv1, CallInv
  <2>2. CASE t \in W
    <3>1. state[t] = "WAIT_SEM" /\ state'[t] = "READY"
      BY <2>2 DEF Blocked, Unblock
    <3> QED BY <2>1, <3>1, CallTypes DEF CallInvOf
  <2>3. CASE t \notin W
    <3>1. state'[t] = state[t] /\ waitsem'[t] = waitsem[t]
      BY <2>3 DEF Unblock
    <3> QED BY <2>1, <3>1 DEF CallInvOf
  <2> QED BY <2>2, <2>3
<1> QED BY <1>1, <1>2, <1>3 DEF Inv1, CallInv

(* The tasks in the list that wait for s are those that wait for it *)
LEMMA WaitingForIs ==
  ASSUME Inv1, NEW s \in Sems
  PROVE  WaitingFor(s) = WaitersOf(s) /\ WaitingFor(s) \subseteq Blocked
BY DEF Inv1, ListInv, WaitingFor, WaitersOf, Blocked

LEMMA PostStep ==
  ASSUME Inv1, NEW s \in Sems, Post(s)
  PROVE  Inv1'
<1>1. semcount' \in [Sems -> Int]
  BY DEF Inv1, Types, Post
<1>2. ASSUME NEW W \in FirstWaiting(s, 1), Unblock(W) PROVE Inv1'
  <2>1. W \in SUBSET Blocked
    BY <1>2, WaitingForIs DEF FirstWaiting
  <2> QED BY <1>1, <1>2, <2>1, UnblockStep DEF Post
<1>3. CASE UNCHANGED <<waiting, state, waitsem>>
  BY <1>1, <1>3, ListStays DEF Inv1, Types, CallInv, CallInvOf, Post
<1> QED BY <1>2, <1>3 DEF Post

LEMMA ResetStep ==
  ASSUME Inv1, NEW s \in Sems, NEW count \in Counts, Reset(s, count)
  PROVE  Inv1'
<1> DEFINE n == IF semcount[s] < 0 THEN Min({count, -semcount[s]}) ELSE 0
           k == Min({n, Cardinality(WaitingFor(s))})
<1>1. n \in Nat
  <2>1. count \in Nat /\ semcount[s] \in Int
    BY SemAssumption DEF Inv1, Types, Counts
  <2>2. CASE semcount[s] < 0
    <3>1. -semcount[s] \in Nat
      BY <2>1, <2>2
    <3>2. Min({count, -semcount[s]}) \in Nat
      BY <2>1, <3>1, MinOfTwo
    <3> QED BY <2>2, <3>2
  <2> QED BY <2>1, <2>2
<1>2. semcount' \in [Sems -> Int]
  <2>1. semcount' = [semcount EXCEPT ![s] = IF @ + n >= 0 THEN count - n ELSE @ + n]
    BY DEF Reset
  <2> HIDE DEF n
  <2> QED BY <1>1, <2>1 DEF Inv1, Types, Counts
<1>3. PICK W \in FirstWaiting(s, k) : Unblock(W)
  BY DEF Reset
<1>4. W \in SUBSET Blocked
  BY <1>3, WaitingForIs DEF FirstWaiting
<1> QED BY <1>2, <1>3, <1>4, UnblockStep DEF Reset

(* A timeout or a signal ends a wait *)
LEMMA WaitIrqStep ==
  ASSUME Inv1, NEW t \in Tasks, NEW e \in {"EINTR", "ETIMEDOUT"}, WaitIrq(t, e),
         e = "ETIMEDOUT" => waitdog[t] = "active",
         waitdog' = IF e = "EINTR" THEN waitdog ELSE [waitdog EXCEPT ![t] = "idle"],
         state[t] = "WAIT_SEM" \/ waitdog[t] = "active",
         UNCHANGED <<prio, call>>
  PROVE  Inv1'
<1>0. CallInvOf(t)
  BY DEF Inv1, CallInv
<1>1. CASE state[t] = "WAIT_SEM"
  <2>1. /\ waitsem[t] \in Sems /\ call[t] \in RealCalls /\ call[t].stage = "block"
        /\ Unblock({t}) /\ semcount' = [semcount EXCEPT ![waitsem[t]] = @ + 1]
        /\ pterrno' = [pterrno EXCEPT ![t] = e]
    BY <1>0, <1>1 DEF CallInvOf, WaitIrq
  <2>2. ListInv' /\ waiting' \in Seq(Tasks)
    BY <2>1, UnblockList
  <2>3. semcount' \in [Sems -> Int]
    BY <2>1 DEF Inv1, Types
  <2>4. Types'
    BY <2>1, <2>2, <2>3 DEF Inv1, Types, Unblock
  <2>5. CallInvOf(t)'
    <3>1. /\ state'[t] = "READY" /\ pterrno'[t] = e /\ call'[t] = call[t] /\ call[t] # NoCall
          /\ waitdog[t] = "NULL" => waitdog'[t] = "NULL" /\ e = "EINTR"
      <4>1. state'[t] = "READY" /\ call'[t] = call[t] /\ call[t] # NoCall
        BY <2>1, CallTypes DEF Unblock
      <4>2. pterrno'[t] = e
        BY <2>1 DEF Inv1, Types
      <4>3. waitdog[t] = "NULL" => waitdog'[t] = "NULL" /\ e = "EINTR"
        <5>1. CASE e = "ETIMEDOUT"
          BY <5>1
        <5>2. CASE e = "EINTR" /\ waitdog' = waitdog
          BY <5>2
        <5> QED BY <5>1, <5>2
      <4> QED BY <4>1, <4>2, <4>3
    <3> QED BY <1>0, <2>1, <3>1 DEF CallInvOf
  <2>6. CallInv'
    BY <2>1, <2>5, OneTask DEF Inv1, Types, Unblock
  <2> QED BY <2>2, <2>4, <2>6 DEF Inv1
<1>2. CASE state[t] # "WAIT_SEM"
  <2>1. UNCHANGED <<semcount, pterrno, waiting, state, waitsem>> /\ waitdog[t] = "active"
    BY <1>2 DEF WaitIrq
  <2>2. ListInv'
    BY <2>1, ListStays
  <2>3. Types'
    BY <2>1 DEF Inv1, Types
  <2>4. CallInvOf(t)'
    BY <1>0, <2>1 DEF Inv1, Types, CallInvOf
  <2>5. CallInv'
    BY <2>1, <2>4, OneTask DEF Inv1, Types
  <2> QED BY <2>2, <2>3, <2>5 DEF Inv1
<1> QED BY <1>1, <1>2

(* A task that waits finds its new place in the list *)
LEMMA SetPriorityStep ==
  ASSUME Inv1, NEW t \in Tasks, NEW p \in Prios, SetPriority(t, p)
  PROVE  Inv1'
<1>0. /\ p \in Nat /\ prio \in [Tasks -> Nat] /\ prio' = [prio EXCEPT ![t] = p]
      /\ UNCHANGED <<semcount, state, waitsem, pterrno, waitdog, call>>
  BY PrioNat, SemAssumption DEF Inv1, SetPriority
<1>1. CallInv'
  BY <1>0 DEF Inv1, CallInv, CallInvOf
<1>2. Blocked' = Blocked
  BY <1>0 DEF Blocked
<1>3. CASE state[t] = "WAIT_SEM"
  <2>1. PICK q \in Without(waiting, {t}) : waiting' = AddPrioritized(q, t, p)
    BY <1>3 DEF SetPriority
  <2>2. /\ q \in Seq(Tasks) /\ ToSet(q) = ToSet(waiting) \ {t} /\ Distinct(q)
        /\ Sorted(q, prio)
    BY <2>1, SemAssumption, WithoutList DEF Inv1, Types, ListInv
  <2>3. /\ waiting' \in Seq(Tasks) /\ ToSet(waiting') = ToSet(q) \cup {t}
        /\ Distinct(waiting')
    BY <1>0, <2>1, <2>2, AddList
  <2>4. Sorted(waiting', prio')
    BY <1>0, <2>1, <2>2, AddList
  <2>5. t \in ToSet(waiting)
    BY <1>3 DEF Inv1, ListInv, Blocked
  <2>6. ListInv'
    BY <1>2, <2>2, <2>3, <2>4, <2>5 DEF Inv1, ListInv
  <2> QED BY <1>0, <1>1, <2>3, <2>6 DEF Inv1, Types
<1>4. CASE state[t] # "WAIT_SEM"
  <2>1. waiting' = waiting /\ t \notin ToSet(waiting)
    BY <1>4 DEF SetPriority, Inv1, ListInv, Blocked
  <2>2. \A i \in DOMAIN waiting : prio'[waiting[i]] = prio[waiting[i]]
    BY <1>0, <2>1 DEF ToSet, Inv1, Types
  <2>3. ListInv'
    BY <1>2, <2>1, <2>2 DEF Inv1, ListInv, Sorted
  <2> QED BY <1>0, <1>1, <2>1, <2>3 DEF Inv1, Types
<1> QED BY <1>3, <1>4

(* A task that leaves the list it may be in *)
LEMMA LeaveList ==
  ASSUME Inv1, NEW t \in Tasks, waiting' \in Without(waiting, {t}), prio' \in [Tasks -> Prios],
         \A u \in Tasks \ {t} : prio'[u] = prio[u] /\ state'[u] = state[u],
         state'[t] # "WAIT_SEM"
  PROVE  ListInv' /\ waiting' \in Seq(Tasks) /\ Blocked' = Blocked \ {t}
<1>1. Blocked' = Blocked \ {t}
  BY DEF Blocked
<1>2. /\ waiting' \in Seq(Tasks) /\ ToSet(waiting') = ToSet(waiting) \ {t}
      /\ Distinct(waiting') /\ Sorted(waiting', prio)
  BY SemAssumption, WithoutList DEF Inv1, Types, ListInv
<1>3. \A i \in DOMAIN waiting' : prio'[waiting'[i]] = prio[waiting'[i]]
  <2> SUFFICES ASSUME NEW i \in DOMAIN waiting' PROVE prio'[waiting'[i]] = prio[waiting'[i]]
    OBVIOUS
  <2>1. waiting'[i] \in Tasks /\ waiting'[i] \in ToSet(waiting')
    BY <1>2 DEF ToSet
  <2> QED BY <1>2, <2>1
<1>4. Sorted(waiting', prio')
  BY <1>2, <1>3 DEF Sorted
<1> QED BY <1>1, <1>2, <1>4 DEF Inv1, ListInv

(* nxsem_recover() of a task that waits has a semaphore to give to *)
LEMMA RecoverTypes ==
  ASSUME Inv1, NEW t \in Tasks, Recover(t)
  PROVE  /\ semcount' \in [Sems -> Int] /\ waitsem' \in [Tasks -> Sems \cup {NoSem}]
         /\ \A u \in Tasks \ {t} : waitsem'[u] = waitsem[u]
<1>1. state[t] = "WAIT_SEM" => waitsem[t] \in Sems
  BY DEF Inv1, CallInv, CallInvOf
<1>2. CASE state[t] = "WAIT_SEM"
  <2>1. /\ semcount' = [semcount EXCEPT ![waitsem[t]] = @ + 1]
        /\ waitsem' = [waitsem EXCEPT ![t] = NoSem]
    BY <1>2 DEF Recover
  <2>2. semcount' \in [Sems -> Int]
    BY <1>1, <1>2, <2>1 DEF Inv1, Types
  <2>3. waitsem' \in [Tasks -> Sems \cup {NoSem}]
    BY <2>1 DEF Inv1, Types
  <2>4. \A u \in Tasks \ {t} : waitsem'[u] = waitsem[u]
    BY <2>1 DEF Inv1, Types
  <2> QED BY <2>2, <2>3, <2>4
<1>3. CASE state[t] # "WAIT_SEM"
  BY <1>3 DEF Inv1, Types, Recover
<1> QED BY <1>2, <1>3

LEMMA RestartStep ==
  ASSUME Inv1, NEW t \in Tasks, NEW p \in Prios, Restart(t, p)
  PROVE  Inv1'
<1>1. /\ semcount' \in [Sems -> Int] /\ waitsem' \in [Tasks -> Sems \cup {NoSem}]
      /\ \A u \in Tasks \ {t} : waitsem'[u] = waitsem[u]
  BY RecoverTypes DEF Restart
<1>2. /\ prio' \in [Tasks -> Prios] /\ state'[t] = "READY"
      /\ \A u \in Tasks \ {t} : prio'[u] = prio[u] /\ state'[u] = state[u]
  BY DEF Inv1, Types, Restart
<1>3. ListInv' /\ waiting' \in Seq(Tasks)
  BY <1>2, LeaveList DEF Restart
<1>4. Types'
  BY <1>1, <1>2, <1>3 DEF Inv1, Types, Restart
<1>5. CallInvOf(t)'
  BY DEF Inv1, Types, CallInvOf, Restart
<1>6. CallInv'
  BY <1>1, <1>5, OneTask DEF Inv1, Types, Restart
<1> QED BY <1>3, <1>4, <1>6 DEF Inv1

LEMMA TerminateStep ==
  ASSUME Inv1, NEW t \in Tasks, Terminate(t)
  PROVE  Inv1'
<1>2. /\ prio' \in [Tasks -> Prios] /\ state'[t] = "INVALID"
      /\ \A u \in Tasks \ {t} : prio'[u] = prio[u] /\ state'[u] = state[u]
  BY DEF Inv1, Types, Terminate
<1>3. ListInv' /\ waiting' \in Seq(Tasks)
  BY <1>2, LeaveList DEF Terminate
<1>4. Types'
  BY <1>2, <1>3 DEF Inv1, Types, Terminate
<1>5. CallInvOf(t)'
  BY DEF Inv1, Types, CallInvOf, Terminate
<1>6. CallInv'
  BY <1>5, OneTask DEF Inv1, Types, Terminate
<1> QED BY <1>3, <1>4, <1>6 DEF Inv1

LEMMA ExitHookStep ==
  ASSUME Inv1, NEW t \in Tasks, ExitHook(t)
  PROVE  Inv1'
<1>1. UNCHANGED <<semcount, waitsem>> /\ call[t] = NoCall
  BY DEF ExitHook, Recover, Inv1, CallInv, CallInvOf
<1>2. ListInv'
  BY ListStays DEF ExitHook, Inv1, Types
<1>3. Types'
  BY <1>1 DEF Inv1, Types, ExitHook
<1>4. CallInvOf(t)'
  BY <1>1 DEF Inv1, Types, CallInvOf, ExitHook
<1>5. CallInv'
  BY <1>1, <1>4, OneTask DEF Inv1, Types, ExitHook
<1> QED BY <1>2, <1>3, <1>5 DEF Inv1

LEMMA CreateStep ==
  ASSUME Inv1, NEW t \in Tasks, NEW p \in Prios, Create(t, p)
  PROVE  Inv1'
<1>0. state[t] = "GONE" /\ call[t] = NoCall /\ waitdog[t] = "NULL" /\ t \notin ToSet(waiting)
  BY DEF Create, Inv1, CallInv, CallInvOf, ListInv, Blocked
<1>1. Types'
  BY DEF Inv1, Types, Create
<1>2. ListInv'
  <2>1. Blocked' = Blocked /\ waiting' = waiting
    BY DEF Create, Inv1, Types, Blocked
  <2>2. \A i \in DOMAIN waiting : prio'[waiting[i]] = prio[waiting[i]]
    BY <1>0 DEF ToSet, Create, Inv1, Types
  <2> QED BY <2>1, <2>2 DEF Inv1, ListInv, Sorted
<1>3. CallInvOf(t)'
  BY <1>0 DEF Inv1, Types, CallInvOf, Create
<1>4. CallInv'
  BY <1>3, OneTask DEF Inv1, Types, Create
<1> QED BY <1>1, <1>2, <1>4 DEF Inv1

(* Every step keeps the list, the calls and the watchdogs consistent, the  *)
(* deletion of a waiting task too                                          *)
LEMMA Inv1Step == Inv1 /\ [Next]_vars => Inv1'
<1> SUFFICES ASSUME Inv1, [Next]_vars PROVE Inv1'
  OBVIOUS
<1>1. CASE UNCHANGED vars
  BY <1>1 DEF vars, kernel, Inv1, Types, ListInv, Blocked, Sorted, Distinct, CallInv, CallInvOf
<1>2. ASSUME NEW t \in Tasks, NEW s \in Sems,
             Wait(t, s) \/ TryWait(t, s) \/ \E k \in {"timed", "tick"} : TimedBegin(t, s, k)
      PROVE  Inv1'
  BY <1>2, WaitStep, TimedBeginStep
<1>3. ASSUME NEW t \in Tasks, TimedEnter(t) \/ Resume(t) \/ TimedReturn(t)
      PROVE  Inv1'
  BY <1>3, TimedEnterStep, ResumeStep, TimedReturnStep
<1>4. ASSUME NEW s \in Sems, Post(s) \/ \E c \in Counts : Reset(s, c)
      PROVE  Inv1'
  BY <1>4, PostStep, ResetStep
<1>5. ASSUME NEW t \in Tasks, Timeout(t) \/ Signal(t)
      PROVE  Inv1'
  <2>1. CASE Timeout(t)
    BY <2>1, WaitIrqStep DEF Timeout
  <2>2. CASE Signal(t)
    BY <2>2, WaitIrqStep DEF Signal
  <2> QED BY <1>5, <2>1, <2>2
<1>6. ASSUME NEW t \in Tasks, Terminate(t) \/ ExitHook(t)
      PROVE  Inv1'
  BY <1>6, TerminateStep, ExitHookStep
<1>7. ASSUME NEW t \in Tasks, NEW p \in Prios, SetPriority(t, p) \/ Restart(t, p) \/ Create(t, p)
      PROVE  Inv1'
  BY <1>7, SetPriorityStep, RestartStep, CreateStep
<1> QED BY <1>1, <1>2, <1>3, <1>4, <1>5, <1>6, <1>7 DEF Next

(* No watchdog outlives the timed wait that started it, and no plain wait  *)
(* is ever told that it timed out, even if waiting tasks are deleted       *)
THEOREM Watchdogs == Spec => []NoStaleTimeout
<1>1. Inv1 => NoStaleTimeout
  BY DEF Inv1, Types, CallInv, CallInvOf, NoStaleTimeout
<1> QED BY <1>1, Inv1Init, Inv1Step, PTL DEF Spec

-----------------------------------------------------------------------------
(* The counters *)
LEMMA WaitersFinite ==
  ASSUME NEW s \in Sems
  PROVE  /\ IsFiniteSet(WaitersOf(s)) /\ Cardinality(WaitersOf(s)) \in Nat
         /\ Cardinality(WaitersOf(s)) <= Cardinality(Tasks) /\ Cardinality(Tasks) \in Nat
<1>1. WaitersOf(s) \in SUBSET Tasks
  BY DEF WaitersOf
<1> QED BY <1>1, SemAssumption, FS_Subset, FS_CardinalityType

(* A step that changes the counter and the waiters of one semaphore *)
LEMMA OneCount ==
  ASSUME Inv, NEW s \in Sems, NEW c \in Int, c <= MaxCount,
         semcount' = [semcount EXCEPT ![s] = c],
         Cardinality(WaitersOf(s)') = IF c < 0 THEN -c ELSE 0,
         \A r \in Sems \ {s} : WaitersOf(r)' = WaitersOf(r)
  PROVE  CountInv'
<1> SUFFICES ASSUME NEW r \in Sems
             PROVE  /\ semcount'[r] <= MaxCount
                    /\ Cardinality(WaitersOf(r)') = IF semcount'[r] < 0 THEN -semcount'[r] ELSE 0
  BY DEF CountInv
<1>1. CASE r = s
  <2>1. semcount'[r] = c
    BY <1>1 DEF Inv, Inv1, Types
  <2> QED BY <1>1, <2>1
<1>2. CASE r # s
  <2>1. semcount'[r] = semcount[r] /\ WaitersOf(r)' = WaitersOf(r)
    BY <1>2 DEF Inv, Inv1, Types
  <2> QED BY <2>1 DEF Inv, CountInv
<1> QED BY <1>1, <1>2

(* A step that changes neither *)
LEMMA NoCount ==
  ASSUME Inv, UNCHANGED semcount, \A r \in Sems : WaitersOf(r)' = WaitersOf(r)
  PROVE  CountInv'
BY DEF Inv, CountInv

(* The counter gives a unit away only if there is one *)
LEMMA TakeCountCount ==
  ASSUME Inv, NEW t \in Tasks, NEW s \in Sems, state[t] = "READY", TakeCount(t, s)
  PROVE  CountInv' /\ \A r \in Sems : WaitersOf(r)' = WaitersOf(r)
<1>1. \A r \in Sems : WaitersOf(r)' = WaitersOf(r)
  BY DEF TakeCount, WaitersOf, Inv, Inv1, Types
<1>2. semcount[s] \in Int /\ semcount[s] > 0 /\ semcount[s] <= MaxCount /\ MaxCount \in Nat
  BY SemAssumption DEF TakeCount, Inv, Inv1, Types, CountInv
<1>3. Cardinality(WaitersOf(s)') = 0
  BY <1>1, <1>2 DEF Inv, CountInv
<1>4. CountInv'
  <2> DEFINE c == semcount[s] - 1
  <2>1. c \in Int /\ c <= MaxCount /\ Cardinality(WaitersOf(s)') = IF c < 0 THEN -c ELSE 0
    BY <1>2, <1>3
  <2>2. semcount' = [semcount EXCEPT ![s] = c]
    BY DEF TakeCount
  <2> HIDE DEF c
  <2> QED BY <1>1, <2>1, <2>2, OneCount
<1> QED BY <1>1, <1>4

(* A task that blocks is one more waiter, and one count less *)
LEMMA BlockCount ==
  ASSUME Inv, NEW t \in Tasks, NEW s \in Sems, state[t] = "READY", Block(t, s),
         semcount[s] <= 0
  PROVE  /\ CountInv' /\ WaitersOf(s)' = WaitersOf(s) \cup {t}
         /\ \A r \in Sems \ {s} : WaitersOf(r)' = WaitersOf(r)
<1>1. WaitersOf(s)' = WaitersOf(s) \cup {t} /\ t \notin WaitersOf(s)
  BY DEF Block, WaitersOf, Inv, Inv1, Types
<1>2. \A r \in Sems \ {s} : WaitersOf(r)' = WaitersOf(r)
  BY DEF Block, WaitersOf, Inv, Inv1, Types
<1>3. semcount[s] \in Int /\ MaxCount \in Nat
  BY SemAssumption DEF Inv, Inv1, Types
<1>4. Cardinality(WaitersOf(s)') = Cardinality(WaitersOf(s)) + 1
  BY <1>1, WaitersFinite, FS_AddElement
<1>5. Cardinality(WaitersOf(s)) = -semcount[s]
  BY <1>3 DEF Inv, CountInv
<1>6. CountInv'
  <2> DEFINE c == semcount[s] - 1
  <2>1. c \in Int /\ c <= MaxCount /\ c < 0 /\ Cardinality(WaitersOf(s)') = -c
    BY <1>3, <1>4, <1>5
  <2>2. semcount' = [semcount EXCEPT ![s] = c]
    BY DEF Block
  <2> HIDE DEF c
  <2> QED BY <1>2, <2>1, <2>2, OneCount
<1> QED BY <1>1, <1>2, <1>6

(* A step in which the tasks in W stop waiting for s *)
LEMMA Leave ==
  ASSUME Inv1, NEW s \in Sems, NEW W \in SUBSET WaitersOf(s),
         \A t \in W : state'[t] # "WAIT_SEM",
         \A u \in Tasks \ W : state'[u] = state[u] /\ waitsem'[u] = waitsem[u]
  PROVE  /\ WaitersOf(s)' = WaitersOf(s) \ W
         /\ \A r \in Sems \ {s} : WaitersOf(r)' = WaitersOf(r)
         /\ Cardinality(WaitersOf(s)') = Cardinality(WaitersOf(s)) - Cardinality(W)
         /\ Cardinality(W) \in Nat
<1>1. WaitersOf(s)' = WaitersOf(s) \ W
  BY DEF WaitersOf
<1>2. \A r \in Sems \ {s} : WaitersOf(r)' = WaitersOf(r)
  BY DEF WaitersOf
<1>3. IsFiniteSet(WaitersOf(s))
  BY WaitersFinite
<1> DEFINE S == WaitersOf(s)
<1> HIDE DEF S
<1>4. Cardinality(S \ W) = Cardinality(S) - Cardinality(S \cap W)
  BY <1>3, FS_Difference DEF S
<1>5. S \cap W = W
  BY DEF S
<1>6. IsFiniteSet(W)
  BY <1>3, FS_Subset
<1>7. Cardinality(W) \in Nat
  BY <1>6, FS_CardinalityType
<1> QED BY <1>1, <1>2, <1>4, <1>5, <1>7 DEF S

(* A task that stops waiting gives back the count its wait took *)
LEMMA LeaveCount ==
  ASSUME Inv, NEW t \in Tasks, state[t] = "WAIT_SEM", state'[t] # "WAIT_SEM",
         semcount' = [semcount EXCEPT ![waitsem[t]] = @ + 1],
         \A u \in Tasks \ {t} : state'[u] = state[u] /\ waitsem'[u] = waitsem[u]
  PROVE  /\ CountInv'
         /\ \E s \in Sems :
              /\ s = waitsem[t] /\ semcount[s] < 0 /\ t \in WaitersOf(s)
              /\ WaitersOf(s)' = WaitersOf(s) \ {t}
              /\ \A r \in Sems \ {s} : WaitersOf(r)' = WaitersOf(r)
<1>0. waitsem[t] \in Sems
  BY DEF Inv, Inv1, CallInv, CallInvOf
<1>1. PICK s \in Sems : s = waitsem[t]
  BY <1>0
<1>2. t \in WaitersOf(s) /\ {t} \in SUBSET WaitersOf(s)
  BY <1>1 DEF WaitersOf
<1>3. /\ WaitersOf(s)' = WaitersOf(s) \ {t}
      /\ \A r \in Sems \ {s} : WaitersOf(r)' = WaitersOf(r)
      /\ Cardinality(WaitersOf(s)') = Cardinality(WaitersOf(s)) - Cardinality({t})
  BY <1>2, Leave DEF Inv
<1>4. Cardinality({t}) = 1
  BY FS_Singleton
<1>5. semcount[s] \in Int /\ MaxCount \in Nat
  BY SemAssumption DEF Inv, Inv1, Types
<1>6. Cardinality(WaitersOf(s)) # 0 /\ Cardinality(WaitersOf(s)) \in Nat
  BY <1>2, WaitersFinite, FS_EmptySet
<1>7. semcount[s] < 0 /\ Cardinality(WaitersOf(s)) = -semcount[s]
  BY <1>5, <1>6 DEF Inv, CountInv
<1>8. CountInv'
  <2> DEFINE c == semcount[s] + 1
  <2>1. c \in Int /\ c <= MaxCount /\ Cardinality(WaitersOf(s)') = IF c < 0 THEN -c ELSE 0
    BY <1>3, <1>4, <1>5, <1>7
  <2>2. semcount' = [semcount EXCEPT ![s] = c]
    BY <1>1
  <2> HIDE DEF c
  <2> QED BY <1>3, <2>1, <2>2, OneCount
<1> QED BY <1>1, <1>2, <1>3, <1>7, <1>8

(* The first tasks of the list that wait for s have the highest priorities *)
LEMMA FirstAre ==
  ASSUME Inv1, NEW s \in Sems, NEW n, NEW W \in FirstWaiting(s, n)
  PROVE  /\ W \in SUBSET WaitersOf(s) /\ Cardinality(W) = n
         /\ \A t \in W, u \in WaitersOf(s) \ W : prio[u] <= prio[t]
<1>1. /\ W \in SUBSET WaitersOf(s) /\ Cardinality(W) = n
      /\ \A i, j \in DOMAIN waiting :
           i < j /\ waiting[j] \in W /\ waitsem[waiting[i]] = s => waiting[i] \in W
  BY WaitingForIs DEF FirstWaiting
<1>2. ASSUME NEW t \in W, NEW u \in WaitersOf(s) \ W PROVE prio[u] <= prio[t]
  <2>1. t \in ToSet(waiting) /\ u \in ToSet(waiting) /\ waitsem[u] = s /\ t \in Tasks /\ u \in Tasks
    BY <1>1, <1>2 DEF Inv1, ListInv, WaitersOf, Blocked
  <2>2. PICK i \in DOMAIN waiting, j \in DOMAIN waiting : waiting[i] = t /\ waiting[j] = u
    BY <2>1 DEF ToSet
  <2>3. i \in Nat /\ j \in Nat /\ prio[t] \in Nat /\ prio[u] \in Nat
    BY <2>1, PrioNat DEF Inv1, Types
  <2>4. ~(j < i)
    BY <1>1, <1>2, <2>1, <2>2
  <2>5. i # j
    BY <2>2
  <2>6. prio[waiting[i]] >= prio[waiting[j]]
    BY <2>3, <2>4, <2>5 DEF Inv1, ListInv, Sorted
  <2> QED BY <2>2, <2>3, <2>6
<1> QED BY <1>1, <1>2

(* n of the tasks that wait for s, of the highest priorities, are woken *)
Woken(s, W, n) ==
  /\ W \in SUBSET WaitersOf(s) /\ Cardinality(W) = n
  /\ \A t \in W, u \in WaitersOf(s) \ W : prio[u] <= prio[t]
  /\ state' = [t \in Tasks |-> IF t \in W THEN "READY" ELSE state[t]]
  /\ waitsem' = [t \in Tasks |-> IF t \in W THEN NoSem ELSE waitsem[t]]

LEMMA WokenLeave ==
  ASSUME Inv1, NEW s \in Sems, NEW W, NEW n, Woken(s, W, n)
  PROVE  /\ WaitersOf(s)' = WaitersOf(s) \ W
         /\ \A r \in Sems \ {s} : WaitersOf(r)' = WaitersOf(r)
         /\ Cardinality(WaitersOf(s)') = Cardinality(WaitersOf(s)) - n
         /\ n \in Nat
<1>1. W \in SUBSET WaitersOf(s) /\ Cardinality(W) = n /\ W \in SUBSET Tasks
  BY DEF Woken, WaitersOf
<1>2. \A t \in W : state'[t] # "WAIT_SEM"
  BY <1>1 DEF Woken
<1>3. \A u \in Tasks \ W : state'[u] = state[u] /\ waitsem'[u] = waitsem[u]
  BY DEF Woken
<1> QED BY <1>1, <1>2, <1>3, Leave

LEMMA PostWakes ==
  ASSUME Inv, NEW s \in Sems, Post(s)
  PROVE  \E W : Woken(s, W, IF semcount[s] < 0 THEN 1 ELSE 0)
<1>1. semcount[s] \in Int /\ Inv1
  BY DEF Inv, Inv1, Types
<1>2. WaitingFor(s) = WaitersOf(s)
  BY <1>1, WaitingForIs
<1>3. CASE semcount[s] < 0
  <2>1. Cardinality(WaitersOf(s)) # 0
    BY <1>1, <1>3 DEF Inv, CountInv
  <2>2. WaitingFor(s) # {}
    BY <1>2, <2>1, FS_EmptySet
  <2>3. PICK W \in FirstWaiting(s, 1) : Unblock(W)
    BY <1>1, <1>3, <2>2 DEF Post
  <2>4. Woken(s, W, 1)
    BY <1>1, <2>3, FirstAre DEF Woken, Unblock
  <2> QED BY <1>3, <2>4
<1>4. CASE ~(semcount[s] < 0)
  <2>1. state' = state /\ waitsem' = waitsem
    BY <1>1, <1>4 DEF Post
  <2>2. Cardinality({}) = 0
    BY FS_EmptySet
  <2>3. Woken(s, {}, 0)
    BY <1>1, <2>1, <2>2 DEF Woken, Inv1, Types
  <2> QED BY <1>4, <2>3
<1> QED BY <1>3, <1>4

LEMMA PostCount ==
  ASSUME Inv, NEW s \in Sems, Post(s)
  PROVE  CountInv'
<1> DEFINE n == IF semcount[s] < 0 THEN 1 ELSE 0
           c == semcount[s] + 1
<1>1. semcount[s] \in Int /\ MaxCount \in Nat /\ semcount[s] < MaxCount /\ Inv1
  BY SemAssumption DEF Inv, Inv1, Types, Post
<1>2. PICK W : Woken(s, W, n)
  BY PostWakes
<1>3. /\ \A r \in Sems \ {s} : WaitersOf(r)' = WaitersOf(r)
      /\ Cardinality(WaitersOf(s)') = Cardinality(WaitersOf(s)) - n
  <2> HIDE DEF n
  <2> QED BY <1>1, <1>2, WokenLeave
<1>4. Cardinality(WaitersOf(s)) = IF semcount[s] < 0 THEN -semcount[s] ELSE 0
  BY DEF Inv, CountInv
<1>5. c \in Int /\ c <= MaxCount /\ Cardinality(WaitersOf(s)') = IF c < 0 THEN -c ELSE 0
  BY <1>1, <1>3, <1>4
<1>6. semcount' = [semcount EXCEPT ![s] = c]
  BY DEF Post
<1> HIDE DEF c
<1> QED BY <1>3, <1>5, <1>6, OneCount

(* A reset hands out at most one unit for each waiting task, and leaves    *)
(* the rest or the tasks that got none                                     *)
LEMMA ResetWakes ==
  ASSUME Inv, NEW s \in Sems, NEW count \in Counts, Reset(s, count)
  PROVE  \E w \in Nat :
           /\ w = Cardinality(WaitersOf(s))
           /\ semcount' = [semcount EXCEPT ![s] = count - w]
           /\ \E W : Woken(s, W, IF count <= w THEN count ELSE w)
<1> DEFINE n == IF semcount[s] < 0 THEN Min({count, -semcount[s]}) ELSE 0
           w == Cardinality(WaitersOf(s))
           c == count - w
<1>1. semcount[s] \in Int /\ count \in Nat /\ Inv1
  BY SemAssumption DEF Inv, Inv1, Types, Counts
<1>2. w \in Nat /\ w = IF semcount[s] < 0 THEN -semcount[s] ELSE 0
  BY WaitersFinite DEF Inv, CountInv
<1>3. n = IF count <= w THEN count ELSE w
  <2>1. CASE semcount[s] < 0
    <3>1. -semcount[s] \in Nat
      BY <1>1, <2>1
    <3>2. Min({count, -semcount[s]}) = IF count <= -semcount[s] THEN count ELSE -semcount[s]
      BY <1>1, <3>1, MinOfTwo
    <3> HIDE DEF w
    <3> QED BY <1>2, <2>1, <3>2
  <2>2. CASE ~(semcount[s] < 0)
    <3> HIDE DEF w
    <3> QED BY <1>1, <1>2, <2>2
  <2> QED BY <2>1, <2>2
<1>4. PICK W \in FirstWaiting(s, Min({n, Cardinality(WaitingFor(s))})) : Unblock(W)
  BY DEF Reset
<1>5. semcount' = [semcount EXCEPT ![s] = IF semcount[s] + n >= 0 THEN count - n ELSE semcount[s] + n]
  BY DEF Reset
<1>6. Min({n, Cardinality(WaitingFor(s))}) = n
  <2>1. WaitingFor(s) = WaitersOf(s)
    BY <1>1, WaitingForIs
  <2>2. Min({n, w}) = n
    <3> HIDE DEF n, w
    <3>1. n \in Nat /\ n <= w
      BY <1>1, <1>2, <1>3
    <3> QED BY <1>2, <3>1, MinOfTwo
  <2> QED BY <2>1, <2>2
<1> HIDE DEF n
<1>7. Woken(s, W, n)
  BY <1>1, <1>4, <1>6, FirstAre DEF Woken, Unblock
<1>8. semcount' = [semcount EXCEPT ![s] = c]
  <2> HIDE DEF w
  <2>1. (IF semcount[s] + n >= 0 THEN count - n ELSE semcount[s] + n) = c
    BY <1>1, <1>2, <1>3
  <2> HIDE DEF c
  <2> QED BY <1>5, <2>1
<1> HIDE DEF w
<1>9. \E V : Woken(s, V, IF count <= w THEN count ELSE w)
  BY <1>3, <1>7
<1>10. \E v \in Nat : /\ v = w /\ semcount' = [semcount EXCEPT ![s] = count - v]
                      /\ \E V : Woken(s, V, IF count <= v THEN count ELSE v)
  BY <1>2, <1>8, <1>9, Zenon
<1> QED BY <1>10 DEF w

LEMMA ResetCount ==
  ASSUME Inv, NEW s \in Sems, NEW count \in Counts, Reset(s, count)
  PROVE  CountInv'
<1>1. count \in Nat /\ MaxCount \in Nat /\ count <= MaxCount /\ Inv1
  BY SemAssumption DEF Inv, Counts
<1>2. PICK w \in Nat : /\ w = Cardinality(WaitersOf(s))
                       /\ semcount' = [semcount EXCEPT ![s] = count - w]
                       /\ \E W : Woken(s, W, IF count <= w THEN count ELSE w)
  BY ResetWakes
<1> DEFINE n == IF count <= w THEN count ELSE w
           c == count - w
<1>3. PICK W : Woken(s, W, n)
  BY <1>2
<1>4. /\ \A r \in Sems \ {s} : WaitersOf(r)' = WaitersOf(r)
      /\ Cardinality(WaitersOf(s)') = Cardinality(WaitersOf(s)) - n
  <2> HIDE DEF n
  <2> QED BY <1>1, <1>3, WokenLeave
<1>5. c \in Int /\ c <= MaxCount /\ Cardinality(WaitersOf(s)') = IF c < 0 THEN -c ELSE 0
  <2>1. Cardinality(WaitersOf(s)') = w - n
    BY <1>2, <1>4
  <2> QED BY <1>1, <2>1
<1>6. semcount' = [semcount EXCEPT ![s] = c]
  BY <1>2
<1> HIDE DEF c
<1> QED BY <1>4, <1>5, <1>6, OneCount

-----------------------------------------------------------------------------
(* Every step keeps the counters exact, unless it deletes a waiting task *)
LEMMA InvStep ==
  ASSUME ~DeleteWaiting, Inv, [Next]_vars
  PROVE  Inv'
<1>0. Inv1'
  BY Inv1Step DEF Inv
<1> SUFFICES CountInv'
  BY <1>0 DEF Inv
<1> USE DEF Inv, Inv1, Types
<1>1. CASE UNCHANGED vars
  BY <1>1, NoCount DEF vars, kernel, WaitersOf
<1>2. ASSUME NEW t \in Tasks, NEW s \in Sems, Wait(t, s) PROVE CountInv'
  BY <1>2, TakeCountCount, BlockCount DEF Wait, Idle
<1>3. ASSUME NEW t \in Tasks, NEW s \in Sems, TryWait(t, s) PROVE CountInv'
  BY <1>3, TakeCountCount DEF TryWait, Idle
<1>4. ASSUME NEW t \in Tasks, NEW s \in Sems, NEW k \in {"timed", "tick"}, TimedBegin(t, s, k)
      PROVE  CountInv'
  BY <1>4, NoCount DEF TimedBegin, WaitersOf
<1>5. ASSUME NEW t \in Tasks, TimedEnter(t) PROVE CountInv'
  <2>1. state[t] = "READY" /\ call[t].sem \in Sems
    BY <1>5, CallTypes DEF TimedEnter, RealCalls
  <2>2. CASE TakeCount(t, call[t].sem)
    BY <2>1, <2>2, TakeCountCount
  <2>3. CASE UNCHANGED kernel
    BY <2>3, NoCount DEF kernel, WaitersOf
  <2>4. CASE semcount[call[t].sem] <= 0 /\ Block(t, call[t].sem)
    BY <2>1, <2>4, BlockCount
  <2> QED BY <1>5, <2>2, <2>3, <2>4 DEF TimedEnter
<1>6. ASSUME NEW t \in Tasks, Resume(t) \/ TimedReturn(t) PROVE CountInv'
  <2>1. UNCHANGED <<semcount, state, waitsem>>
    BY <1>6 DEF Resume, TimedReturn
  <2> QED BY <2>1, NoCount DEF WaitersOf
<1>7. ASSUME NEW s \in Sems, Post(s) PROVE CountInv'
  BY <1>7, PostCount
<1>8. ASSUME NEW s \in Sems, NEW c \in Counts, Reset(s, c) PROVE CountInv'
  BY <1>8, ResetCount
<1>9. ASSUME NEW t \in Tasks, NEW e, WaitIrq(t, e) PROVE CountInv'
  <2>1. CASE state[t] = "WAIT_SEM"
    BY <1>9, <2>1, LeaveCount DEF WaitIrq, Unblock
  <2>2. CASE state[t] # "WAIT_SEM"
    BY <1>9, <2>2, NoCount DEF WaitIrq, WaitersOf
  <2> QED BY <2>1, <2>2
<1>10. ASSUME NEW t \in Tasks, Timeout(t) \/ Signal(t) PROVE CountInv'
  BY <1>9, <1>10 DEF Timeout, Signal
<1>11. ASSUME NEW t \in Tasks, Terminate(t) PROVE CountInv'
  BY <1>11, NoCount DEF Terminate, WaitersOf
<1>12. ASSUME NEW t \in Tasks, ExitHook(t) PROVE CountInv'
  BY <1>12, NoCount DEF ExitHook, Recover, WaitersOf
<1>13. ASSUME NEW t \in Tasks, NEW p \in Prios, SetPriority(t, p) PROVE CountInv'
  BY <1>13, NoCount DEF SetPriority, WaitersOf
<1>14. ASSUME NEW t \in Tasks, NEW p \in Prios, Restart(t, p) PROVE CountInv'
  <2>1. CASE state[t] = "WAIT_SEM"
    BY <1>14, <2>1, LeaveCount DEF Restart, Recover
  <2>2. CASE state[t] # "WAIT_SEM"
    BY <1>14, <2>2, NoCount DEF Restart, Recover, WaitersOf
  <2> QED BY <2>1, <2>2
<1>15. ASSUME NEW t \in Tasks, NEW p \in Prios, Create(t, p) PROVE CountInv'
  BY <1>15, NoCount DEF Create, WaitersOf
<1> QED BY <1>1, <1>2, <1>3, <1>4, <1>5, <1>6, <1>7, <1>8, <1>10, <1>11, <1>12, <1>13,
           <1>14, <1>15 DEF Next

LEMMA InvInit == Init => Inv
<1> SUFFICES ASSUME Init PROVE CountInv
  BY Inv1Init DEF Inv
<1> SUFFICES ASSUME NEW s \in Sems
             PROVE  /\ semcount[s] <= MaxCount
                    /\ Cardinality(WaitersOf(s)) = IF semcount[s] < 0 THEN -semcount[s] ELSE 0
  BY DEF CountInv
<1>1. semcount[s] \in {0, 1} /\ WaitersOf(s) = {}
  BY DEF Init, WaitersOf
<1>2. Cardinality(WaitersOf(s)) = 0
  BY <1>1, FS_EmptySet
<1> QED BY <1>1, <1>2, SemAssumption

LEMMA InvAlways ==
  ASSUME ~DeleteWaiting
  PROVE  Spec => []Inv
<1>1. Inv /\ [Next]_vars => Inv'
  BY InvStep
<1> QED BY <1>1, InvInit, PTL DEF Spec

(* A negative counter is minus the number of the tasks that wait, and none *)
(* waits while it is not negative: whichever of post, reset, timeout,      *)
(* signal and restart comes first, as long as no waiting task is deleted   *)
THEOREM Counters ==
  ASSUME ~DeleteWaiting
  PROVE  Spec => []CountIsWaiters
<1>1. Inv => CountIsWaiters
  BY DEF Inv, CountInv, CountIsWaiters
<1> QED BY <1>1, InvAlways, PTL

(* The list of waiting tasks holds each of them once, in the order of      *)
(* their priorities, and the counters stay in range                        *)
THEOREM WaitingList ==
  ASSUME ~DeleteWaiting
  PROVE  Spec => []ListConsistent
<1>1. Inv => ListConsistent
  <2> SUFFICES ASSUME Inv PROVE ListConsistent
    OBVIOUS
  <2>1. semcount \in [Sems -> -Cardinality(Tasks) .. MaxCount]
    <3> SUFFICES ASSUME NEW s \in Sems
                 PROVE  semcount[s] \in -Cardinality(Tasks) .. MaxCount
      BY DEF Inv, Inv1, Types
    <3>1. semcount[s] \in Int /\ MaxCount \in Nat /\ semcount[s] <= MaxCount
      BY SemAssumption DEF Inv, Inv1, Types, CountInv
    <3>2. Cardinality(WaitersOf(s)) = IF semcount[s] < 0 THEN -semcount[s] ELSE 0
      BY DEF Inv, CountInv
    <3>3. Cardinality(WaitersOf(s)) <= Cardinality(Tasks) /\ Cardinality(Tasks) \in Nat
      BY WaitersFinite
    <3> QED BY <3>1, <3>2, <3>3
  <2>2. TypeOK
    BY <2>1, CallTypes DEF Inv, Inv1, Types, TypeOK
  <2>3. IsInjective(waiting)
    BY DEF Inv, Inv1, ListInv, Distinct, IsInjective
  <2> QED BY <2>2, <2>3 DEF Inv, Inv1, ListInv, Blocked, Sorted, ListConsistent
<1> QED BY <1>1, InvAlways, PTL

-----------------------------------------------------------------------------
(* The semaphore its callers see.  What a call has come to, before and     *)
(* after a step                                                            *)
LEMMA OutcomeIs ==
  ASSUME Inv1, NEW t \in Tasks
  PROVE  /\ state[t] = "WAIT_SEM" => Outcome(t) = "waiting"
         /\ state[t] # "WAIT_SEM" /\ call[t] = NoCall => Outcome(t) = "idle"
         /\ state[t] # "WAIT_SEM" /\ call[t] # NoCall =>
              /\ call[t].stage = "begin" => Outcome(t) = "idle"
              /\ call[t].stage = "block" =>
                   Outcome(t) = IF pterrno[t] = "OK" THEN "got" ELSE "gaveup"
              /\ call[t].stage = "delete" =>
                   Outcome(t) = IF call[t].ret = "OK" THEN "got" ELSE "gaveup"
BY DEF Inv1, CallInv, CallInvOf, Types, Outcome

LEMMA OutcomeNext ==
  ASSUME Inv1', NEW t \in Tasks
  PROVE  /\ state'[t] = "WAIT_SEM" => Outcome(t)' = "waiting"
         /\ state'[t] # "WAIT_SEM" /\ call'[t] = NoCall => Outcome(t)' = "idle"
         /\ state'[t] # "WAIT_SEM" /\ call'[t] # NoCall =>
              /\ call'[t].stage = "begin" => Outcome(t)' = "idle"
              /\ call'[t].stage = "block" =>
                   Outcome(t)' = IF pterrno'[t] = "OK" THEN "got" ELSE "gaveup"
              /\ call'[t].stage = "delete" =>
                   Outcome(t)' = IF call'[t].ret = "OK" THEN "got" ELSE "gaveup"
BY DEF Inv1, CallInv, CallInvOf, Types, Outcome

LEMMA OutcomeStays ==
  ASSUME NEW t \in Tasks, state'[t] = state[t], call'[t] = call[t], pterrno'[t] = pterrno[t]
  PROVE  Outcome(t)' = Outcome(t)
BY DEF Outcome

(* The steps of SemAbs, from what they do to each semaphore and each task *)
SameUnits(S) == \A r \in S : Units(r)' = Units(r)
SameWaiters(S) == \A r \in S : WaitersOf(r)' = WaitersOf(r)
SameOutcomes(T) == \A u \in T : Outcome(u)' = Outcome(u)

LEMMA AbsStutter ==
  ASSUME SameUnits(Sems), SameWaiters(Sems), SameOutcomes(Tasks), UNCHANGED prio
  PROVE  UNCHANGED Abs!vars
BY DEF SameUnits, SameWaiters, SameOutcomes, Abs!vars

LEMMA AbsTake ==
  ASSUME NEW t \in Tasks, NEW s \in Sems, Outcome(t) = "idle", Units(s) > 0,
         Units(s)' = Units(s) - 1, SameUnits(Sems \ {s}), SameWaiters(Sems),
         Outcome(t)' \in {"got", "idle"}, SameOutcomes(Tasks \ {t}), UNCHANGED prio
  PROVE  Abs!Next
<1>1. Abs!Take(t, s)
  BY DEF SameUnits, SameWaiters, SameOutcomes, Abs!Take
<1> QED BY <1>1 DEF Abs!Next

LEMMA AbsAnswer ==
  ASSUME NEW t \in Tasks, SameUnits(Sems), SameWaiters(Sems), SameOutcomes(Tasks \ {t}),
         UNCHANGED prio,
         \/ Outcome(t) = "idle" /\ Outcome(t)' = "gaveup"
         \/ Outcome(t) \in {"got", "gaveup"} /\ Outcome(t)' = "idle"
  PROVE  Abs!Next
<1>1. Abs!Refuse(t) \/ Abs!Return(t)
  BY DEF SameUnits, SameWaiters, SameOutcomes, Abs!Refuse, Abs!Return
<1> QED BY <1>1 DEF Abs!Next

LEMMA AbsWait ==
  ASSUME NEW t \in Tasks, NEW s \in Sems, Outcome(t) = "idle", Units(s) = 0,
         SameUnits(Sems), WaitersOf(s)' = WaitersOf(s) \cup {t}, SameWaiters(Sems \ {s}),
         Outcome(t)' = "waiting", SameOutcomes(Tasks \ {t}), UNCHANGED prio
  PROVE  Abs!Next
<1>1. Abs!Wait(t, s)
  BY DEF SameUnits, SameWaiters, SameOutcomes, Abs!Wait
<1> QED BY <1>1 DEF Abs!Next

LEMMA AbsGiveUp ==
  ASSUME NEW t \in Tasks, NEW s \in Sems, t \in WaitersOf(s),
         SameUnits(Sems), WaitersOf(s)' = WaitersOf(s) \ {t}, SameWaiters(Sems \ {s}),
         Outcome(t)' = "gaveup", SameOutcomes(Tasks \ {t}), UNCHANGED prio
  PROVE  Abs!Next
<1>1. Abs!GiveUp(t, s)
  BY DEF SameUnits, SameWaiters, SameOutcomes, Abs!GiveUp
<1> QED BY <1>1 DEF Abs!Next

LEMMA AbsRenew ==
  ASSUME NEW t \in Tasks, NEW p \in Prios, SameUnits(Sems),
         \A r \in Sems : WaitersOf(r)' = WaitersOf(r) \ {t},
         Outcome(t)' = "idle", SameOutcomes(Tasks \ {t}), prio' = [prio EXCEPT ![t] = p]
  PROVE  Abs!Next
<1>1. Abs!Renew(t, p)
  BY DEF SameUnits, SameOutcomes, Abs!Renew
<1> QED BY <1>1 DEF Abs!Next

LEMMA AbsSetPriority ==
  ASSUME NEW t \in Tasks, NEW p \in Prios, SameUnits(Sems), SameWaiters(Sems),
         SameOutcomes(Tasks), prio' = [prio EXCEPT ![t] = p]
  PROVE  Abs!Next
<1>1. Abs!SetPriority(t, p)
  BY DEF SameUnits, SameWaiters, SameOutcomes, Abs!SetPriority
<1> QED BY <1>1 DEF Abs!Next

LEMMA SameCardinality == \A S : Abs!Cardinality(S) = Cardinality(S)
BY DEF Abs!Cardinality, Cardinality

LEMMA AbsDeal ==
  ASSUME Inv, Inv1', NEW s \in Sems, NEW W, NEW n, NEW r, Woken(s, W, n),
         UNCHANGED <<pterrno, prio, call>>,
         SameUnits(Sems \ {s}), Units(s)' = r
  PROVE  Abs!Deal(s, n, r)
<1>1. WaitersOf(s)' = WaitersOf(s) \ W /\ SameWaiters(Sems \ {s})
  BY WokenLeave DEF Inv, SameWaiters
<1>2. W \in SUBSET WaitersOf(s) /\ W \in SUBSET Tasks
  BY DEF Woken, WaitersOf
<1>3. ASSUME NEW t \in W PROVE Outcome(t)' = "got"
  <2>1. CallInvOf(t) /\ state[t] = "WAIT_SEM" /\ t \in Tasks
    BY <1>2 DEF Inv, Inv1, CallInv, WaitersOf
  <2>2. state'[t] = "READY" /\ call'[t] # NoCall /\ call'[t].stage = "block" /\ pterrno'[t] = "OK"
    BY <2>1, CallTypes DEF Woken, CallInvOf
  <2> QED BY <2>1, <2>2, OutcomeNext
<1>4. SameOutcomes(Tasks \ W)
  BY OutcomeStays DEF Woken, SameOutcomes
<1> DEFINE waits == [x \in Sems |-> WaitersOf(x)]
           out == [t \in Tasks |-> Outcome(t)]
<1>5. out' = [t \in Tasks |-> IF t \in W THEN "got" ELSE out[t]]
  BY <1>3, <1>4 DEF SameOutcomes
<1>6. waits' = [waits EXCEPT ![s] = @ \ W]
  BY <1>1 DEF SameWaiters
<1>7. [x \in Sems |-> Units(x)]' = [[x \in Sems |-> Units(x)] EXCEPT ![s] = r]
  BY DEF SameUnits
<1>8. /\ W \in SUBSET waits[s] /\ Cardinality(W) = n
      /\ \A t \in W, u \in waits[s] \ W : prio[u] <= prio[t]
  BY DEF Woken
<1>9. \E G \in SUBSET waits[s] :
        /\ Abs!Cardinality(G) = n
        /\ \A t \in G, u \in waits[s] \ G : prio[u] <= prio[t]
        /\ waits' = [waits EXCEPT ![s] = @ \ G]
        /\ out' = [t \in Tasks |-> IF t \in G THEN "got" ELSE out[t]]
        /\ [x \in Sems |-> Units(x)]' = [[x \in Sems |-> Units(x)] EXCEPT ![s] = r]
        /\ UNCHANGED prio
  <2> HIDE DEF waits, out
  <2> QED BY <1>5, <1>6, <1>7, <1>8, SameCardinality, Zenon
<1> QED BY <1>9, Zenon DEF Abs!Deal

LEMMA TakeStep ==
  ASSUME Inv, Inv1', NEW t \in Tasks, NEW s \in Sems, Outcome(t) = "idle",
         state[t] = "READY", TakeCount(t, s), Outcome(t)' \in {"got", "idle"},
         SameOutcomes(Tasks \ {t})
  PROVE  Abs!Next
<1>1. SameWaiters(Sems)
  BY TakeCountCount DEF SameWaiters
<1>2. Units(s) > 0 /\ Units(s)' = Units(s) - 1 /\ SameUnits(Sems \ {s})
  BY DEF TakeCount, Units, SameUnits, Inv, Inv1, Types
<1> QED BY <1>1, <1>2, AbsTake DEF TakeCount

LEMMA BlockStep ==
  ASSUME Inv, Inv1', NEW t \in Tasks, NEW s \in Sems, Outcome(t) = "idle",
         state[t] = "READY", semcount[s] <= 0, Block(t, s), SameOutcomes(Tasks \ {t})
  PROVE  Abs!Next
<1>1. WaitersOf(s)' = WaitersOf(s) \cup {t} /\ SameWaiters(Sems \ {s})
  BY BlockCount DEF SameWaiters
<1>2. Units(s) = 0 /\ SameUnits(Sems)
  BY DEF Block, Units, SameUnits, Inv, Inv1, Types
<1>3. state'[t] = "WAIT_SEM"
  BY DEF Block, Inv, Inv1, Types
<1>4. Outcome(t)' = "waiting"
  BY <1>3, OutcomeNext
<1> QED BY <1>1, <1>2, <1>4, AbsWait DEF Block

(* A wait ends early, and its count is given back *)
LEMMA GiveUpStep ==
  ASSUME Inv, Inv1', NEW t \in Tasks, NEW e \in {"EINTR", "ETIMEDOUT"}, WaitIrq(t, e),
         UNCHANGED <<prio, call>>
  PROVE  Abs!Next \/ UNCHANGED Abs!vars
<1>1. CASE state[t] = "WAIT_SEM"
  <2>1. /\ Unblock({t}) /\ pterrno' = [pterrno EXCEPT ![t] = e]
        /\ semcount' = [semcount EXCEPT ![waitsem[t]] = @ + 1]
    BY <1>1 DEF WaitIrq
  <2>2. /\ state'[t] = "READY" /\ pterrno'[t] = e
        /\ \A u \in Tasks \ {t} : /\ state'[u] = state[u] /\ waitsem'[u] = waitsem[u]
                                  /\ pterrno'[u] = pterrno[u]
    BY <2>1 DEF Unblock, Inv, Inv1, Types
  <2>3. PICK s \in Sems : /\ s = waitsem[t] /\ semcount[s] < 0 /\ t \in WaitersOf(s)
                          /\ WaitersOf(s)' = WaitersOf(s) \ {t}
                          /\ \A r \in Sems \ {s} : WaitersOf(r)' = WaitersOf(r)
    BY <1>1, <2>1, <2>2, LeaveCount
  <2>4. SameUnits(Sems)
    <3>1. semcount' = [semcount EXCEPT ![s] = @ + 1] /\ semcount \in [Sems -> Int]
      BY <2>1, <2>3 DEF Inv, Inv1, Types
    <3> QED BY <2>3, <3>1 DEF SameUnits, Units
  <2>5. SameOutcomes(Tasks \ {t})
    BY <2>2, OutcomeStays DEF SameOutcomes
  <2>6. call[t] # NoCall /\ call[t].stage = "block"
    BY <1>1, CallTypes DEF Inv, Inv1, CallInv, CallInvOf
  <2>7. Outcome(t)' = "gaveup"
    BY <2>2, <2>6, OutcomeNext
  <2> QED BY <2>3, <2>4, <2>5, <2>7, AbsGiveUp DEF SameWaiters
<1>2. CASE state[t] # "WAIT_SEM"
  <2>1. UNCHANGED <<semcount, pterrno, waiting, state, waitsem>>
    BY <1>2 DEF WaitIrq
  <2>2. SameUnits(Sems) /\ SameWaiters(Sems) /\ SameOutcomes(Tasks)
    BY <2>1, OutcomeStays DEF SameUnits, SameWaiters, SameOutcomes, Units, WaitersOf
  <2> QED BY <2>2, AbsStutter
<1> QED BY <1>1, <1>2

LEMMA PostImplements ==
  ASSUME Inv, Inv1', NEW s \in Sems, Post(s)
  PROVE  Abs!Next
<1> DEFINE n == IF semcount[s] < 0 THEN 1 ELSE 0
           r == IF semcount[s] < 0 THEN Units(s) ELSE Units(s) + 1
<1>1. semcount[s] \in Int
  BY DEF Inv, Inv1, Types
<1>2. PICK W : Woken(s, W, n)
  BY PostWakes
<1>3. SameUnits(Sems \ {s}) /\ Units(s)' = r
  BY <1>1 DEF Post, SameUnits, Units, Inv, Inv1, Types
<1>4. UNCHANGED <<pterrno, prio, call>>
  BY DEF Post
<1>5. Abs!Deal(s, n, r)
  <2> HIDE DEF n, r
  <2> QED BY <1>2, <1>3, <1>4, AbsDeal
<1>6. WaitersOf(s) = {} <=> ~(semcount[s] < 0)
  <2>1. Cardinality(WaitersOf(s)) = 0 <=> WaitersOf(s) = {}
    BY WaitersFinite, FS_EmptySet
  <2> QED BY <1>1, <2>1 DEF Inv, CountInv
<1>7. Abs!Post(s)
  BY <1>5, <1>6 DEF Abs!Post
<1> QED BY <1>7 DEF Abs!Next

LEMMA ResetImplements ==
  ASSUME Inv, Inv1', NEW s \in Sems, NEW count \in Counts, Reset(s, count)
  PROVE  Abs!Next
<1>1. count \in Nat
  BY SemAssumption DEF Counts
<1>2. PICK w \in Nat : /\ w = Cardinality(WaitersOf(s))
                       /\ semcount' = [semcount EXCEPT ![s] = count - w]
                       /\ \E W : Woken(s, W, IF count <= w THEN count ELSE w)
  BY ResetWakes
<1> DEFINE n == IF count <= w THEN count ELSE w
           r == IF count <= w THEN 0 ELSE count - w
<1>3. PICK W : Woken(s, W, n)
  BY <1>2
<1>4. SameUnits(Sems \ {s}) /\ Units(s)' = r
  BY <1>1, <1>2 DEF SameUnits, Units, Inv, Inv1, Types
<1>5. UNCHANGED <<pterrno, prio, call>>
  BY DEF Reset
<1>6. Abs!Deal(s, n, r)
  <2> HIDE DEF n, r
  <2> QED BY <1>3, <1>4, <1>5, AbsDeal
<1>7. IF count <= w THEN Abs!Deal(s, count, 0) ELSE Abs!Deal(s, w, count - w)
  BY <1>6
<1>8. Abs!Reset(s, count)
  <2>1. w = Abs!Cardinality([x \in Sems |-> WaitersOf(x)][s])
    BY <1>2, SameCardinality
  <2> QED BY <1>7, <2>1 DEF Abs!Reset
<1> QED BY <1>8 DEF Abs!Next

LEMMA TimedEnterImplements ==
  ASSUME Inv, Inv1', NEW t \in Tasks, TimedEnter(t)
  PROVE  Abs!Next
<1>1. /\ state[t] = "READY" /\ call[t] # NoCall /\ call[t].stage = "begin"
      /\ call[t].sem \in Sems /\ call[t] \in RealCalls
  BY CallTypes DEF TimedEnter, Inv, Inv1, Types, RealCalls
<1>2. Outcome(t) = "idle"
  BY <1>1, OutcomeIs DEF Inv
<1>3. SameOutcomes(Tasks \ {t})
  <2> SUFFICES ASSUME NEW u \in Tasks \ {t} PROVE Outcome(u)' = Outcome(u)
    BY DEF SameOutcomes
  <2>1. state'[u] = state[u] /\ pterrno'[u] = pterrno[u]
    BY DEF TimedEnter, TakeCount, Block, kernel, Inv, Inv1, Types
  <2>2. call'[u] = call[u]
    BY DEF TimedEnter, Finish, Inv, Inv1, Types
  <2> QED BY <2>1, <2>2, OutcomeStays
<1>4. CASE TakeCount(t, call[t].sem) /\ Finish(t, "OK")
  <2>1. call'[t] # NoCall /\ call'[t].stage = "delete" /\ call'[t].ret = "OK"
    <3>1. "OK" \in Results /\ Inv1
      BY DEF Results, Inv
    <3> QED BY <1>1, <1>4, <3>1, FinishEffect, CallTypes
  <2>2. state'[t] = "READY"
    BY <1>1, <1>4 DEF TakeCount
  <2>3. Outcome(t)' = "got"
    BY <2>1, <2>2, OutcomeNext
  <2> QED BY <1>1, <1>2, <1>3, <1>4, <2>3, TakeStep
<1>5. CASE Finish(t, "refused") /\ UNCHANGED kernel
  <2>1. call'[t] # NoCall /\ call'[t].stage = "delete" /\ call'[t].ret = "refused"
    <3>1. "refused" \in Results /\ Inv1
      BY DEF Results, Inv
    <3> QED BY <1>1, <1>5, <3>1, FinishEffect, CallTypes
  <2>2. state'[t] = "READY"
    BY <1>1, <1>5 DEF kernel
  <2>3. Outcome(t)' = "gaveup"
    BY <2>1, <2>2, OutcomeNext
  <2>4. SameUnits(Sems) /\ SameWaiters(Sems) /\ UNCHANGED prio
    BY <1>5 DEF kernel, SameUnits, SameWaiters, Units, WaitersOf
  <2> QED BY <1>2, <1>3, <2>3, <2>4, AbsAnswer
<1>6. CASE semcount[call[t].sem] <= 0 /\ Block(t, call[t].sem)
  BY <1>1, <1>2, <1>3, <1>6, BlockStep
<1> QED BY <1>4, <1>5, <1>6 DEF TimedEnter

LEMMA ResumeImplements ==
  ASSUME Inv, Inv1', NEW t \in Tasks, Resume(t) \/ TimedReturn(t)
  PROVE  Abs!Next \/ UNCHANGED Abs!vars
<1>1. /\ state[t] = "READY" /\ call[t] # NoCall /\ call[t] \in RealCalls
      /\ UNCHANGED <<semcount, state, waitsem, prio>>
  BY DEF Resume, TimedReturn, Inv, Inv1, Types
<1>2. SameUnits(Sems) /\ SameWaiters(Sems)
  BY <1>1 DEF SameUnits, SameWaiters, Units, WaitersOf
<1>3. SameOutcomes(Tasks \ {t})
  <2> SUFFICES ASSUME NEW u \in Tasks \ {t} PROVE Outcome(u)' = Outcome(u)
    BY DEF SameOutcomes
  <2>1. call'[u] = call[u] /\ pterrno'[u] = pterrno[u]
    BY DEF Resume, TimedReturn, Finish, Inv, Inv1, Types
  <2> QED BY <1>1, <2>1, OutcomeStays
<1>4. CASE Resume(t) /\ call[t].kind = "wait"
  <2>1. call'[t] = NoCall /\ state'[t] = "READY" /\ call[t].stage = "block"
    BY <1>1, <1>4 DEF Resume, Inv, Inv1, Types
  <2>2. Outcome(t) \in {"got", "gaveup"} /\ Outcome(t)' = "idle"
    BY <1>1, <2>1, OutcomeIs, OutcomeNext DEF Inv
  <2> QED BY <1>1, <1>2, <1>3, <2>2, AbsAnswer
<1>5. CASE Resume(t) /\ call[t].kind # "wait"
  <2>1. Finish(t, pterrno[t]) /\ call[t].stage = "block"
    BY <1>5 DEF Resume
  <2>2. pterrno[t] \in {"OK", "EINTR", "ETIMEDOUT"}
    BY <1>1, <2>1 DEF Inv, Inv1, Types, CallInv, CallInvOf
  <2>3. call'[t] # NoCall /\ call'[t].stage = "delete" /\ call'[t].ret = pterrno[t]
    <3>1. pterrno[t] \in Results /\ Inv1
      BY <2>2 DEF Results, Inv
    <3> QED BY <1>1, <2>1, <3>1, FinishEffect, CallTypes
  <2>4. Outcome(t)' = Outcome(t)
    BY <1>1, <2>1, <2>3, OutcomeIs, OutcomeNext DEF Inv
  <2>5. SameOutcomes(Tasks)
    BY <1>3, <2>4 DEF SameOutcomes
  <2> QED BY <1>1, <1>2, <2>5, AbsStutter
<1>6. CASE TimedReturn(t)
  <2>1. call'[t] = NoCall /\ state'[t] = "READY" /\ call[t].stage = "delete"
    BY <1>1, <1>6 DEF TimedReturn, Inv, Inv1, Types
  <2>2. Outcome(t) \in {"got", "gaveup"} /\ Outcome(t)' = "idle"
    BY <1>1, <2>1, OutcomeIs, OutcomeNext DEF Inv
  <2> QED BY <1>1, <1>2, <1>3, <2>2, AbsAnswer
<1> QED BY <1>4, <1>5, <1>6

LEMMA RestartImplements ==
  ASSUME Inv, Inv1', NEW t \in Tasks, NEW p \in Prios, Restart(t, p)
  PROVE  Abs!Next
<1>1. state'[t] = "READY" /\ call'[t] = NoCall /\ prio' = [prio EXCEPT ![t] = p]
  BY DEF Restart, Inv, Inv1, Types
<1>2. Outcome(t)' = "idle"
  BY <1>1, OutcomeNext
<1>3. \A u \in Tasks \ {t} : /\ state'[u] = state[u] /\ waitsem'[u] = waitsem[u]
                             /\ call'[u] = call[u] /\ pterrno'[u] = pterrno[u]
  BY DEF Restart, Recover, Inv, Inv1, Types
<1>4. SameOutcomes(Tasks \ {t})
  BY <1>3, OutcomeStays DEF SameOutcomes
<1>5. SameUnits(Sems) /\ \A r \in Sems : WaitersOf(r)' = WaitersOf(r) \ {t}
  <2>1. CASE state[t] = "WAIT_SEM"
    <3>1. semcount' = [semcount EXCEPT ![waitsem[t]] = @ + 1]
      BY <2>1 DEF Restart, Recover
    <3>2. PICK s \in Sems : /\ s = waitsem[t] /\ semcount[s] < 0 /\ t \in WaitersOf(s)
                            /\ WaitersOf(s)' = WaitersOf(s) \ {t}
                            /\ \A r \in Sems \ {s} : WaitersOf(r)' = WaitersOf(r)
      BY <1>1, <1>3, <2>1, <3>1, LeaveCount
    <3>3. SameUnits(Sems)
      <4>1. semcount' = [semcount EXCEPT ![s] = @ + 1] /\ semcount \in [Sems -> Int]
        BY <3>1, <3>2 DEF Inv, Inv1, Types
      <4> QED BY <3>2, <4>1 DEF SameUnits, Units
    <3>4. \A r \in Sems \ {s} : t \notin WaitersOf(r)
      BY <3>2 DEF WaitersOf
    <3> QED BY <3>2, <3>3, <3>4
  <2>2. CASE state[t] # "WAIT_SEM"
    <3>1. semcount' = semcount
      BY <2>2 DEF Restart, Recover
    <3>2. SameUnits(Sems)
      BY <3>1 DEF SameUnits, Units
    <3>3. \A r \in Sems : WaitersOf(r)' = WaitersOf(r) \ {t}
      BY <1>1, <1>3, <2>2 DEF WaitersOf
    <3> QED BY <3>2, <3>3
  <2> QED BY <2>1, <2>2
<1> QED BY <1>1, <1>2, <1>4, <1>5, AbsRenew

(* Every step is a step of the semaphore the callers see, or none *)
LEMMA StepImplements ==
  ASSUME ~DeleteWaiting, Inv, Inv1', [Next]_vars
  PROVE  Abs!Next \/ UNCHANGED Abs!vars
<1>0. /\ state \in [Tasks -> {"READY", "WAIT_SEM", "INVALID", "GONE"}] /\ prio \in [Tasks -> Prios]
      /\ call \in [Tasks -> {NoCall} \cup RealCalls] /\ waitsem \in [Tasks -> Sems \cup {NoSem}]
      /\ pterrno \in [Tasks -> {"errno", "OK", "EINTR", "ETIMEDOUT"}] /\ Inv1
  BY DEF Inv, Inv1, Types
<1>1. CASE UNCHANGED vars
  <2>1. SameUnits(Sems) /\ SameWaiters(Sems) /\ SameOutcomes(Tasks) /\ UNCHANGED prio
    BY <1>1, OutcomeStays
       DEF vars, kernel, SameUnits, SameWaiters, SameOutcomes, Units, WaitersOf
  <2> QED BY <2>1, AbsStutter
<1>2. ASSUME NEW t \in Tasks, NEW s \in Sems, Wait(t, s) \/ TryWait(t, s) PROVE Abs!Next
  <2>1. state[t] = "READY" /\ call[t] = NoCall
    BY <1>2 DEF Wait, TryWait, Idle
  <2>2. Outcome(t) = "idle"
    BY <1>0, <2>1, OutcomeIs
  <2>3. CASE TakeCount(t, s) /\ UNCHANGED <<pterrno, call>>
    <3>1. SameOutcomes(Tasks)
      BY <2>3, OutcomeStays DEF TakeCount, SameOutcomes
    <3> QED BY <2>1, <2>2, <2>3, <3>1, TakeStep DEF SameOutcomes
  <2>4. CASE semcount[s] <= 0 /\ Block(t, s) /\ Start(t, "wait", s, "block")
    <3>1. SameOutcomes(Tasks \ {t})
      BY <1>0, <2>4, OutcomeStays DEF Block, Start, SameOutcomes
    <3> QED BY <2>1, <2>2, <2>4, <3>1, BlockStep
  <2> QED BY <1>2, <2>3, <2>4 DEF Wait, TryWait
<1>3. ASSUME NEW t \in Tasks, NEW s \in Sems, NEW k \in {"timed", "tick"}, TimedBegin(t, s, k)
      PROVE  UNCHANGED Abs!vars
  <2>1. /\ state[t] = "READY" /\ call[t] = NoCall /\ Start(t, k, s, "begin")
        /\ UNCHANGED <<semcount, state, waitsem, pterrno, prio>>
    BY <1>3 DEF TimedBegin, Idle
  <2>2. call'[t] # NoCall /\ call'[t].stage = "begin"
    BY <1>0, <2>1, StartEffect, CallTypes
  <2>3. Outcome(t)' = Outcome(t)
    BY <1>0, <2>1, <2>2, OutcomeIs, OutcomeNext
  <2>4. SameOutcomes(Tasks)
    BY <1>0, <2>1, <2>3, OutcomeStays DEF Start, SameOutcomes
  <2>5. SameUnits(Sems) /\ SameWaiters(Sems)
    BY <2>1 DEF SameUnits, SameWaiters, Units, WaitersOf
  <2> QED BY <2>1, <2>4, <2>5, AbsStutter
<1>4. ASSUME NEW t \in Tasks, Timeout(t) \/ Signal(t)
      PROVE  Abs!Next \/ UNCHANGED Abs!vars
  BY <1>4, GiveUpStep DEF Timeout, Signal
<1>5. ASSUME NEW t \in Tasks, Terminate(t) PROVE Abs!Next
  <2>1. /\ state[t] = "READY" /\ state'[t] = "INVALID" /\ call'[t] = NoCall
        /\ UNCHANGED <<semcount, waitsem, pterrno, prio>>
        /\ \A u \in Tasks \ {t} : state'[u] = state[u] /\ call'[u] = call[u]
    BY <1>0, <1>5 DEF Terminate
  <2>2. Outcome(t)' = "idle"
    BY <2>1, OutcomeNext
  <2>3. SameOutcomes(Tasks \ {t})
    BY <2>1, OutcomeStays DEF SameOutcomes
  <2>4. SameUnits(Sems) /\ \A r \in Sems : WaitersOf(r)' = WaitersOf(r) \ {t}
    BY <2>1 DEF SameUnits, Units, WaitersOf
  <2>5. PICK p \in Prios : prio' = [prio EXCEPT ![t] = p]
    <3>1. prio[t] \in Prios /\ prio' = [prio EXCEPT ![t] = prio[t]]
      BY <1>0, <2>1
    <3> QED BY <3>1
  <2> QED BY <2>2, <2>3, <2>4, <2>5, AbsRenew
<1>6. ASSUME NEW t \in Tasks, ExitHook(t) PROVE UNCHANGED Abs!vars
  <2>1. /\ state[t] = "INVALID" /\ state'[t] = "GONE" /\ call' = call
        /\ UNCHANGED <<semcount, waitsem, prio>>
        /\ \A u \in Tasks \ {t} : state'[u] = state[u] /\ pterrno'[u] = pterrno[u]
    BY <1>0, <1>6 DEF ExitHook, Recover
  <2>2. call[t] = NoCall
    BY <1>0, <2>1 DEF Inv1, CallInv, CallInvOf
  <2>3. Outcome(t)' = Outcome(t)
    BY <1>0, <2>1, <2>2, OutcomeIs, OutcomeNext
  <2>4. SameOutcomes(Tasks)
    BY <2>1, <2>3, OutcomeStays DEF SameOutcomes
  <2>5. SameUnits(Sems) /\ SameWaiters(Sems)
    BY <2>1 DEF SameUnits, SameWaiters, Units, WaitersOf
  <2> QED BY <2>1, <2>4, <2>5, AbsStutter
<1>7. ASSUME NEW t \in Tasks, NEW p \in Prios, SetPriority(t, p) PROVE Abs!Next
  <2>1. SameUnits(Sems) /\ SameWaiters(Sems) /\ SameOutcomes(Tasks)
    BY <1>7, OutcomeStays
       DEF SetPriority, SameUnits, SameWaiters, SameOutcomes, Units, WaitersOf
  <2> QED BY <1>7, <2>1, AbsSetPriority DEF SetPriority
<1>8. ASSUME NEW t \in Tasks, NEW p \in Prios, Create(t, p) PROVE Abs!Next
  <2>1. /\ state[t] = "GONE" /\ state'[t] = "READY" /\ prio' = [prio EXCEPT ![t] = p]
        /\ UNCHANGED <<semcount, pterrno, call>>
        /\ \A u \in Tasks \ {t} : state'[u] = state[u] /\ waitsem'[u] = waitsem[u]
    BY <1>0, <1>8 DEF Create
  <2>2. call[t] = NoCall
    BY <1>0, <2>1 DEF Inv1, CallInv, CallInvOf
  <2>3. Outcome(t)' = Outcome(t)
    BY <1>0, <2>1, <2>2, OutcomeIs, OutcomeNext
  <2>4. SameOutcomes(Tasks)
    BY <2>1, <2>3, OutcomeStays DEF SameOutcomes
  <2>5. SameUnits(Sems) /\ SameWaiters(Sems)
    BY <2>1 DEF SameUnits, SameWaiters, Units, WaitersOf
  <2> QED BY <2>1, <2>4, <2>5, AbsSetPriority
<1> QED BY <1>1, <1>2, <1>3, <1>4, <1>5, <1>6, <1>7, <1>8, TimedEnterImplements,
           ResumeImplements, PostImplements, ResetImplements, RestartImplements DEF Next

(* The signed counter, the list and the watchdogs implement the semaphore  *)
(* the callers see: units are neither lost nor handed out twice, a task    *)
(* that is told OK has got one and a task that is told an error has not,   *)
(* and a post hands its unit to a waiting task of the highest priority     *)
THEOREM Implements ==
  ASSUME ~DeleteWaiting
  PROVE  Spec => Semaphore
<1>1. Init => Abs!Init
  <2> SUFFICES ASSUME Init PROVE Abs!Init
    OBVIOUS
  <2>1. \A s \in Sems : Units(s) \in Nat /\ WaitersOf(s) = {}
    BY DEF Init, Units, WaitersOf
  <2>2. \A t \in Tasks : Outcome(t) = "idle"
    BY Inv1Init, OutcomeIs DEF Init
  <2>3. prio \in [Tasks -> Prios]
    BY DEF Init
  <2> QED BY <2>1, <2>2, <2>3 DEF Abs!Init
<1>2. Inv /\ Inv' /\ [Next]_vars => [Abs!Next]_(Abs!vars)
  BY StepImplements DEF Inv
<1> QED BY <1>1, <1>2, InvAlways, PTL DEF Spec, Semaphore, Abs!Spec
=============================================================================

----------------------------- MODULE WdogProofs -----------------------------
(***************************************************************************)
(* Proofs about Wdog, for every pool, heap, reserve and set of delays: the *)
(* lists and flags agree, tasks leave the reserve to the interrupts, and   *)
(* the list of differences implements timers that count down one by one.   *)
(***************************************************************************)
EXTENDS Wdog, FiniteSetTheorems, SequenceTheorems, NaturalsInduction, WellFoundedInduction, TLAPS

-----------------------------------------------------------------------------
(* A list of timers and their lags.  Distinct(q): nothing is in it twice *)
Distinct(q) == \A i, j \in DOMAIN q : q[i] = q[j] => i = j

(* f[i] is the sum of the lags of the first i *)
Sums(f, list, lags) ==
  /\ f \in [0 .. Len(list) -> Int] /\ f[0] = 0
  /\ \A i, j \in 0 .. Len(list) : j = i + 1 => f[j] = f[i] + lags[list[j]]

(* The list is made of timers with lags in range, and none is due later    *)
(* than the longest delay                                                  *)
Chain(list, lags) ==
  /\ list \in Seq(Timers) /\ Distinct(list)
  /\ lags \in [Timers -> 0 .. MaxLag]
  /\ \A k \in 0 .. Len(list) : Due(list, lags)[k] \in 0 .. MaxLag

(* Timer w is in the list and due after t ticks *)
At(list, lags, w, t) ==
  \E k \in 1 .. Len(list) : list[k] = w /\ Due(list, lags)[k] = t

ActiveInv ==
  /\ Chain(active, lag)
  /\ ToSet(active) = flagged /\ flagged \subseteq live
  /\ irq = "none" => \A w \in Timers, t \in Int : At(active, lag, w, t) => t > 0

FreeInv ==
  /\ ToSet(freelist) = Pool \ live /\ Distinct(freelist)
  /\ wdnfree = Len(freelist) /\ wdnfree = Cardinality(Pool \ live)

Inv == TypeOK /\ ActiveInv /\ FreeInv /\ ReserveKept

-----------------------------------------------------------------------------
(* A set of numbers that is not empty has a least element *)
LEMMA MinOfSet ==
  ASSUME NEW S \in SUBSET Nat, S # {}
  PROVE  Min(S) \in S /\ \A y \in S : Min(S) <= y
<1>1. \E x \in S : \A y \in S : ~(<<y, x>> \in OpToRel(<, Nat))
  BY WFMin, NatLessThanWellFounded, Zenon
<1>2. \A x, y \in Nat : y < x => <<y, x>> \in OpToRel(<, Nat)
  BY DEF OpToRel
<1>3. \E x \in S : \A y \in S : x <= y
  <2>1. PICK x \in S : \A y \in S : ~(<<y, x>> \in OpToRel(<, Nat))
    BY <1>1, Zenon
  <2>2. \A y \in S : ~(y < x)
    BY <1>2, <2>1
  <2> QED BY <2>2
<1> QED BY <1>3 DEF Min

(* Induction up to n, for the numbers with a property given as their set *)
LEMMA Upto ==
  ASSUME NEW n \in Nat, NEW S, 0 \in S,
         \A i, j \in 0 .. n : i \in S /\ j = i + 1 => j \in S
  PROVE  0 .. n \subseteq S
<1> DEFINE B == {i \in 0 .. n : i \notin S}
<1> SUFFICES ASSUME B # {} PROVE FALSE
  OBVIOUS
<1>1. B \in SUBSET Nat
  OBVIOUS
<1>2. B \subseteq 0 .. n /\ \A x : x \in B => x \notin S
  OBVIOUS
<1>3. \A x \in 0 .. n : x \notin B => x \in S
  OBVIOUS
<1> HIDE DEF B
<1>4. PICK m \in B : \A y \in B : m <= y
  BY <1>1, MinOfSet
<1>5. m \in 0 .. n /\ m \notin S
  BY <1>2
<1>6. m # 0
  BY <1>5
<1>7. PICK i \in 0 .. n : m = i + 1
  BY <1>5, <1>6
<1>8. i \notin B
  BY <1>4, <1>7
<1> QED BY <1>3, <1>5, <1>7, <1>8

-----------------------------------------------------------------------------
(* The sums exist, and Due() is their only solution *)
LEMMA SumsExist ==
  ASSUME NEW list \in Seq(Timers), NEW lags \in [Timers -> Int]
  PROVE  \E f : Sums(f, list, lags)
<1> DEFINE n == Len(list)
           Ok(f, m) == /\ f \in [0 .. m -> Int] /\ f[0] = 0
                       /\ \A i, j \in 0 .. m : j = i + 1 => f[j] = f[i] + lags[list[j]]
           S == {m \in 0 .. n : \E f : Ok(f, m)}
<1>1. n \in Nat /\ \A j \in 1 .. n : lags[list[j]] \in Int
  OBVIOUS
<1> HIDE DEF n
<1>2. 0 \in S
  <2> DEFINE f == [i \in 0 .. 0 |-> 0]
  <2>1. Ok(f, 0)
    OBVIOUS
  <2>2. 0 \in 0 .. n
    BY <1>1
  <2> HIDE DEF Ok, f
  <2> QED BY <2>1, <2>2
<1>3. ASSUME NEW m \in 0 .. n, NEW k \in 0 .. n, m \in S, k = m + 1 PROVE k \in S
  <2>1. PICK f : Ok(f, m)
    BY <1>3
  <2> DEFINE v == f[m] + lags[list[k]]
             g == [i \in 0 .. k |-> IF i = k THEN v ELSE f[i]]
  <2>2. v \in Int
    BY <1>1, <1>3, <2>1
  <2>3. g \in [0 .. k -> Int] /\ g[0] = 0
    BY <1>3, <2>1, <2>2
  <2>4. ASSUME NEW i \in 0 .. k, NEW j \in 0 .. k, j = i + 1 PROVE g[j] = g[i] + lags[list[j]]
    <3>1. CASE j = k
      BY <1>3, <2>4, <3>1
    <3>2. CASE j # k
      <4>1. i \in 0 .. m /\ j \in 0 .. m /\ i # k
        BY <1>3, <2>4, <3>2
      <4> QED BY <2>1, <2>4, <3>2, <4>1
    <3> QED BY <3>1, <3>2
  <2>5. Ok(g, k)
    BY <2>3, <2>4
  <2> HIDE DEF Ok, g
  <2> QED BY <2>5
<1> HIDE DEF S
<1>4. 0 .. n \subseteq S
  BY <1>1, <1>2, <1>3, Upto
<1>5. n \in S
  BY <1>1, <1>4
<1>6. PICK f : Ok(f, n)
  BY <1>5 DEF S
<1> QED BY <1>6 DEF n, Sums

LEMMA DueSums ==
  ASSUME NEW list \in Seq(Timers), NEW lags \in [Timers -> Int]
  PROVE  Sums(Due(list, lags), list, lags)
<1> DEFINE n == Len(list)
           D == Due(list, lags)
           Eq(f) == f = [i \in 0 .. n |-> IF i = 0 THEN 0 ELSE f[i - 1] + lags[list[i]]]
<1>0. n \in Nat /\ \A j \in 1 .. n : lags[list[j]] \in Int
  OBVIOUS
<1>1. \E f : Eq(f)
  <2>1. PICK f : Sums(f, list, lags)
    BY SumsExist
  <2>2. ASSUME NEW i \in 0 .. n PROVE f[i] = IF i = 0 THEN 0 ELSE f[i - 1] + lags[list[i]]
    <3>1. CASE i = 0
      BY <2>1, <3>1 DEF Sums
    <3>2. CASE i # 0
      <4>1. PICK j \in 0 .. n : j = i - 1 /\ i = j + 1
        BY <1>0, <3>2
      <4> QED BY <2>1, <3>2, <4>1 DEF Sums
    <3> QED BY <3>1, <3>2
  <2>3. f \in [0 .. n -> Int]
    BY <2>1 DEF Sums
  <2>4. Eq(f)
    BY <2>2, <2>3
  <2> QED BY <2>4
<1>2. D = CHOOSE f : Eq(f)
  BY DEF Due
<1>3. Eq(D)
  BY <1>1, <1>2
<1> HIDE DEF D
<1>4. DOMAIN D = 0 .. n /\ D[0] = 0
  BY <1>0, <1>3
<1>5. \A i, j \in 0 .. n : j = i + 1 => D[j] = D[i] + lags[list[j]]
  BY <1>0, <1>3
<1> DEFINE S == {i \in 0 .. n : D[i] \in Int}
<1>6. 0 .. n \subseteq S
  <2>1. 0 \in S
    BY <1>0, <1>4
  <2>2. ASSUME NEW i \in 0 .. n, NEW j \in 0 .. n, i \in S, j = i + 1 PROVE j \in S
    BY <1>0, <1>5, <2>2
  <2> HIDE DEF S
  <2> QED BY <1>0, <2>1, <2>2, Upto
<1>7. D \in [0 .. n -> Int]
  BY <1>3, <1>6
<1> QED BY <1>4, <1>5, <1>7 DEF Sums, D

LEMMA DueIs ==
  ASSUME NEW list \in Seq(Timers), NEW lags \in [Timers -> Int], NEW f, Sums(f, list, lags)
  PROVE  Due(list, lags) = f
<1> DEFINE n == Len(list)
           D == Due(list, lags)
           S == {i \in 0 .. n : D[i] = f[i]}
<1>1. Sums(D, list, lags) /\ n \in Nat
  BY DueSums
<1> HIDE DEF D
<1>2. D \in [0 .. n -> Int] /\ f \in [0 .. n -> Int]
  BY <1>1 DEF Sums
<1>3. 0 .. n \subseteq S
  <2>1. 0 \in S
    BY <1>1 DEF Sums
  <2>2. \A i, j \in 0 .. n : i \in S /\ j = i + 1 => j \in S
    BY <1>1 DEF Sums
  <2> HIDE DEF S
  <2> QED BY <1>1, <2>1, <2>2, Upto
<1>4. \A i \in 0 .. n : D[i] = f[i]
  BY <1>3
<1>5. D = f
  BY <1>2, <1>4
<1> QED BY <1>5 DEF D

-----------------------------------------------------------------------------
(* Lists.  r is q without its element m, or with w before its element m *)
Removed(r, q, m, T) ==
  /\ r \in Seq(T) /\ Len(r) = Len(q) - 1
  /\ \A k \in 1 .. Len(q) - 1 : /\ k < m => r[k] = q[k]
                                /\ k >= m => r[k] = q[k + 1]

Inserted(r, q, m, w) ==
  /\ r \in Seq(Timers) /\ Len(r) = Len(q) + 1 /\ r[m] = w
  /\ \A k \in 1 .. Len(q) : /\ k < m => r[k] = q[k]
                            /\ k >= m => r[k + 1] = q[k]

LEMMA RemoveAtIs ==
  ASSUME NEW T, NEW q \in Seq(T), NEW m \in 1 .. Len(q)
  PROVE  Removed(RemoveAt(q, m), q, m, T)
<1> DEFINE a == SubSeq(q, 1, m - 1)
           b == SubSeq(q, m + 1, Len(q))
<1>1. a \in Seq(T) /\ Len(a) = m - 1 /\ \A k \in 1 .. m - 1 : a[k] = q[k]
  OBVIOUS
<1>2. b \in Seq(T) /\ Len(b) = Len(q) - m /\ \A k \in 1 .. Len(q) - m : b[k] = q[m + k]
  OBVIOUS
<1>3. RemoveAt(q, m) = a \o b
  BY DEF RemoveAt
<1> HIDE DEF a, b
<1>0. Len(q) \in Nat
  OBVIOUS
<1>4. /\ a \o b \in Seq(T) /\ Len(a \o b) = Len(a) + Len(b)
      /\ \A k \in 1 .. Len(a) + Len(b) : (a \o b)[k] = IF k <= Len(a) THEN a[k] ELSE b[k - Len(a)]
  BY <1>1, <1>2, ConcatProperties
<1>5. /\ Len(a \o b) = Len(q) - 1
      /\ \A k \in 1 .. Len(q) - 1 : (a \o b)[k] = IF k < m THEN a[k] ELSE b[k - (m - 1)]
  <2>1. Len(a) = m - 1 /\ Len(a) + Len(b) = Len(q) - 1
    BY <1>0, <1>1, <1>2
  <2>2. \A k \in 1 .. Len(q) - 1 : k <= m - 1 <=> k < m
    BY <1>0
  <2> QED BY <1>4, <2>1, <2>2
<1>6. ASSUME NEW k \in 1 .. Len(q) - 1, k >= m PROVE (a \o b)[k] = q[k + 1]
  <2>1. PICK i \in 1 .. Len(q) - m : i = k - (m - 1)
    BY <1>0, <1>6
  <2>2. (a \o b)[k] = b[i]
    BY <1>0, <1>5, <1>6, <2>1
  <2>3. b[i] = q[m + i] /\ m + i = k + 1
    BY <1>0, <1>2, <1>6, <2>1
  <2> QED BY <2>2, <2>3
<1>7. \A k \in 1 .. Len(q) - 1 : k < m => (a \o b)[k] = q[k]
  BY <1>1, <1>5
<1> QED BY <1>3, <1>4, <1>5, <1>6, <1>7 DEF Removed

LEMMA TailIs ==
  ASSUME NEW T, NEW q \in Seq(T), q # <<>>
  PROVE  1 \in 1 .. Len(q) /\ Head(q) = q[1] /\ Removed(Tail(q), q, 1, T)
BY DEF Removed

LEMMA InsertAtIs ==
  ASSUME NEW q \in Seq(Timers), NEW m \in 1 .. Len(q) + 1, NEW w \in Timers
  PROVE  Inserted(InsertAt(q, m, w), q, m, w)
<1> DEFINE a == SubSeq(q, 1, m - 1)
           b == SubSeq(q, m, Len(q))
           c == a \o <<w>>
<1>0. Len(q) \in Nat /\ <<w>> \in Seq(Timers) /\ Len(<<w>>) = 1 /\ <<w>>[1] = w
  OBVIOUS
<1>1. a \in Seq(Timers) /\ Len(a) = m - 1 /\ \A k \in 1 .. m - 1 : a[k] = q[k]
  OBVIOUS
<1>2. b \in Seq(Timers) /\ Len(b) = Len(q) - m + 1 /\ \A k \in 1 .. Len(q) - m + 1 : b[k] = q[m - 1 + k]
  <2>1. CASE m = Len(q) + 1
    BY <1>0, <2>1
  <2>2. CASE m # Len(q) + 1
    BY <1>0, <2>2
  <2> QED BY <2>1, <2>2
<1>3. InsertAt(q, m, w) = c \o b
  BY DEF InsertAt
<1> HIDE DEF a, b
<1>4. /\ c \in Seq(Timers) /\ Len(c) = m
      /\ \A k \in 1 .. m : c[k] = IF k < m THEN a[k] ELSE w
  BY <1>0, <1>1
<1> HIDE DEF c
<1>5. /\ c \o b \in Seq(Timers) /\ Len(c \o b) = Len(c) + Len(b)
      /\ \A k \in 1 .. Len(c) + Len(b) : (c \o b)[k] = IF k <= Len(c) THEN c[k] ELSE b[k - Len(c)]
  BY <1>2, <1>4, ConcatProperties
<1>6. Len(c) + Len(b) = Len(q) + 1 /\ Len(c) = m
  BY <1>0, <1>2, <1>4
<1>7. ASSUME NEW k \in 1 .. Len(q), k >= m PROVE (c \o b)[k + 1] = q[k]
  <2>1. PICK i \in 1 .. Len(q) - m + 1 : i = k + 1 - m
    BY <1>0, <1>7
  <2>2. k + 1 \in 1 .. Len(q) + 1 /\ ~(k + 1 <= m)
    BY <1>0, <1>7
  <2> DEFINE x == c \o b
  <2>3. \A h \in 1 .. Len(q) + 1 : x[h] = IF h <= m THEN c[h] ELSE b[h - m]
    BY <1>5, <1>6
  <2> HIDE DEF x
  <2>4. x[k + 1] = b[k + 1 - m]
    BY <2>2, <2>3
  <2>5. (c \o b)[k + 1] = b[i]
    BY <2>1, <2>4 DEF x
  <2>6. b[i] = q[m - 1 + i] /\ m - 1 + i = k
    BY <1>0, <1>2, <1>7, <2>1
  <2> QED BY <2>5, <2>6
<1>8. \A k \in 1 .. m : (c \o b)[k] = c[k]
  BY <1>0, <1>5, <1>6
<1>9. (c \o b)[m] = w /\ \A k \in 1 .. Len(q) : k < m => (c \o b)[k] = q[k]
  BY <1>0, <1>1, <1>4, <1>8
<1> QED BY <1>3, <1>5, <1>6, <1>7, <1>9 DEF Inserted

LEMMA RemoveList ==
  ASSUME NEW T, NEW q \in Seq(T), Distinct(q), NEW m \in 1 .. Len(q), NEW r, Removed(r, q, m, T)
  PROVE  r \in Seq(T) /\ Distinct(r) /\ ToSet(r) = ToSet(q) \ {q[m]}
<1> DEFINE at(k) == IF k < m THEN k ELSE k + 1
<1>1. r \in Seq(T) /\ DOMAIN r = 1 .. Len(q) - 1 /\ DOMAIN q = 1 .. Len(q) /\ Len(q) \in Nat
  BY DEF Removed
<1>2. \A k \in DOMAIN r : at(k) \in DOMAIN q /\ at(k) # m /\ r[k] = q[at(k)]
  BY <1>1 DEF Removed
<1>3. \A j, k \in DOMAIN r : at(j) = at(k) => j = k
  BY <1>1
<1>4. \A i \in DOMAIN q \ {m} : \E k \in DOMAIN r : at(k) = i
  <2> SUFFICES ASSUME NEW i \in DOMAIN q \ {m} PROVE \E k \in DOMAIN r : at(k) = i
    OBVIOUS
  <2>1. CASE i < m
    <3>1. i \in DOMAIN r /\ at(i) = i
      BY <1>1, <2>1
    <3> QED BY <3>1
  <2>2. CASE i > m
    <3>1. i - 1 \in DOMAIN r /\ at(i - 1) = i
      BY <1>1, <2>2
    <3> QED BY <3>1
  <2> QED BY <1>1, <2>1, <2>2
<1> HIDE DEF at
<1>5. Distinct(r)
  BY <1>2, <1>3 DEF Distinct
<1>6. ToSet(r) = ToSet(q) \ {q[m]}
  BY <1>1, <1>2, <1>4 DEF Distinct, ToSet
<1> QED BY <1>1, <1>5, <1>6

LEMMA InsertList ==
  ASSUME NEW q \in Seq(Timers), Distinct(q), NEW m \in 1 .. Len(q) + 1,
         NEW w \in Timers \ ToSet(q), NEW r, Inserted(r, q, m, w)
  PROVE  r \in Seq(Timers) /\ Distinct(r) /\ ToSet(r) = ToSet(q) \cup {w}
<1> DEFINE at(k) == IF k < m THEN k ELSE k + 1
<1>1. r \in Seq(Timers) /\ DOMAIN r = 1 .. Len(q) + 1 /\ DOMAIN q = 1 .. Len(q) /\ Len(q) \in Nat
  BY DEF Inserted
<1>2. \A k \in DOMAIN q : at(k) \in DOMAIN r /\ at(k) # m /\ r[at(k)] = q[k]
  BY <1>1 DEF Inserted
<1>3. m \in DOMAIN r /\ r[m] = w /\ \A k \in DOMAIN q : q[k] # w
  BY <1>1 DEF Inserted, ToSet
<1>4. \A i \in DOMAIN r \ {m} : \E k \in DOMAIN q : at(k) = i
  <2> SUFFICES ASSUME NEW i \in DOMAIN r \ {m} PROVE \E k \in DOMAIN q : at(k) = i
    OBVIOUS
  <2>1. CASE i < m
    <3>1. i \in DOMAIN q /\ at(i) = i
      BY <1>1, <2>1
    <3> QED BY <3>1
  <2>2. CASE i > m
    <3>1. i - 1 \in DOMAIN q /\ at(i - 1) = i
      BY <1>1, <2>2
    <3> QED BY <3>1
  <2> QED BY <1>1, <2>1, <2>2
<1> HIDE DEF at
<1>5. Distinct(r)
  <2> SUFFICES ASSUME NEW i \in DOMAIN r, NEW j \in DOMAIN r, r[i] = r[j] PROVE i = j
    BY DEF Distinct
  <2>1. CASE i = m \/ j = m
    BY <1>2, <1>3, <1>4, <2>1
  <2>2. CASE i # m /\ j # m
    BY <1>2, <1>4, <2>2 DEF Distinct
  <2> QED BY <2>1, <2>2
<1>6. ToSet(r) = ToSet(q) \cup {w}
  BY <1>1, <1>2, <1>3, <1>4 DEF ToSet
<1> QED BY <1>1, <1>5, <1>6

(* sq_addlast() *)
LEMMA AppendList ==
  ASSUME NEW T, NEW q \in Seq(T), Distinct(q), NEW w \in T \ ToSet(q)
  PROVE  /\ Append(q, w) \in Seq(T) /\ Distinct(Append(q, w))
         /\ ToSet(Append(q, w)) = ToSet(q) \cup {w} /\ Len(Append(q, w)) = Len(q) + 1
<1>1. /\ Append(q, w) \in Seq(T) /\ DOMAIN Append(q, w) = 1 .. Len(q) + 1
      /\ DOMAIN q = 1 .. Len(q) /\ Len(q) \in Nat /\ Len(Append(q, w)) = Len(q) + 1
      /\ Append(q, w)[Len(q) + 1] = w /\ \A k \in 1 .. Len(q) : Append(q, w)[k] = q[k]
  OBVIOUS
<1>2. \A k \in 1 .. Len(q) + 1 : k = Len(q) + 1 \/ k \in 1 .. Len(q)
  BY <1>1
<1>3. \A k \in 1 .. Len(q) : q[k] # w
  BY <1>1 DEF ToSet
<1>4. Distinct(Append(q, w))
  BY <1>1, <1>2, <1>3 DEF Distinct
<1>5. ToSet(Append(q, w)) = ToSet(q) \cup {w}
  BY <1>1, <1>2 DEF ToSet
<1> QED BY <1>1, <1>4, <1>5

(* The place of a timer in g_wdactivelist *)
LEMMA IndexOfIs ==
  ASSUME active \in Seq(Timers), NEW w \in ToSet(active)
  PROVE  IndexOf(w) \in 1 .. Len(active) /\ active[IndexOf(w)] = w
<1> DEFINE I == {i \in 1 .. Len(active) : active[i] = w}
<1>1. I # {} /\ I \in SUBSET Nat
  BY DEF ToSet
<1>2. IndexOf(w) = Min(I)
  BY <1>1 DEF IndexOf, SelectInSeq
<1>3. Min(I) \in I
  <2> HIDE DEF I
  <2> QED BY <1>1, MinOfSet
<1> QED BY <1>2, <1>3

-----------------------------------------------------------------------------
(* The lags *)
LEMMA Numbers ==
  /\ MaxLag \in Nat /\ Delays \subseteq Nat
  /\ \A d \in Delays : DelayTicks(d) \in 1 .. MaxLag
<1>0. INT32_MAX \in Nat
  BY SMT DEF INT32_MAX
<1>1. Delays \subseteq Nat /\ Delays # {} /\ \A d \in Delays : d <= INT32_MAX
  BY <1>0, WdogAssumption
<1> DEFINE B == {k \in Nat : \A y \in Delays : y <= k}
<1>2. B \in SUBSET Nat /\ INT32_MAX \in B
  BY <1>0, <1>1
<1>3. \A k \in Nat : k \in B <=> \A y \in Delays : y <= k
  OBVIOUS
<1> HIDE DEF B
<1>4. PICK m \in B : \A y \in B : m <= y
  BY <1>2, MinOfSet
<1>5. m \in Nat /\ \A y \in Delays : y <= m
  BY <1>2, <1>3, <1>4
<1>6. m \in Delays
  <2> SUFFICES ASSUME m \notin Delays PROVE FALSE
    OBVIOUS
  <2>1. \A y \in Delays : y < m
    BY <1>1, <1>5
  <2>0. PICK z \in Delays : z < m /\ z \in Nat
    BY <1>1, <2>1
  <2>2. PICK k \in Nat : m = k + 1
    <3>1. m - 1 \in Nat /\ m = (m - 1) + 1
      BY <1>5, <2>0
    <3> QED BY <3>1
  <2>3. \A y \in Delays : y <= k
    BY <1>1, <2>1, <2>2
  <2>4. k \in B
    BY <1>3, <2>3
  <2> QED BY <1>4, <2>2, <2>4
<1>7. Max(Delays) \in Delays /\ \A y \in Delays : Max(Delays) >= y
  <2>1. \E x \in Delays : \A y \in Delays : x >= y
    BY <1>1, <1>5, <1>6
  <2> QED BY <2>1 DEF Max
<1>8. MaxLag = Max(Delays) + 1
  BY DEF MaxLag
<1>9. MaxLag \in Nat /\ MaxLag >= 1 /\ \A y \in Delays : y + 1 <= MaxLag
  <2>1. PICK x \in Nat : x = Max(Delays) /\ \A y \in Delays : x >= y
    BY <1>1, <1>7
  <2>2. MaxLag = x + 1
    BY <1>8, <2>1
  <2> QED BY <1>1, <2>1, <2>2
<1>10. ASSUME NEW d \in Delays PROVE DelayTicks(d) \in 1 .. MaxLag
  <2>1. d \in Nat /\ d + 1 <= MaxLag
    BY <1>1, <1>9
  <2> QED BY <1>9, <2>1 DEF DelayTicks
<1> QED BY <1>1, <1>9, <1>10

LEMMA ChainSums ==
  ASSUME NEW list, NEW lags, Chain(list, lags)
  PROVE  /\ Sums(Due(list, lags), list, lags)
         /\ lags \in [Timers -> Int] /\ Len(list) \in Nat /\ DOMAIN list = 1 .. Len(list)
         /\ \A k \in 1 .. Len(list) : list[k] \in Timers /\ lags[list[k]] \in 0 .. MaxLag
<1>1. list \in Seq(Timers) /\ lags \in [Timers -> Int]
  BY Numbers DEF Chain
<1> QED BY <1>1, DueSums DEF Chain

(* A timer is due at one time only *)
LEMMA AtOnce ==
  ASSUME NEW list, NEW lags, Chain(list, lags), NEW w, NEW t, NEW u,
         At(list, lags, w, t), At(list, lags, w, u)
  PROVE  t = u
BY ChainSums DEF At, Chain, Distinct

LEMMA AtIs ==
  ASSUME NEW list, NEW lags, Chain(list, lags), NEW k \in 1 .. Len(list)
  PROVE  Due(list, lags)[k] \in 0 .. MaxLag /\ At(list, lags, list[k], Due(list, lags)[k])
<1>1. k \in 0 .. Len(list)
  BY ChainSums
<1> QED BY <1>1 DEF At, Chain

(* Removing a timer and leaving its lag to the next changes no other time *)
LagPassedOn(ls, list, lags, m) ==
  ls = IF m < Len(list)
       THEN [lags EXCEPT ![list[m]] = 0, ![list[m + 1]] = @ + lags[list[m]]]
       ELSE [lags EXCEPT ![list[m]] = 0]

LEMMA RemoveChain ==
  ASSUME NEW list, NEW lags, Chain(list, lags), NEW m \in 1 .. Len(list),
         NEW r, Removed(r, list, m, Timers), NEW ls, LagPassedOn(ls, list, lags, m)
  PROVE  /\ Chain(r, ls) /\ ToSet(r) = ToSet(list) \ {list[m]}
         /\ \A x \in Timers \ {list[m]} : \A t : At(r, ls, x, t) <=> At(list, lags, x, t)
<1> DEFINE n == Len(list)
           D == Due(list, lags)
<1>1. /\ Sums(D, list, lags) /\ lags \in [Timers -> 0 .. MaxLag] /\ n \in Nat
      /\ \A k \in 0 .. n : D[k] \in 0 .. MaxLag
      /\ \A k \in 1 .. n : list[k] \in Timers /\ lags[list[k]] \in 0 .. MaxLag
      /\ DOMAIN list = 1 .. n
  BY ChainSums DEF Chain
<1>2. /\ r \in Seq(Timers) /\ Distinct(r) /\ ToSet(r) = ToSet(list) \ {list[m]}
  BY RemoveList DEF Chain
<1>3. \A j, k \in 1 .. n : list[j] = list[k] => j = k
  BY <1>1 DEF Chain, Distinct
<1>4. \A i, j \in 0 .. n : j = i + 1 => D[j] = D[i] + lags[list[j]]
  BY <1>1 DEF Sums
<1>5. D[0] = 0
  BY <1>1 DEF Sums
<1> HIDE DEF D
<1>6. PICK a \in 0 .. n : m = a + 1
  BY <1>1
<1>7. /\ Len(r) = n - 1 /\ \A k \in 1 .. n - 1 : k < m => r[k] = list[k]
      /\ \A k \in 1 .. n - 1 : k >= m => r[k] = list[k + 1]
  BY DEF Removed
<1>8. /\ DOMAIN ls = Timers /\ ls[list[m]] = 0
      /\ \A x \in Timers : x # list[m] /\ ls[x] # lags[x] => m < n /\ x = list[m + 1]
      /\ m < n => ls[list[m + 1]] = lags[list[m + 1]] + lags[list[m]]
  <2>1. CASE m < n
    <3>1. PICK b \in 1 .. n : b = m + 1
      BY <1>1, <2>1
    <3>2. ls = [lags EXCEPT ![list[m]] = 0, ![list[b]] = @ + lags[list[m]]]
      BY <2>1, <3>1 DEF LagPassedOn
    <3>3. list[b] # list[m] /\ list[b] \in Timers /\ list[m] \in Timers
      BY <1>1, <1>3, <3>1
    <3> QED BY <1>1, <2>1, <3>1, <3>2, <3>3
  <2>2. CASE ~(m < n)
    BY <1>1, <2>2 DEF LagPassedOn
  <2> QED BY <2>1, <2>2
<1>9. \A k \in 1 .. n : k # m /\ k # m + 1 => ls[list[k]] = lags[list[k]]
  <2> SUFFICES ASSUME NEW k \in 1 .. n, k # m, k # m + 1, ls[list[k]] # lags[list[k]] PROVE FALSE
    OBVIOUS
  <2>1. list[k] # list[m] /\ list[k] \in Timers
    BY <1>1, <1>3
  <2>2. m < n /\ list[k] = list[m + 1] /\ m + 1 \in 1 .. n
    BY <1>1, <1>8, <2>1
  <2> QED BY <1>3, <2>2
<1>10. ls \in [Timers -> 0 .. MaxLag]
  <2> SUFFICES ASSUME NEW x \in Timers PROVE ls[x] \in 0 .. MaxLag
    BY <1>1, <1>8 DEF LagPassedOn
  <2>1. CASE x = list[m]
    BY <1>8, <2>1, Numbers
  <2>2. CASE x # list[m] /\ ls[x] # lags[x]
    <3>1. PICK b \in 1 .. n : b = m + 1 /\ x = list[b]
      BY <1>1, <1>8, <2>2
    <3>2. ls[x] = lags[list[b]] + lags[list[m]]
      BY <1>1, <1>8, <2>2, <3>1
    <3>3. D[b] = D[m] + lags[list[b]] /\ D[m] = D[a] + lags[list[m]]
      BY <1>1, <1>4, <1>6, <3>1
    <3>4. D[b] \in 0 .. MaxLag /\ D[a] \in 0 .. MaxLag /\ D[m] \in 0 .. MaxLag
      BY <1>1, <3>1
    <3>5. lags[list[b]] \in 0 .. MaxLag /\ lags[list[m]] \in 0 .. MaxLag
      BY <1>1
    <3>6. ls[x] = D[b] - D[a] /\ ls[x] >= 0
      BY <3>2, <3>3, <3>4, <3>5
    <3>7. MaxLag \in Nat
      BY Numbers
    <3> QED BY <3>4, <3>6, <3>7
  <2>3. CASE ls[x] = lags[x]
    BY <1>1, <2>3
  <2> QED BY <2>1, <2>2, <2>3
<1> DEFINE f == [k \in 0 .. n - 1 |-> IF k < m THEN D[k] ELSE D[k + 1]]
<1>11. \A k \in 0 .. n - 1 : f[k] \in 0 .. MaxLag
  BY <1>1
<1>12. f[0] = 0
  BY <1>1, <1>5
<1>13. ASSUME NEW i \in 0 .. n - 1, NEW j \in 0 .. n - 1, j = i + 1
       PROVE  f[j] = f[i] + ls[r[j]]
  <2>1. j \in 1 .. n - 1 /\ j \in 1 .. n /\ i \in 0 .. n /\ j \in 0 .. n
    BY <1>1, <1>13
  <2>2. CASE j < m
    <3>1. f[j] = D[j] /\ f[i] = D[i] /\ r[j] = list[j] /\ ls[list[j]] = lags[list[j]]
      BY <1>1, <1>7, <1>9, <1>13, <2>1, <2>2
    <3> QED BY <1>4, <1>13, <2>1, <3>1
  <2>3. CASE j >= m
    <3>1. PICK k \in 1 .. n : k = j + 1
      BY <1>1, <2>1
    <3>2. f[j] = D[k] /\ r[j] = list[k] /\ D[k] = D[j] + lags[list[k]]
      BY <1>1, <1>4, <1>7, <2>1, <2>3, <3>1
    <3>3. CASE j = m
      <4>1. i = a /\ f[i] = D[a] /\ D[m] = D[a] + lags[list[m]]
        BY <1>1, <1>4, <1>6, <1>13, <3>3
      <4>2. ls[list[k]] = lags[list[k]] + lags[list[m]]
        BY <1>1, <1>8, <3>1, <3>3
      <4>3. D[a] \in Int /\ D[m] \in Int /\ lags[list[k]] \in Int /\ lags[list[m]] \in Int
        BY <1>1, Numbers
      <4> QED BY <3>2, <3>3, <4>1, <4>2, <4>3
    <3>4. CASE j > m
      <4>1. f[i] = D[j] /\ ls[list[k]] = lags[list[k]]
        BY <1>1, <1>9, <1>13, <3>1, <3>4
      <4> QED BY <3>2, <4>1
    <3> QED BY <1>1, <2>3, <3>3, <3>4
  <2> QED BY <1>1, <2>2, <2>3
<1>14. f \in [0 .. n - 1 -> Int]
  BY <1>11, Numbers
<1>15. \A k \in 1 .. n - 1 : f[k] = IF k < m THEN D[k] ELSE D[k + 1]
  OBVIOUS
<1> HIDE DEF f
<1>16. Sums(f, r, ls)
  BY <1>7, <1>12, <1>13, <1>14 DEF Sums
<1>17. Due(r, ls) = f
  <2>1. ls \in [Timers -> Int]
    BY <1>10, Numbers
  <2> QED BY <1>2, <1>16, <2>1, DueIs
<1>18. Chain(r, ls)
  BY <1>2, <1>7, <1>10, <1>11, <1>17 DEF Chain
<1>19. ASSUME NEW x \in Timers \ {list[m]}, NEW t
       PROVE  At(r, ls, x, t) <=> At(list, lags, x, t)
  <2>1. ASSUME At(r, ls, x, t) PROVE At(list, lags, x, t)
    <3>1. PICK k \in 1 .. n - 1 : r[k] = x /\ f[k] = t
      BY <1>7, <1>17, <2>1 DEF At
    <3>2. PICK j \in 1 .. n : j = IF k < m THEN k ELSE k + 1
      BY <1>1
    <3>3. list[j] = x /\ D[j] = t
      BY <1>7, <1>15, <3>1, <3>2
    <3> QED BY <3>3 DEF At, D
  <2>2. ASSUME At(list, lags, x, t) PROVE At(r, ls, x, t)
    <3>1. PICK j \in 1 .. n : list[j] = x /\ D[j] = t
      BY <2>2 DEF At, D
    <3>2. j # m
      BY <3>1
    <3>3. PICK k \in 1 .. n - 1 : j = IF k < m THEN k ELSE k + 1
      <4>1. CASE j < m
        <5>1. j \in 1 .. n - 1
          BY <1>1, <4>1
        <5> QED BY <4>1, <5>1
      <4>2. CASE j > m
        <5>1. j - 1 \in 1 .. n - 1 /\ ~(j - 1 < m) /\ j = (j - 1) + 1
          BY <1>1, <4>2
        <5> QED BY <5>1
      <4> QED BY <1>1, <3>2, <4>1, <4>2
    <3>4. r[k] = x /\ f[k] = t
      BY <1>7, <1>15, <3>1, <3>3
    <3> QED BY <1>7, <1>17, <3>4 DEF At
  <2> QED BY <2>1, <2>2
<1> QED BY <1>2, <1>18, <1>19

(* Inserting a timer and taking its lag from the next: it is due when it   *)
(* should be, and no other time changes                                    *)
LagSplit(ls, list, lags, m, w, d) ==
  ls = IF m <= Len(list) THEN [lags EXCEPT ![w] = d, ![list[m]] = @ - d]
       ELSE [lags EXCEPT ![w] = d]

(* Place m, after place a, is where wd_start() stops *)
Place(list, lags, m, a, d, ticks) ==
  /\ m \in 1 .. Len(list) + 1 /\ a \in 0 .. Len(list) /\ m = a + 1
  /\ Due(list, lags)[a] <= ticks /\ d = ticks - Due(list, lags)[a]
  /\ m <= Len(list) => Due(list, lags)[m] > ticks

LEMMA InsertChain ==
  ASSUME NEW list, NEW lags, Chain(list, lags),
         NEW w \in Timers \ ToSet(list), NEW ticks \in 1 .. MaxLag,
         NEW m, NEW a, NEW d, Place(list, lags, m, a, d, ticks),
         NEW r, Inserted(r, list, m, w), NEW ls, LagSplit(ls, list, lags, m, w, d)
  PROVE  /\ Chain(r, ls) /\ ToSet(r) = ToSet(list) \cup {w} /\ At(r, ls, w, ticks)
         /\ \A x \in Timers \ {w} : \A t : At(r, ls, x, t) <=> At(list, lags, x, t)
<1> DEFINE n == Len(list)
           D == Due(list, lags)
<1>0. m \in 1 .. n + 1 /\ a \in 0 .. n /\ m = a + 1
  BY DEF Place
<1> USE <1>0
<1>1. /\ Sums(D, list, lags) /\ lags \in [Timers -> 0 .. MaxLag] /\ n \in Nat
      /\ \A k \in 0 .. n : D[k] \in 0 .. MaxLag
      /\ \A k \in 1 .. n : list[k] \in Timers /\ lags[list[k]] \in 0 .. MaxLag
      /\ DOMAIN list = 1 .. n
  BY ChainSums DEF Chain
<1>2. r \in Seq(Timers) /\ Distinct(r) /\ ToSet(r) = ToSet(list) \cup {w}
  BY InsertList DEF Chain
<1>3. \A j, k \in 1 .. n : list[j] = list[k] => j = k
  BY <1>1 DEF Chain, Distinct
<1>4. \A i, j \in 0 .. n : j = i + 1 => D[j] = D[i] + lags[list[j]]
  BY <1>1 DEF Sums
<1>5. D[0] = 0
  BY <1>1 DEF Sums
<1>6. D[a] <= ticks /\ d = ticks - D[a] /\ (m <= n => D[m] > ticks)
  BY DEF Place
<1> HIDE DEF D
<1>7. /\ Len(r) = n + 1 /\ \A k \in 1 .. n : k < m => r[k] = list[k]
      /\ r[m] = w /\ \A k \in 1 .. n : k >= m => r[k + 1] = list[k]
  BY DEF Inserted
<1>8. \A k \in 1 .. n : list[k] # w
  BY <1>1 DEF ToSet
<1>9. d \in 0 .. MaxLag
  <2>1. D[a] \in 0 .. MaxLag /\ MaxLag \in Nat
    BY <1>1, Numbers
  <2> QED BY <1>6, <2>1
<1>10. /\ DOMAIN ls = Timers /\ ls = [x \in Timers |-> ls[x]] /\ ls[w] = d
       /\ \A x \in Timers : x # w /\ ls[x] # lags[x] => m <= n /\ x = list[m]
       /\ m <= n => ls[list[m]] = lags[list[m]] - d
  <2>1. CASE m <= n
    <3>1. list[m] # w /\ list[m] \in Timers
      BY <1>1, <1>8, <2>1
    <3> QED BY <1>1, <2>1, <3>1 DEF LagSplit
  <2>2. CASE ~(m <= n)
    BY <1>1, <2>2 DEF LagSplit
  <2> QED BY <2>1, <2>2
<1>11. \A k \in 1 .. n : k # m => ls[list[k]] = lags[list[k]]
  <2> SUFFICES ASSUME NEW k \in 1 .. n, k # m, ls[list[k]] # lags[list[k]] PROVE FALSE
    OBVIOUS
  <2>1. list[k] # w /\ list[k] \in Timers
    BY <1>1, <1>8
  <2>2. m <= n /\ list[k] = list[m] /\ m \in 1 .. n
    BY <1>1, <1>10, <2>1
  <2> QED BY <1>3, <2>2
<1>12. m <= n => /\ m \in 1 .. n /\ D[m] = D[a] + lags[list[m]]
                 /\ ls[list[m]] = D[m] - ticks /\ ls[list[m]] \in 0 .. MaxLag
  <2> SUFFICES ASSUME m <= n
               PROVE  /\ m \in 1 .. n /\ D[m] = D[a] + lags[list[m]]
                      /\ ls[list[m]] = D[m] - ticks /\ ls[list[m]] \in 0 .. MaxLag
    OBVIOUS
  <2>1. m \in 1 .. n /\ m \in 0 .. n
    BY <1>1
  <2>2. D[m] = D[a] + lags[list[m]] /\ ls[list[m]] = lags[list[m]] - d
    BY <1>4, <1>10, <2>1
  <2>3. /\ D[m] \in 0 .. MaxLag /\ D[a] \in 0 .. MaxLag /\ lags[list[m]] \in 0 .. MaxLag
        /\ D[m] > ticks /\ MaxLag \in Nat
    BY <1>1, <1>6, <2>1, Numbers
  <2>4. ls[list[m]] = D[m] - ticks
    BY <1>6, <2>2, <2>3
  <2> QED BY <2>1, <2>2, <2>3, <2>4
<1>13. ls \in [Timers -> 0 .. MaxLag]
  <2> SUFFICES ASSUME NEW x \in Timers PROVE ls[x] \in 0 .. MaxLag
    BY <1>10
  <2>1. CASE x = w
    BY <1>9, <1>10, <2>1
  <2>2. CASE x # w /\ ls[x] # lags[x]
    BY <1>10, <1>12, <2>2
  <2>3. CASE ls[x] = lags[x]
    BY <1>1, <2>3
  <2> QED BY <2>1, <2>2, <2>3
<1> DEFINE f == [k \in 0 .. n + 1 |-> IF k < m THEN D[k] ELSE IF k = m THEN ticks ELSE D[k - 1]]
<1>14. f \in [0 .. n + 1 -> 0 .. MaxLag]
  BY <1>1
<1>15. /\ f[0] = 0 /\ f[m] = ticks
       /\ \A k \in 0 .. n : k < m => f[k] = D[k]
  BY <1>1, <1>5
<1>16. ASSUME NEW k \in 0 .. n, k >= m PROVE f[k + 1] = D[k]
  <2>1. k + 1 \in 0 .. n + 1 /\ ~(k + 1 < m) /\ k + 1 # m /\ (k + 1) - 1 = k
    BY <1>1, <1>16
  <2> QED BY <2>1
<1> HIDE DEF f
<1>17. ASSUME NEW i \in 0 .. n + 1, NEW j \in 0 .. n + 1, j = i + 1
       PROVE  f[j] = f[i] + ls[r[j]]
  <2>1. i \in 0 .. n /\ j \in 1 .. n + 1
    BY <1>1, <1>17
  <2>2. CASE j < m
    <3>1. j \in 1 .. n /\ j \in 0 .. n /\ i < m /\ j # m
      BY <1>1, <1>17, <2>1, <2>2
    <3>2. f[j] = D[j] /\ f[i] = D[i] /\ r[j] = list[j] /\ ls[list[j]] = lags[list[j]]
      BY <1>7, <1>11, <1>15, <2>1, <2>2, <3>1
    <3> QED BY <1>4, <1>17, <2>1, <3>1, <3>2
  <2>3. CASE j = m
    <3>1. i = a /\ f[j] = ticks /\ f[i] = D[a] /\ ls[r[j]] = d
      BY <1>7, <1>10, <1>15, <1>17, <2>1, <2>3
    <3>2. D[a] \in 0 .. MaxLag
      BY <1>1
    <3> QED BY <1>6, <3>1, <3>2
  <2>4. CASE j > m
    <3>1. i \in 1 .. n /\ i >= m /\ r[j] = list[i] /\ f[j] = D[i]
      <4>1. i \in 1 .. n /\ i >= m
        BY <1>1, <1>17, <2>1, <2>4
      <4> QED BY <1>7, <1>16, <1>17, <2>1, <4>1
    <3>2. CASE i = m
      <4>1. f[i] = ticks /\ ls[r[j]] = D[m] - ticks /\ D[m] \in 0 .. MaxLag
        BY <1>1, <1>12, <1>15, <2>1, <3>1, <3>2
      <4> QED BY <3>1, <3>2, <4>1
    <3>3. CASE i > m
      <4>1. PICK h \in 0 .. n : i = h + 1 /\ h >= m
        <5>1. i - 1 \in 0 .. n /\ i = (i - 1) + 1 /\ i - 1 >= m
          BY <1>1, <2>1, <3>3
        <5> QED BY <5>1
      <4>2. f[i] = D[h] /\ ls[r[j]] = lags[list[i]]
        BY <1>11, <1>16, <3>1, <3>3, <4>1
      <4> QED BY <1>4, <2>1, <3>1, <4>1, <4>2
    <3> QED BY <1>1, <3>1, <3>2, <3>3
  <2> QED BY <1>1, <2>2, <2>3, <2>4
<1>18. Sums(f, r, ls)
  <2>1. f \in [0 .. n + 1 -> Int]
    BY <1>14, Numbers
  <2> QED BY <1>7, <1>15, <1>17, <2>1 DEF Sums
<1>19. Due(r, ls) = f
  <2>1. ls \in [Timers -> Int]
    BY <1>13, Numbers
  <2> QED BY <1>2, <1>18, <2>1, DueIs
<1>20. Chain(r, ls)
  BY <1>2, <1>7, <1>13, <1>14, <1>19 DEF Chain
<1>21. At(r, ls, w, ticks)
  BY <1>7, <1>15, <1>19 DEF At
<1>22. ASSUME NEW x \in Timers \ {w}, NEW t
       PROVE  At(r, ls, x, t) <=> At(list, lags, x, t)
  <2>1. ASSUME At(r, ls, x, t) PROVE At(list, lags, x, t)
    <3>1. PICK k \in 1 .. n + 1 : r[k] = x /\ f[k] = t
      BY <1>7, <1>19, <2>1 DEF At
    <3>2. k # m
      BY <1>7, <3>1
    <3>3. CASE k < m
      <4>1. k \in 1 .. n /\ k \in 0 .. n
        BY <1>1, <3>3
      <4>2. list[k] = x /\ D[k] = t
        BY <1>7, <1>15, <3>1, <3>3, <4>1
      <4> QED BY <4>1, <4>2 DEF At, D
    <3>4. CASE k > m
      <4>1. PICK j \in 1 .. n : k = j + 1 /\ j >= m
        <5>1. k - 1 \in 1 .. n /\ k = (k - 1) + 1 /\ k - 1 >= m
          BY <1>1, <3>4
        <5> QED BY <5>1
      <4>2. j \in 0 .. n
        BY <1>1
      <4>3. list[j] = x /\ D[j] = t
        BY <1>7, <1>16, <3>1, <4>1, <4>2
      <4> QED BY <4>3 DEF At, D
    <3> QED BY <1>1, <3>2, <3>3, <3>4
  <2>2. ASSUME At(list, lags, x, t) PROVE At(r, ls, x, t)
    <3>1. PICK j \in 1 .. n : list[j] = x /\ D[j] = t
      BY <2>2 DEF At, D
    <3>2. j \in 0 .. n
      BY <1>1
    <3>3. CASE j < m
      <4>1. j \in 1 .. n + 1 /\ r[j] = x /\ f[j] = t
        BY <1>1, <1>7, <1>15, <3>1, <3>2, <3>3
      <4> QED BY <1>7, <1>19, <4>1 DEF At
    <3>4. CASE j >= m
      <4>1. j + 1 \in 1 .. n + 1 /\ r[j + 1] = x /\ f[j + 1] = t
        BY <1>1, <1>7, <1>16, <3>1, <3>2, <3>4
      <4> QED BY <1>7, <1>19, <4>1 DEF At
    <3> QED BY <1>1, <3>3, <3>4
  <2> QED BY <2>1, <2>2
<1> QED BY <1>2, <1>20, <1>21, <1>22

-----------------------------------------------------------------------------
(* What the operations do to the times at which timers are due.  Of all    *)
(* but w nothing changes                                                   *)
Same(list, lags, r, ls, w) ==
  \A x \in Timers \ {w} : \A t : At(r, ls, x, t) <=> At(list, lags, x, t)

LEMMA UnlinkIs ==
  ASSUME Chain(active, lag), NEW w \in ToSet(active)
  PROVE  /\ Chain(Unlink(w).list, Unlink(w).lags)
         /\ ToSet(Unlink(w).list) = ToSet(active) \ {w}
         /\ Same(active, lag, Unlink(w).list, Unlink(w).lags, w)
<1>1. active \in Seq(Timers)
  BY DEF Chain
<1>2. PICK m \in 1 .. Len(active) : m = IndexOf(w) /\ active[m] = w
  BY <1>1, IndexOfIs
<1> DEFINE r == Unlink(w).list
           ls == Unlink(w).lags
<1>3. Removed(r, active, m, Timers)
  BY <1>1, <1>2, RemoveAtIs DEF Unlink
<1>4. LagPassedOn(ls, active, lag, m)
  BY <1>2 DEF Unlink, LagPassedOn
<1> HIDE DEF r, ls
<1>5. /\ Chain(r, ls) /\ ToSet(r) = ToSet(active) \ {active[m]}
      /\ \A x \in Timers \ {active[m]} : \A t : At(r, ls, x, t) <=> At(active, lag, x, t)
  BY <1>3, <1>4, RemoveChain
<1> QED BY <1>2, <1>5 DEF r, ls, Same

LEMMA LinkIs ==
  ASSUME NEW list, NEW lags, Chain(list, lags), NEW w \in Timers \ ToSet(list),
         NEW ticks \in 1 .. MaxLag
  PROVE  LET l == Link(list, lags, w, ticks) IN
         /\ Chain(l.list, l.lags) /\ ToSet(l.list) = ToSet(list) \cup {w}
         /\ At(l.list, l.lags, w, ticks) /\ Same(list, lags, l.list, l.lags, w)
<1> DEFINE n == Len(list)
           D == Due(list, lags)
           later == {i \in 1 .. n : D[i] > ticks}
           p == IF later # {} THEN Min(later) ELSE n + 1
           r == Link(list, lags, w, ticks).list
           ls == Link(list, lags, w, ticks).lags
<1>1. list \in Seq(Timers) /\ n \in Nat /\ \A k \in 0 .. n : D[k] \in 0 .. MaxLag
  BY DEF Chain
<1>2. D[0] = 0
  BY ChainSums DEF Sums
<1>3. later \subseteq 1 .. n /\ later \in SUBSET Nat
  BY <1>1
<1>4. \A i \in 1 .. n : i \in later <=> D[i] > ticks
  OBVIOUS
<1>5. r = InsertAt(list, p, w)
  BY DEF Link
<1>6. ls = IF later # {} THEN [lags EXCEPT ![w] = ticks - D[p - 1], ![list[p]] = @ - (ticks - D[p - 1])]
           ELSE [lags EXCEPT ![w] = ticks - D[p - 1]]
  BY DEF Link
<1> HIDE DEF later, r, ls, D
<1>7. /\ p \in 1 .. n + 1 /\ (later # {} <=> p <= n) /\ (p <= n => D[p] > ticks)
      /\ \A k \in 1 .. n : k < p => ~(D[k] > ticks)
  <2>1. CASE later = {}
    BY <1>1, <1>4, <2>1
  <2>2. CASE later # {}
    <3>1. Min(later) \in later /\ \A y \in later : Min(later) <= y
      BY <1>3, <2>2, MinOfSet
    <3>2. PICK m \in 1 .. n : m = Min(later) /\ m \in later /\ \A y \in later : m <= y
      BY <1>3, <3>1
    <3>3. p = m
      BY <2>2, <3>2
    <3> HIDE DEF p
    <3> QED BY <1>1, <1>4, <2>2, <3>2, <3>3
  <2> QED BY <2>1, <2>2
<1> HIDE DEF p
<1>8. PICK a \in 0 .. n : p = a + 1 /\ a = p - 1
  BY <1>1, <1>7
<1>9. D[a] <= ticks
  <2>1. CASE a = 0
    BY <1>2, <2>1
  <2>2. CASE a # 0
    <3>1. a \in 1 .. n /\ a < p
      BY <1>1, <1>8, <2>2
    <3>2. ~(D[a] > ticks) /\ D[a] \in 0 .. MaxLag
      BY <1>1, <1>7, <3>1
    <3> QED BY <3>2, Numbers
  <2> QED BY <2>1, <2>2
<1> DEFINE d == ticks - D[a]
<1>10. LagSplit(ls, list, lags, p, w, d)
  BY <1>6, <1>7, <1>8 DEF LagSplit
<1>11. Inserted(r, list, p, w)
  BY <1>1, <1>5, <1>7, InsertAtIs
<1>12. d = ticks - D[a]
  OBVIOUS
<1> HIDE DEF d
<1>13. /\ Chain(r, ls) /\ ToSet(r) = ToSet(list) \cup {w} /\ At(r, ls, w, ticks)
       /\ \A x \in Timers \ {w} : \A t : At(r, ls, x, t) <=> At(list, lags, x, t)
  <2>1. Place(list, lags, p, a, d, ticks)
    BY <1>7, <1>8, <1>9, <1>12 DEF D, Place
  <2> QED BY <1>10, <1>11, <2>1, InsertChain
<1> QED BY <1>13 DEF r, ls, Same

LEMMA StartIs ==
  ASSUME ActiveInv, NEW w \in Timers, NEW d \in Delays, wd_start(w, d)
  PROVE  /\ Chain(active', lag') /\ ToSet(active') = flagged' /\ flagged' = flagged \cup {w}
         /\ At(active', lag', w, DelayTicks(d)) /\ Same(active, lag, active', lag', w)
<1> DEFINE u == IF w \in flagged THEN Unlink(w) ELSE [list |-> active, lags |-> lag]
           l == Link(u.list, u.lags, w, DelayTicks(d))
<1>1. Chain(u.list, u.lags) /\ ToSet(u.list) = flagged \ {w} /\ Same(active, lag, u.list, u.lags, w)
  <2>1. CASE w \in flagged
    BY <2>1, UnlinkIs DEF ActiveInv
  <2>2. CASE w \notin flagged
    BY <2>2 DEF ActiveInv, Same
  <2> QED BY <2>1, <2>2
<1>2. active' = l.list /\ lag' = l.lags /\ flagged' = flagged \cup {w}
  BY DEF wd_start
<1> HIDE DEF u
<1>3. DelayTicks(d) \in 1 .. MaxLag
  BY Numbers
<1>4. /\ Chain(l.list, l.lags) /\ ToSet(l.list) = ToSet(u.list) \cup {w}
      /\ At(l.list, l.lags, w, DelayTicks(d)) /\ Same(u.list, u.lags, l.list, l.lags, w)
  BY <1>1, <1>3, LinkIs
<1> HIDE DEF l
<1> QED BY <1>1, <1>2, <1>4 DEF Same

LEMMA StopIs ==
  ASSUME ActiveInv, NEW w \in Timers, Stop(w)
  PROVE  /\ Chain(active', lag') /\ ToSet(active') = flagged' /\ flagged' = flagged \ {w}
         /\ Same(active, lag, active', lag', w)
<1>1. CASE w \in flagged
  BY <1>1, UnlinkIs DEF ActiveInv, Stop
<1>2. CASE w \notin flagged
  BY <1>2 DEF ActiveInv, Stop, Same
<1> QED BY <1>1, <1>2

(* The head of the list is due first *)
LEMMA Monotone ==
  ASSUME NEW list, NEW lags, Chain(list, lags), NEW k \in 1 .. Len(list)
  PROVE  Due(list, lags)[k] >= lags[list[1]]
<1> DEFINE n == Len(list)
           D == Due(list, lags)
           S == {0} \cup {i \in 1 .. n : D[i] >= lags[list[1]]}
<1>1. /\ n \in Nat /\ D[0] = 0 /\ \A i, j \in 0 .. n : j = i + 1 => D[j] = D[i] + lags[list[j]]
      /\ \A i \in 0 .. n : D[i] \in 0 .. MaxLag
      /\ \A i \in 1 .. n : lags[list[i]] \in 0 .. MaxLag
  BY ChainSums DEF Sums, Chain
<1> HIDE DEF D
<1>2. ASSUME NEW i \in 0 .. n, NEW j \in 0 .. n, i \in S, j = i + 1 PROVE j \in S
  <2>1. /\ j \in 1 .. n /\ 1 \in 1 .. n /\ D[j] = D[i] + lags[list[j]]
        /\ D[i] \in Nat /\ lags[list[j]] \in Nat /\ lags[list[1]] \in Nat
    BY <1>1, <1>2, Numbers
  <2>2. CASE i = 0
    <3>1. j = 1 /\ D[j] = lags[list[1]]
      BY <1>1, <1>2, <2>1, <2>2
    <3> QED BY <2>1, <3>1
  <2>3. CASE i # 0
    <3>1. D[i] >= lags[list[1]]
      BY <1>2, <2>3
    <3> QED BY <2>1, <3>1
  <2> QED BY <2>2, <2>3
<1>3. 0 \in S
  OBVIOUS
<1>4. k # 0 /\ k \in 0 .. n
  BY <1>1
<1>5. k \in S => D[k] >= lags[list[1]]
  BY <1>4
<1> HIDE DEF S
<1>6. 0 .. n \subseteq S
  BY <1>1, <1>2, <1>3, Upto
<1> QED BY <1>4, <1>5, <1>6 DEF D

(* The head counts down, and with it every timer of the list *)
LEMMA TickIs ==
  ASSUME ActiveInv, wd_timer
  PROVE  /\ Chain(active', lag') /\ active' = active /\ flagged' = flagged
         /\ \A x \in Timers, t \in Int : At(active, lag, x, t) => At(active', lag', x, t - 1)
         /\ irq' = "none" => \A x \in Timers, t \in Int : At(active', lag', x, t) => t > 0
<1> DEFINE n == Len(active)
           D == Due(active, lag)
           h == active[1]
<1>0. Chain(active, lag) /\ irq = "none" /\ active # <<>> /\ active' = active /\ flagged' = flagged
  BY DEF ActiveInv, wd_timer
<1>1. /\ Sums(D, active, lag) /\ lag \in [Timers -> 0 .. MaxLag] /\ n \in Nat
      /\ \A k \in 0 .. n : D[k] \in 0 .. MaxLag
      /\ \A k \in 1 .. n : active[k] \in Timers /\ lag[active[k]] \in 0 .. MaxLag
      /\ DOMAIN active = 1 .. n /\ active \in Seq(Timers) /\ MaxLag \in Nat
  BY <1>0, ChainSums, Numbers DEF Chain
<1>2. 1 \in 1 .. n /\ Head(active) = h
  BY <1>0, <1>1
<1>3. D[0] = 0 /\ \A i, j \in 0 .. n : j = i + 1 => D[j] = D[i] + lag[active[j]]
  BY <1>1 DEF Sums
<1>4. \A k \in 1 .. n : D[k] > 0
  <2> SUFFICES ASSUME NEW k \in 1 .. n PROVE D[k] > 0
    OBVIOUS
  <2>1. D[k] \in Int /\ active[k] \in Timers /\ At(active, lag, active[k], D[k])
    BY <1>0, <1>1, AtIs
  <2> QED BY <1>0, <2>1 DEF ActiveInv
<1>5. D[1] = lag[h]
  <2>1. 0 \in 0 .. n /\ 1 \in 0 .. n /\ 1 = 0 + 1
    BY <1>1, <1>2
  <2>2. D[1] = 0 + lag[h]
    BY <1>3, <2>1
  <2> QED BY <1>1, <1>2, <2>2
<1>6. \A k \in 2 .. n : active[k] # h
  <2> SUFFICES ASSUME NEW k \in 2 .. n PROVE active[k] # active[1]
    BY <1>2
  <2>1. k \in DOMAIN active /\ 1 \in DOMAIN active /\ k # 1
    BY <1>1, <1>2
  <2>2. Distinct(active)
    BY DEF ActiveInv, Chain
  <2> QED BY <2>1, <2>2 DEF Distinct
<1> HIDE DEF D, h
<1>7. /\ lag' = [lag EXCEPT ![h] = @ - 1] /\ irq' = IF lag'[h] <= 0 THEN "loop" ELSE "none"
  BY <1>2 DEF wd_timer
<1>8. h \in Timers /\ active[1] = h
  BY <1>1, <1>2 DEF h
<1>9. lag' \in [Timers -> 0 .. MaxLag]
  <2>1. lag[h] - 1 \in 0 .. MaxLag
    BY <1>1, <1>2, <1>4, <1>5, <1>8
  <2> QED BY <1>1, <1>7, <2>1
<1>10. lag'[h] = lag[h] - 1 /\ \A k \in 2 .. n : lag'[active[k]] = lag[active[k]]
  BY <1>1, <1>6, <1>7, <1>8
<1> DEFINE f == [k \in 0 .. n |-> IF k = 0 THEN 0 ELSE D[k] - 1]
<1>11. f \in [0 .. n -> 0 .. MaxLag] /\ f[0] = 0 /\ \A k \in 1 .. n : f[k] = D[k] - 1
  BY <1>1, <1>4
<1> HIDE DEF f
<1>12. ASSUME NEW i \in 0 .. n, NEW j \in 0 .. n, j = i + 1 PROVE f[j] = f[i] + lag'[active[j]]
  <2>1. CASE i = 0
    <3>1. j = 1 /\ f[j] = D[1] - 1 /\ f[i] = 0
      BY <1>2, <1>11, <1>12, <2>1
    <3>2. lag[h] \in Int
      BY <1>1, <1>8
    <3> QED BY <1>5, <1>8, <1>10, <3>1, <3>2
  <2>2. CASE i # 0
    <3>1. i \in 1 .. n /\ j \in 1 .. n /\ j \in 2 .. n
      BY <1>1, <1>12, <2>2
    <3>2. /\ f[j] = D[j] - 1 /\ f[i] = D[i] - 1 /\ D[j] = D[i] + lag[active[j]]
          /\ lag'[active[j]] = lag[active[j]]
      BY <1>3, <1>10, <1>11, <1>12, <3>1
    <3>3. D[i] \in Int /\ lag[active[j]] \in Int
      BY <1>1, <3>1
    <3> QED BY <3>2, <3>3
  <2> QED BY <2>1, <2>2
<1>13. Sums(f, active', lag')
  <2>1. f \in [0 .. n -> Int]
    BY <1>1, <1>11
  <2> QED BY <1>0, <1>11, <1>12, <2>1 DEF Sums
<1>14. Due(active', lag') = f
  <2>1. active' \in Seq(Timers) /\ lag' \in [Timers -> Int]
    BY <1>0, <1>1, <1>9
  <2> QED BY <1>13, <2>1, DueIs
<1>15. Chain(active', lag')
  BY <1>0, <1>1, <1>9, <1>11, <1>14 DEF Chain
<1>16. ASSUME NEW x \in Timers, NEW t \in Int, At(active, lag, x, t) PROVE At(active', lag', x, t - 1)
  <2>1. PICK k \in 1 .. n : active[k] = x /\ D[k] = t
    BY <1>16 DEF At, D
  <2>2. f[k] = t - 1
    BY <1>11, <2>1
  <2> QED BY <1>0, <1>14, <2>1, <2>2 DEF At
<1>17. ASSUME irq' = "none", NEW x \in Timers, NEW t \in Int, At(active', lag', x, t) PROVE t > 0
  <2>1. PICK k \in 1 .. Len(active') : Due(active', lag')[k] = t
    BY <1>17 DEF At
  <2>2. t >= lag'[h]
    BY <1>0, <1>8, <1>15, <2>1, Monotone
  <2>3. lag'[h] \in Nat /\ ~(lag'[h] <= 0)
    BY <1>7, <1>8, <1>9, <1>17
  <2> QED BY <2>2, <2>3
<1> QED BY <1>0, <1>15, <1>16, <1>17

(* The head is taken off the list when its time is up *)
LEMMA ExpireIs ==
  ASSUME ActiveInv, Expire
  PROVE  \E h \in flagged :
           /\ Chain(active', lag') /\ ToSet(active') = flagged' /\ flagged' = flagged \ {h}
           /\ At(active, lag, h, 0) /\ Same(active, lag, active', lag', h)
<1> DEFINE h == active[1]
<1>0. Chain(active, lag) /\ active # <<>> /\ active \in Seq(Timers) /\ ToSet(active) = flagged
  BY DEF ActiveInv, Expire, Chain
<1>1. 1 \in 1 .. Len(active) /\ Head(active) = h /\ Removed(Tail(active), active, 1, Timers)
  BY <1>0, TailIs
<1>2. h \in flagged
  BY <1>0, <1>1 DEF ToSet
<1> HIDE DEF h
<1>3. active' = Tail(active) /\ flagged' = flagged \ {h} /\ lag[h] <= 0
  BY <1>1 DEF Expire
<1>4. LagPassedOn(lag', active, lag, 1)
  BY <1>0, <1>1 DEF Expire, LagPassedOn, h
<1>5. /\ Chain(active', lag') /\ ToSet(active') = ToSet(active) \ {active[1]}
      /\ \A x \in Timers \ {active[1]} : \A t : At(active', lag', x, t) <=> At(active, lag, x, t)
  BY <1>0, <1>1, <1>3, <1>4, RemoveChain
<1>6. Due(active, lag)[1] = 0
  <2>1. /\ Due(active, lag)[0] = 0 /\ lag[active[1]] \in 0 .. MaxLag /\ MaxLag \in Nat
        /\ \A i, j \in 0 .. Len(active) : j = i + 1 => Due(active, lag)[j] = Due(active, lag)[i] + lag[active[j]]
    BY <1>0, <1>1, ChainSums, Numbers DEF Sums
  <2>2. 0 \in 0 .. Len(active) /\ 1 \in 0 .. Len(active) /\ 1 = 0 + 1
    BY <1>0, <1>1
  <2>3. Due(active, lag)[1] = Due(active, lag)[0] + lag[active[1]]
    BY <2>1, <2>2
  <2>4. lag[active[1]] = 0
    BY <1>3, <2>1 DEF h
  <2> QED BY <2>1, <2>3, <2>4
<1>7. At(active, lag, h, 0)
  BY <1>1, <1>6 DEF At, h
<1> QED BY <1>0, <1>2, <1>3, <1>5, <1>7 DEF Same, h

(* When the loop ends, no timer is due *)
LEMMA DoneIs ==
  ASSUME ActiveInv, ExpireDone
  PROVE  \A x \in Timers, t \in Int : At(active, lag, x, t) => t > 0
<1> SUFFICES ASSUME NEW x \in Timers, NEW t \in Int, At(active, lag, x, t) PROVE t > 0
  OBVIOUS
<1>0. Chain(active, lag) /\ active \in Seq(Timers)
  BY DEF ActiveInv, Chain
<1>1. PICK k \in 1 .. Len(active) : Due(active, lag)[k] = t
  BY DEF At
<1>2. active # <<>> /\ 1 \in 1 .. Len(active) /\ Head(active) = active[1]
  BY <1>0, <1>1
<1>3. lag[active[1]] > 0 /\ lag[active[1]] \in Nat
  BY <1>0, <1>2, ChainSums, Numbers DEF ExpireDone
<1>4. t >= lag[active[1]]
  BY <1>0, <1>1, Monotone
<1> QED BY <1>3, <1>4

-----------------------------------------------------------------------------
(* The invariant.  The timers that are started, stopped or run ... *)
LEMMA StartStep ==
  ASSUME Inv, NEW w \in Timers, NEW d \in Delays, wd_start(w, d)
  PROVE  Inv'
<1>1. /\ Chain(active', lag') /\ ToSet(active') = flagged' /\ flagged' = flagged \cup {w}
      /\ At(active', lag', w, DelayTicks(d)) /\ Same(active, lag, active', lag', w)
  BY StartIs DEF Inv
<1>2. w \in live /\ UNCHANGED <<freelist, wdnfree, live, byTask, irq>>
  BY DEF wd_start
<1>3. ActiveInv'
  <2>1. ASSUME irq' = "none", NEW x \in Timers, NEW t \in Int, At(active', lag', x, t) PROVE t > 0
    <3>1. CASE x = w
      <4>1. t = DelayTicks(d)
        BY <1>1, <2>1, <3>1, AtOnce
      <4> QED BY <4>1, Numbers
    <3>2. CASE x # w
      BY <1>1, <1>2, <2>1, <3>2 DEF Same, Inv, ActiveInv
    <3> QED BY <3>1, <3>2
  <2>2. flagged' \subseteq live'
    BY <1>1, <1>2 DEF Inv, ActiveInv
  <2> QED BY <1>1, <2>1, <2>2 DEF ActiveInv
<1>4. TypeOK'
  BY <1>1, <1>2 DEF Inv, TypeOK, Chain
<1>5. FreeInv' /\ ReserveKept'
  BY <1>2 DEF Inv, FreeInv, ReserveKept
<1> QED BY <1>3, <1>4, <1>5 DEF Inv

LEMMA StopStep ==
  ASSUME TypeOK, ActiveInv, NEW w \in Timers, Stop(w), irq' = irq, flagged \ {w} \subseteq live'
  PROVE  /\ ActiveInv' /\ active' \in Seq(Timers) /\ lag' \in [Timers -> 0 .. MaxLag]
         /\ flagged' \subseteq Timers
<1>1. /\ Chain(active', lag') /\ ToSet(active') = flagged' /\ flagged' = flagged \ {w}
      /\ Same(active, lag, active', lag', w)
  BY StopIs
<1>2. ASSUME irq' = "none", NEW x \in Timers, NEW t \in Int, At(active', lag', x, t) PROVE t > 0
  <2>1. x \in ToSet(active')
    BY <1>2, ChainSums DEF At, ToSet
  <2>2. x # w
    BY <1>1, <2>1
  <2> QED BY <1>1, <1>2, <2>2 DEF Same, ActiveInv
<1> QED BY <1>1, <1>2 DEF ActiveInv, TypeOK, Chain

LEMMA CancelStep ==
  ASSUME Inv, NEW w \in Timers, wd_cancel(w)
  PROVE  Inv'
<1>1. Stop(w) /\ UNCHANGED <<freelist, wdnfree, live, byTask, irq>>
  BY DEF wd_cancel
<1>2. /\ ActiveInv' /\ active' \in Seq(Timers) /\ lag' \in [Timers -> 0 .. MaxLag]
      /\ flagged' \subseteq Timers
  BY <1>1, StopStep DEF Inv, ActiveInv
<1>3. TypeOK'
  BY <1>1, <1>2 DEF Inv, TypeOK
<1>4. FreeInv' /\ ReserveKept'
  BY <1>1 DEF Inv, FreeInv, ReserveKept
<1> QED BY <1>2, <1>3, <1>4 DEF Inv

LEMMA TickStep ==
  ASSUME Inv, wd_timer
  PROVE  Inv'
<1>1. /\ Chain(active', lag') /\ active' = active /\ flagged' = flagged
      /\ irq' = "none" => \A x \in Timers, t \in Int : At(active', lag', x, t) => t > 0
  BY TickIs DEF Inv
<1>2. UNCHANGED <<freelist, wdnfree, live, byTask>> /\ irq' \in {"none", "loop"}
  BY DEF wd_timer
<1>3. ActiveInv'
  BY <1>1, <1>2 DEF Inv, ActiveInv
<1>4. TypeOK'
  BY <1>1, <1>2 DEF Inv, TypeOK, Chain
<1>5. FreeInv' /\ ReserveKept'
  BY <1>2 DEF Inv, FreeInv, ReserveKept
<1> QED BY <1>3, <1>4, <1>5 DEF Inv

LEMMA ExpireStep ==
  ASSUME Inv, Expire
  PROVE  Inv'
<1>1. Chain(active', lag') /\ ToSet(active') = flagged' /\ flagged' \subseteq flagged
  BY ExpireIs DEF Inv
<1>2. UNCHANGED <<freelist, wdnfree, live, byTask>> /\ irq' = "function"
  BY DEF Expire
<1>3. ActiveInv'
  BY <1>1, <1>2 DEF Inv, ActiveInv
<1>4. TypeOK'
  BY <1>1, <1>2 DEF Inv, TypeOK, Chain
<1>5. FreeInv' /\ ReserveKept'
  BY <1>2 DEF Inv, FreeInv, ReserveKept
<1> QED BY <1>3, <1>4, <1>5 DEF Inv

LEMMA LoopStep ==
  ASSUME Inv, ExpireReturn \/ ExpireDone
  PROVE  Inv'
<1>1. UNCHANGED <<active, lag, flagged, freelist, wdnfree, live, byTask>> /\ irq' \in {"none", "loop"}
  BY DEF ExpireReturn, ExpireDone
<1>2. irq' = "none" => \A x \in Timers, t \in Int : At(active, lag, x, t) => t > 0
  BY DoneIs DEF Inv, ExpireReturn
<1>3. ActiveInv'
  BY <1>1, <1>2 DEF Inv, ActiveInv
<1> QED BY <1>1, <1>3 DEF Inv, TypeOK, FreeInv, ReserveKept

-----------------------------------------------------------------------------
(* ... and the timers that are taken and given back *)
LEMMA Finite ==
  /\ IsFiniteSet(Pool) /\ Cardinality(Pool) \in Nat
  /\ \A S : IsFiniteSet(Pool \ S) /\ IsFiniteSet(Pool \cap S)
  /\ \A S : Cardinality(Pool \ S) \in Nat /\ Cardinality(Pool \cap S) \in Nat
<1>1. IsFiniteSet(Pool)
  <2>1. Pool \in SUBSET Timers
    BY DEF Timers
  <2> QED BY <2>1, WdogAssumption, FS_Subset
<1>2. ASSUME NEW S PROVE IsFiniteSet(Pool \ S) /\ IsFiniteSet(Pool \cap S)
  <2>1. Pool \ S \in SUBSET Pool /\ Pool \cap S \in SUBSET Pool
    OBVIOUS
  <2> QED BY <1>1, <2>1, FS_Subset
<1> QED BY <1>1, <1>2, FS_CardinalityType

LEMMA CreateStep ==
  ASSUME Inv, NEW intr \in BOOLEAN, wd_create(intr)
  PROVE  Inv'
<1> USE DEF Inv
<1>1. UNCHANGED <<active, lag, flagged, irq>>
  BY DEF wd_create
<1>2. CASE wdnfree > IntReserve \/ intr
  <2> DEFINE h == freelist[1]
  <2>1. freelist # <<>> /\ freelist \in Seq(Pool) /\ Distinct(freelist)
    BY <1>2 DEF wd_create, TypeOK, FreeInv
  <2>2. 1 \in 1 .. Len(freelist) /\ Head(freelist) = h /\ Removed(Tail(freelist), freelist, 1, Pool)
    BY <2>1, TailIs
  <2>3. h \in Pool \ live
    BY <2>1, <2>2 DEF FreeInv, ToSet
  <2> HIDE DEF h
  <2>4. /\ wdnfree' = wdnfree - 1 /\ freelist' = Tail(freelist) /\ live' = live \cup {h}
        /\ byTask' = IF intr THEN byTask ELSE byTask \cup {h}
    BY <1>2, <2>2 DEF wd_create
  <2>5. /\ freelist' \in Seq(Pool) /\ Distinct(freelist') /\ ToSet(freelist') = ToSet(freelist) \ {h}
        /\ Len(freelist') = Len(freelist) - 1
    <3>1. /\ Tail(freelist) \in Seq(Pool) /\ Distinct(Tail(freelist))
          /\ ToSet(Tail(freelist)) = ToSet(freelist) \ {freelist[1]}
      BY <2>1, <2>2, RemoveList
    <3>2. Len(Tail(freelist)) = Len(freelist) - 1
      BY <2>2 DEF Removed
    <3> QED BY <2>4, <3>1, <3>2 DEF h
  <2>6. Pool \ live' = (Pool \ live) \ {h}
    BY <2>4
  <2>7. Cardinality(Pool \ live') = Cardinality(Pool \ live) - 1
    BY <2>3, <2>6, Finite, FS_RemoveElement
  <2>8. FreeInv'
    BY <2>4, <2>5, <2>6, <2>7 DEF FreeInv
  <2>9. live' \subseteq Timers /\ byTask' \subseteq live'
    BY <2>3, <2>4 DEF TypeOK, Timers
  <2>10. wdnfree' \in 0 .. Cardinality(Pool)
    <3>1. wdnfree \in 0 .. Cardinality(Pool) /\ wdnfree' = wdnfree - 1 /\ wdnfree' = Cardinality(Pool \ live')
      BY <2>4, <2>8 DEF TypeOK, FreeInv
    <3>2. Cardinality(Pool \ live') \in Nat /\ Cardinality(Pool) \in Nat
      BY Finite
    <3> QED BY <3>1, <3>2
  <2>11. ReserveKept'
    <3>1. CASE intr
      BY <2>4, <3>1 DEF ReserveKept
    <3>2. CASE ~intr
      <4>1. byTask' \cap Pool = (byTask \cap Pool) \cup {h} /\ byTask \cap Pool = Pool \cap byTask
        BY <2>3, <2>4, <3>2
      <4>2. h \notin Pool \cap byTask
        BY <2>3 DEF TypeOK
      <4>3. Cardinality(byTask' \cap Pool) = Cardinality(Pool \cap byTask) + 1
        BY <4>1, <4>2, Finite, FS_AddElement
      <4>4. Cardinality(Pool \cap byTask) <= Cardinality(Pool \cap live)
        <5>1. Pool \cap byTask \in SUBSET (Pool \cap live)
          BY DEF TypeOK
        <5> QED BY <5>1, Finite, FS_Subset
      <4>5. Cardinality(Pool \ live) = Cardinality(Pool) - Cardinality(Pool \cap live)
        BY Finite, FS_Difference
      <4>6. Cardinality(Pool \ live) > IntReserve
        BY <1>2, <3>2 DEF FreeInv
      <4>7. IntReserve \in Nat /\ Cardinality(Pool \cap byTask) \in Nat /\ Cardinality(Pool \cap live) \in Nat
            /\ Cardinality(Pool) \in Nat
        BY WdogAssumption, Finite
      <4>8. Cardinality(Pool \cap byTask) + 1 + IntReserve <= Cardinality(Pool)
        BY <4>4, <4>5, <4>6, <4>7
      <4> QED BY <4>3, <4>8 DEF ReserveKept
    <3> QED BY <3>1, <3>2
  <2>12. ActiveInv'
    BY <1>1, <2>4 DEF ActiveInv
  <2>13. TypeOK'
    BY <1>1, <2>5, <2>9, <2>10 DEF TypeOK
  <2> QED BY <2>8, <2>11, <2>12, <2>13
<1>3. CASE ~(wdnfree > IntReserve \/ intr)
  <2>1. PICK w \in Heap \ live : live' = live \cup {w} /\ byTask' = byTask \cup {w}
    BY <1>3 DEF wd_create
  <2>2. UNCHANGED <<freelist, wdnfree>>
    BY <1>3 DEF wd_create
  <2>3. w \notin Pool /\ w \in Timers
    BY WdogAssumption DEF Timers
  <2>4. Pool \ live' = Pool \ live /\ byTask' \cap Pool = byTask \cap Pool
    BY <2>1, <2>3
  <2>5. FreeInv' /\ ReserveKept'
    BY <2>2, <2>4 DEF FreeInv, ReserveKept
  <2>6. ActiveInv'
    BY <1>1, <2>1 DEF ActiveInv
  <2>7. TypeOK'
    BY <1>1, <2>1, <2>2, <2>3 DEF TypeOK
  <2> QED BY <2>5, <2>6, <2>7
<1> QED BY <1>2, <1>3

LEMMA DeleteStep ==
  ASSUME Inv, NEW w \in Timers, wd_delete(w)
  PROVE  Inv'
<1> USE DEF Inv
<1>1. /\ w \in live /\ Stop(w) /\ irq' = irq /\ live' = live \ ({w} \ Static) /\ byTask' = byTask \ {w}
  BY DEF wd_delete
<1>2. /\ ActiveInv' /\ active' \in Seq(Timers) /\ lag' \in [Timers -> 0 .. MaxLag]
      /\ flagged' \subseteq Timers
  <2>1. flagged \ {w} \subseteq live'
    BY <1>1 DEF ActiveInv
  <2> QED BY <1>1, <2>1, StopStep
<1>3. live' \subseteq Timers /\ byTask' \subseteq live'
  BY <1>1 DEF TypeOK
<1>4. ReserveKept'
  <2>1. byTask' \cap Pool \in SUBSET (Pool \cap byTask) /\ Pool \cap byTask = byTask \cap Pool
    BY <1>1
  <2>2. Cardinality(byTask' \cap Pool) <= Cardinality(byTask \cap Pool)
    BY <2>1, Finite, FS_Subset
  <2>3. Cardinality(byTask \cap Pool) \in Nat /\ Cardinality(byTask' \cap Pool) \in Nat
        /\ IntReserve \in Nat /\ Cardinality(Pool) \in Nat
    <3>1. byTask' \cap Pool = Pool \cap byTask'
      OBVIOUS
    <3> QED BY <2>1, <3>1, Finite, WdogAssumption
  <2> QED BY <2>2, <2>3 DEF ReserveKept
<1>5. FreeInv' /\ freelist' \in Seq(Pool) /\ wdnfree' \in 0 .. Cardinality(Pool)
  <2>1. CASE w \in Pool
    <3>1. freelist' = Append(freelist, w) /\ wdnfree' = wdnfree + 1
      BY <2>1 DEF wd_delete
    <3>2. w \notin ToSet(freelist) /\ freelist \in Seq(Pool) /\ Distinct(freelist)
      BY <1>1 DEF FreeInv, TypeOK
    <3>3. /\ freelist' \in Seq(Pool) /\ Distinct(freelist') /\ ToSet(freelist') = ToSet(freelist) \cup {w}
          /\ Len(freelist') = Len(freelist) + 1
      BY <2>1, <3>1, <3>2, AppendList
    <3>4. Pool \ live' = (Pool \ live) \cup {w}
      BY <1>1, <2>1, WdogAssumption
    <3>5. Cardinality(Pool \ live') = Cardinality(Pool \ live) + 1
      BY <1>1, <3>4, Finite, FS_AddElement
    <3>6. FreeInv'
      BY <3>1, <3>3, <3>4, <3>5 DEF FreeInv
    <3>7. Cardinality(Pool \ live') <= Cardinality(Pool)
      <4>1. Pool \ live' \in SUBSET Pool
        OBVIOUS
      <4> QED BY <4>1, Finite, FS_Subset
    <3>8. wdnfree' \in 0 .. Cardinality(Pool)
      <4>1. wdnfree' = Cardinality(Pool \ live') /\ Cardinality(Pool \ live') \in Nat /\ Cardinality(Pool) \in Nat
        BY <3>6, Finite DEF FreeInv
      <4> QED BY <3>7, <4>1
    <3> QED BY <3>3, <3>6, <3>8
  <2>2. CASE w \notin Pool
    <3>1. UNCHANGED <<freelist, wdnfree>> /\ Pool \ live' = Pool \ live
      BY <1>1, <2>2 DEF wd_delete
    <3> QED BY <3>1 DEF FreeInv, TypeOK
  <2> QED BY <2>1, <2>2
<1>6. TypeOK'
  BY <1>1, <1>2, <1>3, <1>5 DEF TypeOK
<1> QED BY <1>2, <1>4, <1>5, <1>6

(* wd_initialize(): the free list is the pool *)
LEMMA PoolList ==
  /\ SetToSeq(Pool) \in Seq(Pool) /\ Len(SetToSeq(Pool)) = Cardinality(Pool)
  /\ Distinct(SetToSeq(Pool)) /\ ToSet(SetToSeq(Pool)) = Pool
<1> DEFINE c == Cardinality(Pool)
           f == SetToSeq(Pool)
<1>1. c \in Nat /\ IsFiniteSet(Pool) /\ ExistsBijection(1 .. c, Pool)
  BY Finite, FS_CardinalityType
<1>2. \E g \in [1 .. c -> Pool] : IsInjective(g)
  BY <1>1 DEF ExistsBijection, Bijection, Injection
<1>3. f \in [1 .. c -> Pool] /\ IsInjective(f)
  BY <1>2 DEF SetToSeq
<1> HIDE DEF f
<1>4. IsFiniteSet(1 .. c) /\ Cardinality(1 .. c) = c
  <2> HIDE DEF c
  <2>1. 1 \in Int /\ c \in Int
    BY <1>1
  <2>2. IsFiniteSet(1 .. c) /\ Cardinality(1 .. c) = IF 1 > c THEN 0 ELSE c - 1 + 1
    BY <2>1, FS_Interval
  <2> QED BY <1>1, <2>2
<1>5. f \in Injection(1 .. c, Pool)
  BY <1>3 DEF Injection
<1>6. f \in Surjection(1 .. c, Pool)
  BY <1>1, <1>4, <1>5, FS_Injection
<1>7. f \in Seq(Pool) /\ Len(f) = c /\ DOMAIN f = 1 .. c
  <2> HIDE DEF c
  <2> QED BY <1>1, <1>3
<1>8. Distinct(f)
  BY <1>3 DEF IsInjective, Distinct
<1>9. ToSet(f) = Pool
  BY <1>3, <1>6, <1>7 DEF Surjection, ToSet
<1> QED BY <1>7, <1>8, <1>9 DEF f

LEMMA InvInit == Init => Inv
<1> SUFFICES ASSUME Init PROVE Inv
  OBVIOUS
<1>1. /\ active = <<>> /\ lag = [w \in Timers |-> 0] /\ flagged = {} /\ freelist = SetToSeq(Pool)
      /\ wdnfree = Cardinality(Pool) /\ live = Static /\ byTask = {} /\ irq = "none"
  BY DEF Init
<1>2. active \in Seq(Timers) /\ Len(active) = 0 /\ DOMAIN active = {} /\ ToSet(active) = {}
  BY <1>1 DEF ToSet
<1>3. MaxLag \in Nat /\ lag \in [Timers -> 0 .. MaxLag]
  BY <1>1, Numbers
<1>4. Due(active, lag)[0] = 0
  <2>1. lag \in [Timers -> Int]
    BY <1>3
  <2> QED BY <1>2, <2>1, DueSums DEF Sums
<1>5. Chain(active, lag)
  <2>1. \A k \in 0 .. 0 : Due(active, lag)[k] \in 0 .. MaxLag
    BY <1>3, <1>4
  <2>2. Distinct(active)
    BY <1>2 DEF Distinct
  <2> QED BY <1>2, <1>3, <2>1, <2>2 DEF Chain
<1>6. \A w, t : ~At(active, lag, w, t)
  BY <1>2 DEF At
<1>7. ActiveInv
  BY <1>1, <1>2, <1>5, <1>6 DEF ActiveInv
<1>8. Pool \ live = Pool
  BY <1>1, WdogAssumption
<1>9. FreeInv
  BY <1>1, <1>8, PoolList DEF FreeInv
<1>10. ReserveKept
  <2>1. byTask \cap Pool = {}
    BY <1>1
  <2>2. Cardinality(byTask \cap Pool) = 0
    BY <2>1, FS_EmptySet
  <2> QED BY <2>2, Finite, WdogAssumption DEF ReserveKept
<1>11. wdnfree \in 0 .. Cardinality(Pool)
  BY <1>1, Finite
<1>12. TypeOK
  BY <1>1, <1>2, <1>3, <1>11, PoolList DEF TypeOK, Timers
<1> QED BY <1>7, <1>9, <1>10, <1>12 DEF Inv

LEMMA InvNext == Inv /\ [Next]_vars => Inv'
<1> SUFFICES ASSUME Inv, [Next]_vars PROVE Inv'
  OBVIOUS
<1>1. CASE Call
  BY <1>1, CancelStep, DeleteStep, StartStep, CreateStep DEF Call
<1>2. CASE wd_timer
  BY <1>2, TickStep
<1>3. CASE Expire
  BY <1>3, ExpireStep
<1>4. CASE ExpireReturn \/ ExpireDone
  BY <1>4, LoopStep
<1>5. CASE UNCHANGED vars
  BY <1>5 DEF vars, Inv, TypeOK, ActiveInv, FreeInv, ReserveKept
<1> QED BY <1>1, <1>2, <1>3, <1>4, <1>5 DEF Next

LEMMA Invariant == Spec => []Inv
BY InvInit, InvNext, PTL DEF Spec

(* wd_create(), wd_delete(), wd_start(), wd_cancel() and wd_expiration()   *)
(* keep the active list, the free list and the flags in agreement, in      *)
(* every order in which tasks, interrupts and expired functions call them: *)
(* nothing that was given back is still linked, and no lag is negative     *)
THEOREM Lists == Spec => []ListsConsistent
<1>1. Inv => ListsConsistent
  BY DEF Inv, ListsConsistent, ActiveInv, Chain, FreeInv, Distinct, IsInjective
<1> QED BY <1>1, Invariant, PTL

(* wd_create() leaves CONFIG_WDOG_INTRESERVE timers of the pool to the     *)
(* interrupt handlers                                                      *)
THEOREM Reserve == Spec => []ReserveKept
<1>1. Inv => ReserveKept
  BY DEF Inv
<1> QED BY <1>1, Invariant, PTL

-----------------------------------------------------------------------------
(* The refinement.  wd_gettime() gives the time at which a timer is due *)
RemainingIs ==
  /\ \A w \in flagged : w \in Timers /\ At(active, lag, w, Remaining[w]) /\ Remaining[w] \in 0 .. MaxLag
  /\ \A w \in Timers \ flagged : Remaining[w] = -1
  /\ \A w \in flagged : \A t : At(active, lag, w, t) => Remaining[w] = t

LEMMA GetTime == Inv => RemainingIs
<1> SUFFICES ASSUME Inv PROVE RemainingIs
  OBVIOUS
<1>1. Chain(active, lag) /\ active \in Seq(Timers) /\ ToSet(active) = flagged /\ flagged \subseteq Timers
  BY DEF Inv, TypeOK, ActiveInv, Chain
<1>2. ASSUME NEW w \in flagged PROVE At(active, lag, w, Remaining[w]) /\ Remaining[w] \in 0 .. MaxLag
  <2>1. PICK k \in 1 .. Len(active) : k = IndexOf(w) /\ active[k] = w
    BY <1>1, IndexOfIs
  <2>2. Remaining[w] = Due(active, lag)[k]
    BY <1>1, <2>1 DEF Remaining, wd_gettime
  <2> QED BY <1>1, <2>1, <2>2, AtIs
<1>3. \A w \in Timers \ flagged : Remaining[w] = -1
  BY DEF Remaining
<1>4. \A w \in flagged : \A t : At(active, lag, w, t) => Remaining[w] = t
  BY <1>1, <1>2, AtOnce
<1> QED BY <1>1, <1>2, <1>3, <1>4 DEF RemainingIs

LEMMA GetTimeNext == Inv' => RemainingIs'
BY GetTime, PTL

(* A step that changes the time of w only *)
LEMMA OneTimer ==
  ASSUME RemainingIs, RemainingIs', NEW w \in Timers, Same(active, lag, active', lag', w),
         flagged' \ {w} = flagged \ {w}
  PROVE  /\ w \notin flagged' => Remaining' = [Remaining EXCEPT ![w] = -1]
         /\ \A t : w \in flagged' /\ At(active', lag', w, t) => Remaining' = [Remaining EXCEPT ![w] = t]
<1> DEFINE Q == Remaining'
<1>1. DOMAIN Remaining = Timers /\ Remaining = [x \in Timers |-> Remaining[x]] /\ Q = [x \in Timers |-> Q[x]]
  BY DEF Remaining
<1>2. /\ \A x \in flagged' : x \in Timers /\ At(active', lag', x, Q[x])
      /\ \A x \in Timers \ flagged' : Q[x] = -1
      /\ \A x \in flagged' : \A t : At(active', lag', x, t) => Q[x] = t
  BY DEF RemainingIs
<1> HIDE DEF Q
<1>3. ASSUME NEW x \in Timers \ {w} PROVE Q[x] = Remaining[x]
  <2>1. CASE x \in flagged
    <3>1. x \in flagged' /\ At(active', lag', x, Remaining[x])
      BY <2>1 DEF RemainingIs, Same
    <3> QED BY <1>2, <3>1
  <2>2. CASE x \notin flagged
    <3>1. Remaining[x] = -1 /\ x \notin flagged'
      BY <2>2 DEF RemainingIs
    <3> QED BY <1>2, <3>1
  <2> QED BY <2>1, <2>2
<1>4. ASSUME NEW v, Q[w] = v PROVE Q = [Remaining EXCEPT ![w] = v]
  BY <1>1, <1>3, <1>4
<1> QED BY <1>2, <1>4 DEF Q

(* wd_start(), wd_cancel(), wd_delete(), wd_timer() and wd_expiration()    *)
(* implement timers with a remaining time each: the list of differences    *)
(* runs every timer exactly in its tick, also when functions of timers     *)
(* that expire in that tick start, cancel or delete others                 *)
THEOREM Implements == Spec => TimersExact
<1>1. Init => Abs!Init
  <2> SUFFICES ASSUME Init PROVE Remaining = [w \in Timers |-> -1]
    BY DEF Abs!Init, Abs!Inactive
  <2>1. flagged = {}
    BY DEF Init
  <2> QED BY <2>1 DEF Remaining
<1>2. Inv /\ Inv' /\ [Next]_vars => [Abs!Next]_Remaining
  <2> SUFFICES ASSUME Inv, Inv', [Next]_vars PROVE [Abs!Next]_Remaining
    OBVIOUS
  <2>0. RemainingIs /\ RemainingIs'
    BY GetTime, GetTimeNext
  <2>1. ASSUME NEW w \in Timers, NEW d \in Delays, wd_start(w, d) PROVE [Abs!Next]_Remaining
    <3>1. /\ At(active', lag', w, DelayTicks(d)) /\ flagged' = flagged \cup {w}
          /\ Same(active, lag, active', lag', w)
      BY <2>1, StartIs DEF Inv
    <3>2. Remaining' = [Remaining EXCEPT ![w] = DelayTicks(d)]
      BY <2>0, <3>1, OneTimer
    <3>3. DelayTicks(d) = Abs!Ticks(d)
      <4>1. d \in Nat
        BY Numbers
      <4> QED BY <4>1 DEF DelayTicks, Abs!Ticks
    <3>4. Abs!Start(w, d)
      BY <3>2, <3>3 DEF Abs!Start
    <3> QED BY <3>4 DEF Abs!Next
  <2>2. ASSUME NEW w \in Timers, Stop(w) PROVE [Abs!Next]_Remaining
    <3>1. CASE w \in flagged
      <4>1. flagged' = flagged \ {w} /\ Same(active, lag, active', lag', w)
        BY <2>2, StopIs DEF Inv
      <4>2. Remaining' = [Remaining EXCEPT ![w] = -1]
        BY <2>0, <4>1, OneTimer
      <4>3. Remaining[w] # -1
        <5>1. Remaining[w] \in 0 .. MaxLag
          BY <2>0, <3>1 DEF RemainingIs
        <5> QED BY <5>1, Numbers
      <4>4. Abs!Cancel(w)
        BY <4>2, <4>3 DEF Abs!Cancel, Abs!Running, Abs!Inactive
      <4> QED BY <4>4 DEF Abs!Next
    <3>2. CASE w \notin flagged
      <4>1. UNCHANGED <<active, lag, flagged>>
        BY <2>2, <3>2 DEF Stop
      <4> QED BY <4>1 DEF Remaining, wd_gettime, IndexOf, SelectInSeq
    <3> QED BY <3>1, <3>2
  <2>3. ASSUME wd_timer PROVE [Abs!Next]_Remaining
    <3> DEFINE Q == Remaining'
    <3>1. /\ flagged' = flagged /\ irq = "none"
          /\ \A x \in Timers, t \in Int : At(active, lag, x, t) => At(active', lag', x, t - 1)
      BY <2>3, TickIs DEF Inv, wd_timer
    <3>2. /\ \A x \in Timers \ flagged' : Q[x] = -1
          /\ \A x \in flagged' : \A t : At(active', lag', x, t) => Q[x] = t
      BY <2>0 DEF RemainingIs
    <3>3. Q = [x \in Timers |-> Q[x]]
      BY DEF Remaining
    <3> HIDE DEF Q
    <3>4. ASSUME NEW x \in flagged
          PROVE  Remaining[x] \in Int /\ Remaining[x] > 0 /\ Q[x] = Remaining[x] - 1 /\ x \in Timers
      <4>1. x \in Timers /\ At(active, lag, x, Remaining[x]) /\ Remaining[x] \in 0 .. MaxLag
        BY <2>0 DEF RemainingIs
      <4>2. Remaining[x] \in Int
        BY <4>1, Numbers
      <4>3. Remaining[x] > 0
        BY <3>1, <4>1, <4>2 DEF Inv, ActiveInv
      <4>4. At(active', lag', x, Remaining[x] - 1)
        BY <3>1, <4>1, <4>2
      <4> QED BY <3>1, <3>2, <4>1, <4>2, <4>3, <4>4
    <3>5. \A x \in Timers \ flagged : Remaining[x] = -1 /\ Q[x] = -1
      BY <2>0, <3>1, <3>2 DEF RemainingIs
    <3>6. \A x \in Timers : Remaining[x] # -1 <=> x \in flagged
      BY <3>4, <3>5
    <3>7. \A x \in Timers : Remaining[x] # -1 => Remaining[x] > 0
      BY <3>4, <3>6
    <3>8. Q = [x \in Timers |-> IF Remaining[x] # -1 THEN Remaining[x] - 1 ELSE -1]
      BY <3>3, <3>4, <3>5, <3>6
    <3>9. Abs!Tick
      BY <3>7, <3>8 DEF Abs!Tick, Abs!Running, Abs!Inactive, Q
    <3> QED BY <3>9 DEF Abs!Next
  <2>4. ASSUME Expire PROVE [Abs!Next]_Remaining
    <3>1. PICK h \in flagged : /\ flagged' = flagged \ {h} /\ At(active, lag, h, 0)
                               /\ Same(active, lag, active', lag', h)
      BY <2>4, ExpireIs DEF Inv
    <3>2. h \in Timers /\ Remaining[h] = 0
      BY <2>0, <3>1 DEF RemainingIs
    <3>3. Remaining' = [Remaining EXCEPT ![h] = -1]
      BY <2>0, <3>1, <3>2, OneTimer
    <3>4. Abs!Expire(h)
      BY <3>2, <3>3 DEF Abs!Expire, Abs!Inactive
    <3> QED BY <3>2, <3>4 DEF Abs!Next
  <2>5. ASSUME UNCHANGED <<active, lag, flagged>> PROVE [Abs!Next]_Remaining
    BY <2>5 DEF Remaining, wd_gettime, IndexOf, SelectInSeq
  <2>6. CASE Call
    BY <2>1, <2>2, <2>5, <2>6 DEF Call, wd_cancel, wd_delete, wd_create
  <2>7. CASE ExpireReturn \/ ExpireDone \/ UNCHANGED vars
    BY <2>5, <2>7 DEF ExpireReturn, ExpireDone, vars
  <2> QED BY <2>3, <2>4, <2>6, <2>7 DEF Next
<1> QED BY <1>1, <1>2, Invariant, PTL DEF Spec, TimersExact, Abs!Spec
=============================================================================

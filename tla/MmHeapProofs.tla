---------------------------- MODULE MmHeapProofs ----------------------------
(***************************************************************************)
(* Proofs about MmHeap, for every set of regions, sizes, alignments and    *)
(* threads: the chunks tile the regions, the free list is exact, blocks    *)
(* neither overlap nor leak, the search is a best fit, and free neighbours *)
(* are merged.                                                             *)
(***************************************************************************)
EXTENDS MmHeap, FiniteSetTheorems, SequenceTheorems, NaturalsInduction, WellFoundedInduction, TLAPS

-----------------------------------------------------------------------------
(* A set of numbers that is not empty has a least element *)
LEMMA MinOfSet ==
  ASSUME NEW S \in SUBSET Nat, S # {}
  PROVE  Min(S) \in S /\ \A y \in S : Min(S) <= y
<1>1. \E x \in S : \A y \in S : ~(<<y, x>> \in OpToRel(<, Nat))
  BY WFMin, NatLessThanWellFounded, Zenon
<1>2. \A x, y \in Nat : y < x => <<y, x>> \in OpToRel(<, Nat)
  BY DEF OpToRel
<1>3. \E x \in S : \A y \in S : x <= y
  <2>1. PICK x \in S : \A y \in S : ~(<<y, x>> \in OpToRel(<, Nat))
    BY <1>1, Zenon
  <2>2. \A y \in S : ~(y < x)
    BY <1>2, <2>1
  <2> QED BY <2>2
<1> QED BY <1>3 DEF Min

(* The number of the list for a size grows with the size *)
LEMMA Ndx ==
  /\ \A n \in Nat : mm_size2ndx(n) \in Bins
  /\ \A m, n \in Nat : m <= n => mm_size2ndx(m) <= mm_size2ndx(n)
<1> DEFINE P(n) == {i \in 1 .. NNodes - 1 : 2^i \in 1 .. n \div MM_MIN_CHUNK}
<1>0. NNodes \in Nat /\ NNodes - 1 \in Nat /\ 1 \in Int
  BY NNodesAssumption
<1>1. IsFiniteSet(1 .. NNodes - 1) /\ Cardinality(1 .. NNodes - 1) = NNodes - 1
  BY <1>0, FS_Interval
<1>2. ASSUME NEW n \in Nat
      PROVE  IsFiniteSet(P(n)) /\ Cardinality(P(n)) \in Nat /\ Cardinality(P(n)) <= NNodes - 1
  <2>1. P(n) \subseteq 1 .. NNodes - 1
    OBVIOUS
  <2> HIDE DEF P
  <2> QED BY <1>1, <2>1, FS_Subset, FS_CardinalityType
<1>3. ASSUME NEW m \in Nat, NEW n \in Nat, m <= n PROVE Cardinality(P(m)) <= Cardinality(P(n))
  <2>1. m \div MM_MIN_CHUNK \in Nat /\ n \div MM_MIN_CHUNK \in Nat
        /\ m \div MM_MIN_CHUNK <= n \div MM_MIN_CHUNK
    BY <1>3 DEF MM_MIN_CHUNK
  <2>2. \A x \in 1 .. m \div MM_MIN_CHUNK : x \in 1 .. n \div MM_MIN_CHUNK
    BY <2>1
  <2>3. P(m) \subseteq P(n)
    BY <2>2
  <2> HIDE DEF P
  <2> QED BY <1>2, <2>3, FS_Subset
<1> QED BY <1>0, <1>2, <1>3 DEF mm_size2ndx, Bins

-----------------------------------------------------------------------------
(* Lists.  r is q without its m-th element, or with w before it *)
Removed(r, q, m) ==
  /\ r \in Seq(Nat) /\ Len(r) = Len(q) - 1
  /\ \A k \in 1 .. Len(q) - 1 : /\ k < m => r[k] = q[k]
                                /\ k >= m => r[k] = q[k + 1]

Inserted(r, q, m, w) ==
  /\ r \in Seq(Nat) /\ Len(r) = Len(q) + 1 /\ r[m] = w
  /\ \A k \in 1 .. Len(q) : /\ k < m => r[k] = q[k]
                            /\ k >= m => r[k + 1] = q[k]

LEMMA RemoveAtIs ==
  ASSUME NEW q \in Seq(Nat), NEW m \in 1 .. Len(q)
  PROVE  Removed(RemoveAt(q, m), q, m)
<1> DEFINE a == SubSeq(q, 1, m - 1)
           b == SubSeq(q, m + 1, Len(q))
<1>1. a \in Seq(Nat) /\ Len(a) = m - 1 /\ \A k \in 1 .. m - 1 : a[k] = q[k]
  OBVIOUS
<1>2. b \in Seq(Nat) /\ Len(b) = Len(q) - m /\ \A k \in 1 .. Len(q) - m : b[k] = q[m + k]
  OBVIOUS
<1>3. RemoveAt(q, m) = a \o b
  BY DEF RemoveAt
<1> HIDE DEF a, b
<1>0. Len(q) \in Nat
  OBVIOUS
<1>4. /\ a \o b \in Seq(Nat) /\ Len(a \o b) = Len(a) + Len(b)
      /\ \A k \in 1 .. Len(a) + Len(b) : (a \o b)[k] = IF k <= Len(a) THEN a[k] ELSE b[k - Len(a)]
  BY <1>1, <1>2, ConcatProperties
<1>5. /\ Len(a \o b) = Len(q) - 1
      /\ \A k \in 1 .. Len(q) - 1 : (a \o b)[k] = IF k < m THEN a[k] ELSE b[k - (m - 1)]
  <2>1. Len(a) = m - 1 /\ Len(a) + Len(b) = Len(q) - 1
    BY <1>0, <1>1, <1>2
  <2>2. \A k \in 1 .. Len(q) - 1 : k <= m - 1 <=> k < m
    BY <1>0
  <2> QED BY <1>4, <2>1, <2>2
<1>6. ASSUME NEW k \in 1 .. Len(q) - 1, k >= m PROVE (a \o b)[k] = q[k + 1]
  <2>1. PICK i \in 1 .. Len(q) - m : i = k - (m - 1)
    BY <1>0, <1>6
  <2>2. (a \o b)[k] = b[i]
    BY <1>0, <1>5, <1>6, <2>1
  <2>3. b[i] = q[m + i] /\ m + i = k + 1
    BY <1>0, <1>2, <1>6, <2>1
  <2> QED BY <2>2, <2>3
<1>7. \A k \in 1 .. Len(q) - 1 : k < m => (a \o b)[k] = q[k]
  BY <1>1, <1>5
<1> QED BY <1>3, <1>4, <1>5, <1>6, <1>7 DEF Removed

LEMMA InsertAtIs ==
  ASSUME NEW q \in Seq(Nat), NEW m \in 1 .. Len(q) + 1, NEW w \in Nat
  PROVE  Inserted(InsertAt(q, m, w), q, m, w)
<1> DEFINE a == SubSeq(q, 1, m - 1)
           b == SubSeq(q, m, Len(q))
           c == a \o <<w>>
<1>0. Len(q) \in Nat /\ <<w>> \in Seq(Nat) /\ Len(<<w>>) = 1 /\ <<w>>[1] = w
  OBVIOUS
<1>1. a \in Seq(Nat) /\ Len(a) = m - 1 /\ \A k \in 1 .. m - 1 : a[k] = q[k]
  OBVIOUS
<1>2. b \in Seq(Nat) /\ Len(b) = Len(q) - m + 1 /\ \A k \in 1 .. Len(q) - m + 1 : b[k] = q[m - 1 + k]
  <2>1. CASE m = Len(q) + 1
    BY <1>0, <2>1
  <2>2. CASE m # Len(q) + 1
    BY <1>0, <2>2
  <2> QED BY <2>1, <2>2
<1>3. InsertAt(q, m, w) = c \o b
  BY DEF InsertAt
<1> HIDE DEF a, b
<1>4. /\ c \in Seq(Nat) /\ Len(c) = m
      /\ \A k \in 1 .. m : c[k] = IF k < m THEN a[k] ELSE w
  BY <1>0, <1>1
<1> HIDE DEF c
<1>5. /\ c \o b \in Seq(Nat) /\ Len(c \o b) = Len(c) + Len(b)
      /\ \A k \in 1 .. Len(c) + Len(b) : (c \o b)[k] = IF k <= Len(c) THEN c[k] ELSE b[k - Len(c)]
  BY <1>2, <1>4, ConcatProperties
<1>6. Len(c) + Len(b) = Len(q) + 1 /\ Len(c) = m
  BY <1>0, <1>2, <1>4
<1>7. ASSUME NEW k \in 1 .. Len(q), k >= m PROVE (c \o b)[k + 1] = q[k]
  <2>1. PICK i \in 1 .. Len(q) - m + 1 : i = k + 1 - m
    BY <1>0, <1>7
  <2>2. k + 1 \in 1 .. Len(q) + 1 /\ ~(k + 1 <= m)
    BY <1>0, <1>7
  <2> DEFINE x == c \o b
  <2>3. \A h \in 1 .. Len(q) + 1 : x[h] = IF h <= m THEN c[h] ELSE b[h - m]
    BY <1>5, <1>6
  <2> HIDE DEF x
  <2>4. PICK h \in 1 .. Len(q) + 1 : h = k + 1 /\ ~(h <= m) /\ h - m = i
    BY <1>0, <2>1, <2>2
  <2>5. x[h] = b[i]
    BY <2>3, <2>4
  <2>6. b[i] = q[m - 1 + i] /\ m - 1 + i = k
    BY <1>0, <1>2, <1>7, <2>1
  <2> QED BY <2>4, <2>5, <2>6 DEF x
<1>8. \A k \in 1 .. m : (c \o b)[k] = c[k]
  BY <1>0, <1>5, <1>6
<1>9. (c \o b)[m] = w /\ \A k \in 1 .. Len(q) : k < m => (c \o b)[k] = q[k]
  <2> DEFINE x == c \o b
  <2>1. m \in 1 .. m /\ ~(m < m) /\ \A k \in 1 .. Len(q) : k < m => k \in 1 .. m /\ k \in 1 .. m - 1
    BY <1>0
  <2>2. \A k \in 1 .. m : x[k] = c[k]
    BY <1>8
  <2> HIDE DEF x
  <2>3. x[m] = w
    BY <1>4, <2>1, <2>2
  <2>4. \A k \in 1 .. Len(q) : k < m => x[k] = q[k]
    BY <1>1, <1>4, <2>1, <2>2
  <2> QED BY <2>3, <2>4 DEF x
<1> QED BY <1>3, <1>5, <1>6, <1>7, <1>9 DEF Inserted

(* The list of chunks q is in the order of their sizes in memory m *)
Ordered(q, m) ==
  \A j, k \in DOMAIN q : j < k => q[j] # q[k] /\ m[q[j]].size <= m[q[k]].size

LEMMA RemoveFirstIs ==
  ASSUME NEW q \in Seq(Nat), NEW m, Ordered(q, m), NEW a
  PROVE  /\ RemoveFirst(q, a) \in Seq(Nat) /\ Ordered(RemoveFirst(q, a), m)
         /\ ToSet(RemoveFirst(q, a)) = ToSet(q) \ {a}
<1>0. DOMAIN q = 1 .. Len(q) /\ Len(q) \in Nat
  OBVIOUS
<1>1. CASE a \notin ToSet(q)
  <2>1. RemoveFirst(q, a) = q
    BY <1>0, <1>1 DEF RemoveFirst, ToSet
  <2> QED BY <1>1, <2>1
<1>2. CASE a \in ToSet(q)
  <2> DEFINE I == {i \in 1 .. Len(q) : q[i] = a}
             n == Min(I)
             r == RemoveAt(q, n)
             at(k) == IF k < n THEN k ELSE k + 1
  <2>1. I # {} /\ I \in SUBSET Nat
    BY <1>2 DEF ToSet
  <2>2. RemoveFirst(q, a) = r
    BY <2>1 DEF RemoveFirst, SelectInSeq
  <2>3. n \in I
    <3> HIDE DEF I
    <3> QED BY <2>1, MinOfSet
  <2>4. n \in 1 .. Len(q) /\ q[n] = a
    BY <2>3
  <2> HIDE DEF n, I
  <2>5. Removed(r, q, n)
    BY <2>4, RemoveAtIs
  <2> HIDE DEF r
  <2>6. r \in Seq(Nat) /\ DOMAIN r = 1 .. Len(q) - 1
    BY <2>5 DEF Removed
  <2>7. \A k \in DOMAIN r : at(k) \in DOMAIN q /\ at(k) # n /\ r[k] = q[at(k)]
    <3> SUFFICES ASSUME NEW k \in DOMAIN r
                 PROVE  at(k) \in DOMAIN q /\ at(k) # n /\ r[k] = q[at(k)]
      OBVIOUS
    <3>1. k \in 1 .. Len(q) - 1 /\ Len(q) \in Nat /\ n \in Nat
      BY <1>0, <2>4, <2>6
    <3>2. at(k) \in 1 .. Len(q) /\ at(k) # n
      BY <3>1
    <3>3. r[k] = q[at(k)]
      <4>1. CASE k < n
        BY <2>5, <3>1, <4>1 DEF Removed
      <4>2. CASE k >= n
        BY <2>5, <3>1, <4>2 DEF Removed
      <4> QED BY <3>1, <4>1, <4>2
    <3> QED BY <1>0, <3>2, <3>3
  <2>8. \A j, k \in DOMAIN r : j < k => at(j) < at(k)
    <3> SUFFICES ASSUME NEW j \in DOMAIN r, NEW k \in DOMAIN r, j < k PROVE at(j) < at(k)
      OBVIOUS
    <3>1. j \in Int /\ k \in Int /\ n \in Int
      BY <1>0, <2>4, <2>6
    <3> QED BY <3>1
  <2>9. \A i \in DOMAIN q \ {n} : \E k \in DOMAIN r : at(k) = i
    <3> SUFFICES ASSUME NEW i \in DOMAIN q \ {n} PROVE \E k \in DOMAIN r : at(k) = i
      OBVIOUS
    <3>1. CASE i < n
      <4>1. i \in DOMAIN r /\ at(i) = i
        BY <1>0, <2>4, <2>6, <3>1
      <4> QED BY <4>1
    <3>2. CASE i > n
      <4>1. i - 1 \in DOMAIN r /\ at(i - 1) = i
        BY <1>0, <2>4, <2>6, <3>2
      <4> QED BY <4>1
    <3> QED BY <1>0, <2>4, <3>1, <3>2
  <2>10. \A i \in DOMAIN q : i # n => q[i] # a
    <3> SUFFICES ASSUME NEW i \in DOMAIN q, i # n PROVE q[i] # q[n]
      BY <2>4
    <3>1. n \in DOMAIN q /\ (i < n \/ n < i)
      BY <1>0, <2>4
    <3> QED BY <3>1 DEF Ordered
  <2> HIDE DEF at
  <2>11. Ordered(r, m)
    BY <2>7, <2>8 DEF Ordered
  <2>12. ToSet(r) = ToSet(q) \ {a}
    <3>1. ToSet(r) \subseteq ToSet(q) \ {a}
      BY <2>7, <2>10 DEF ToSet
    <3>2. ToSet(q) \ {a} \subseteq ToSet(r)
      <4> SUFFICES ASSUME NEW i \in DOMAIN q, q[i] # a PROVE q[i] \in ToSet(r)
        BY DEF ToSet
      <4>1. PICK k \in DOMAIN r : at(k) = i
        BY <2>4, <2>9
      <4> QED BY <2>7, <4>1 DEF ToSet
    <3> QED BY <3>1, <3>2
  <2> QED BY <2>2, <2>6, <2>11, <2>12
<1> QED BY <1>1, <1>2

(* The place that mm_addfreechunk() finds *)
LEMMA InsertOrdered ==
  ASSUME NEW q \in Seq(Nat), NEW m, Ordered(q, m), NEW a \in Nat \ ToSet(q),
         m[a].size \in Nat, \A x \in ToSet(q) : m[x].size \in Nat,
         NEW p, p = Min({k \in 1 .. Len(q) + 1 : k <= Len(q) => m[q[k]].size >= m[a].size})
  PROVE  /\ InsertAt(q, p, a) \in Seq(Nat) /\ Ordered(InsertAt(q, p, a), m)
         /\ ToSet(InsertAt(q, p, a)) = ToSet(q) \cup {a}
<1> DEFINE P == {k \in 1 .. Len(q) + 1 : k <= Len(q) => m[q[k]].size >= m[a].size}
           r == InsertAt(q, p, a)
           at(k) == IF k < p THEN k ELSE k + 1
<1>0. DOMAIN q = 1 .. Len(q) /\ Len(q) \in Nat /\ \A k \in DOMAIN q : m[q[k]].size \in Nat
  BY DEF ToSet
<1>1. Len(q) + 1 \in P /\ P \in SUBSET Nat
  BY <1>0
<1>2. p \in P /\ \A k \in P : p <= k
  <2> HIDE DEF P
  <2>1. p = Min(P)
    BY DEF P
  <2>2. P # {} /\ P \in SUBSET Nat
    BY <1>1
  <2>3. Min(P) \in P /\ \A k \in P : Min(P) <= k
    BY <2>2, MinOfSet, Zenon
  <2> QED BY <2>1, <2>3, Zenon
<1>3. p \in 1 .. Len(q) + 1 /\ (p <= Len(q) => m[q[p]].size >= m[a].size)
  BY <1>2
<1>4. \A k \in 1 .. Len(q) : k < p => m[q[k]].size <= m[a].size
  <2> SUFFICES ASSUME NEW k \in 1 .. Len(q), k < p, ~(m[q[k]].size <= m[a].size) PROVE FALSE
    OBVIOUS
  <2>1. k \in P
    BY <1>0
  <2> HIDE DEF P
  <2> QED BY <1>0, <1>2, <1>3, <2>1
<1>5. \A k \in 1 .. Len(q) : k >= p => m[a].size <= m[q[k]].size
  <2> SUFFICES ASSUME NEW k \in 1 .. Len(q), k >= p PROVE m[a].size <= m[q[k]].size
    OBVIOUS
  <2>1. p \in DOMAIN q /\ m[q[p]].size >= m[a].size
    BY <1>0, <1>3
  <2>2. CASE k = p
    BY <1>0, <2>1, <2>2
  <2>3. CASE k > p
    <3>1. m[q[p]].size <= m[q[k]].size
      BY <1>0, <2>1, <2>3 DEF Ordered
    <3>2. m[q[p]].size \in Nat /\ m[q[k]].size \in Nat
      BY <1>0, <2>1
    <3> QED BY <2>1, <3>1, <3>2
  <2> QED BY <1>0, <1>3, <2>2, <2>3
<1> HIDE DEF P
<1>6. Inserted(r, q, p, a)
  BY <1>3, InsertAtIs
<1> HIDE DEF r
<1>7. r \in Seq(Nat) /\ DOMAIN r = 1 .. Len(q) + 1 /\ p \in DOMAIN r /\ r[p] = a
  BY <1>0, <1>3, <1>6 DEF Inserted
<1>8. \A k \in DOMAIN q : at(k) \in DOMAIN r /\ at(k) # p /\ r[at(k)] = q[k] /\ q[k] # a
  <2> SUFFICES ASSUME NEW k \in DOMAIN q
               PROVE  at(k) \in DOMAIN r /\ at(k) # p /\ r[at(k)] = q[k] /\ q[k] # a
    OBVIOUS
  <2>1. q[k] # a
    BY DEF ToSet
  <2>0. k \in 1 .. Len(q) /\ k \in Int /\ p \in Int /\ Len(q) \in Nat
    BY <1>0, <1>3
  <2>2. CASE k < p
    <3>1. at(k) = k /\ k \in 1 .. Len(q) + 1
      BY <2>0, <2>2
    <3>2. r[k] = q[k]
      BY <1>6, <2>0, <2>2 DEF Inserted
    <3> HIDE DEF at
    <3> QED BY <1>7, <2>0, <2>1, <2>2, <3>1, <3>2
  <2>3. CASE k >= p
    <3>1. at(k) = k + 1 /\ k + 1 \in 1 .. Len(q) + 1 /\ k + 1 # p
      BY <2>0, <2>3
    <3>2. r[k + 1] = q[k]
      BY <1>6, <2>0, <2>3 DEF Inserted
    <3> HIDE DEF at
    <3> QED BY <1>7, <2>1, <3>1, <3>2
  <2> HIDE DEF at
  <2> QED BY <2>0, <2>2, <2>3
<1>9. \A i \in DOMAIN r \ {p} : \E k \in DOMAIN q : at(k) = i
  <2> SUFFICES ASSUME NEW i \in DOMAIN r \ {p} PROVE \E k \in DOMAIN q : at(k) = i
    OBVIOUS
  <2>0. i \in 1 .. Len(q) + 1 /\ i # p /\ i \in Int /\ p \in Int
    BY <1>0, <1>3, <1>7
  <2>1. CASE i < p
    <3>1. i \in DOMAIN q /\ at(i) = i
      BY <1>0, <1>3, <2>0, <2>1
    <3> HIDE DEF at
    <3> QED BY <3>1
  <2>2. CASE i > p
    <3>1. i - 1 \in DOMAIN q /\ at(i - 1) = i
      BY <1>0, <1>3, <2>0, <2>2
    <3> HIDE DEF at
    <3> QED BY <3>1
  <2>3. i < p \/ i > p
    BY <2>0
  <2> HIDE DEF at
  <2> QED BY <2>1, <2>2, <2>3, Zenon
<1>10. \A j, k \in DOMAIN q : at(j) < at(k) => j < k
  BY <1>0, <1>3
<1>11. \A k \in DOMAIN q : (at(k) < p => k < p) /\ (p < at(k) => k >= p)
  BY <1>0, <1>3
<1> HIDE DEF at
<1>12. Ordered(r, m)
  <2> SUFFICES ASSUME NEW i \in DOMAIN r, NEW j \in DOMAIN r, i < j
               PROVE  r[i] # r[j] /\ m[r[i]].size <= m[r[j]].size
    BY DEF Ordered
  <2>0. i \in Nat /\ j \in Nat
    BY <1>7
  <2>1. CASE i = p
    <3>1. PICK k \in DOMAIN q : at(k) = j
      BY <1>9, <2>0, <2>1
    <3>2. r[j] = q[k] /\ q[k] # a /\ k >= p
      BY <1>8, <1>11, <2>1, <3>1
    <3>3. m[a].size <= m[q[k]].size
      BY <1>0, <1>5, <3>2
    <3> QED BY <1>7, <2>1, <3>2, <3>3
  <2>2. CASE j = p
    <3>1. PICK k \in DOMAIN q : at(k) = i
      BY <1>9, <2>0, <2>2
    <3>2. r[i] = q[k] /\ q[k] # a /\ k < p
      BY <1>8, <1>11, <2>2, <3>1
    <3>3. m[q[k]].size <= m[a].size
      BY <1>0, <1>4, <3>2
    <3> QED BY <1>7, <2>2, <3>2, <3>3
  <2>3. CASE i # p /\ j # p
    <3>1. PICK k \in DOMAIN q : at(k) = i
      BY <1>9, <2>3
    <3>2. PICK l \in DOMAIN q : at(l) = j
      BY <1>9, <2>3
    <3>3. k < l /\ r[i] = q[k] /\ r[j] = q[l]
      BY <1>8, <1>10, <3>1, <3>2
    <3> QED BY <3>3 DEF Ordered
  <2> QED BY <2>1, <2>2, <2>3
<1>13. ToSet(r) = ToSet(q) \cup {a}
  <2>1. ToSet(r) \subseteq ToSet(q) \cup {a}
    <3> SUFFICES ASSUME NEW i \in DOMAIN r, i # p PROVE r[i] \in ToSet(q)
      BY <1>7 DEF ToSet
    <3>1. PICK k \in DOMAIN q : at(k) = i
      BY <1>9
    <3> QED BY <1>8, <3>1 DEF ToSet
  <2>2. ToSet(q) \cup {a} \subseteq ToSet(r)
    BY <1>7, <1>8 DEF ToSet
  <2> QED BY <2>1, <2>2
<1> QED BY <1>7, <1>12, <1>13 DEF r

-----------------------------------------------------------------------------
(* The free list.  bins holds the chunks of S, each in the list of its     *)
(* size and in order                                                       *)
Listed(m, bins, S) ==
  /\ bins \in [Bins -> Seq(Nat)]
  /\ \A i \in Bins : Ordered(bins[i], m)
  /\ \A i \in Bins : \A x \in ToSet(bins[i]) : x \in S /\ mm_size2ndx(m[x].size) = i
  /\ \A x \in S : x \in ToSet(bins[mm_size2ndx(m[x].size)])

(* A heap is a record *)
Shape(h) == h = [mem |-> h.mem, bins |-> h.bins, regions |-> h.regions]

LEMMA UnlinkListed ==
  ASSUME NEW h, Shape(h), NEW m, NEW S, Listed(m, h.bins, S), NEW a,
         \A x \in S : m[x].size \in Nat
  PROVE  /\ Shape(Unlink(h, a)) /\ Unlink(h, a).mem = h.mem /\ Unlink(h, a).regions = h.regions
         /\ Listed(m, Unlink(h, a).bins, S \ {a})
<1> DEFINE b == [i \in Bins |-> RemoveFirst(h.bins[i], a)]
<1>1. Unlink(h, a) = [mem |-> h.mem, bins |-> b, regions |-> h.regions]
  BY DEF Unlink, Shape
<1>2. \A i \in Bins : /\ b[i] \in Seq(Nat) /\ Ordered(b[i], m)
                      /\ ToSet(b[i]) = ToSet(h.bins[i]) \ {a}
  BY RemoveFirstIs DEF Listed
<1>3. \A x \in S : mm_size2ndx(m[x].size) \in Bins
  BY Ndx
<1>4. b \in [Bins -> Seq(Nat)]
  BY <1>2
<1> HIDE DEF b
<1>5. Listed(m, b, S \ {a})
  <2>1. \A i \in Bins : \A x \in ToSet(b[i]) : x \in S \ {a} /\ mm_size2ndx(m[x].size) = i
    BY <1>2 DEF Listed
  <2>2. \A x \in S \ {a} : x \in ToSet(b[mm_size2ndx(m[x].size)])
    BY <1>2, <1>3 DEF Listed
  <2> QED BY <1>2, <1>4, <2>1, <2>2 DEF Listed
<1> QED BY <1>1, <1>5 DEF Shape

LEMMA AddListed ==
  ASSUME NEW h, Shape(h), NEW S, Listed(h.mem, h.bins, S), NEW a \in Nat \ S,
         \A x \in S \cup {a} : h.mem[x].size \in Nat
  PROVE  LET g == mm_addfreechunk(h, a)
         IN Shape(g) /\ g.mem = h.mem /\ g.regions = h.regions
            /\ Listed(h.mem, g.bins, S \cup {a})
<1> DEFINE m == h.mem
           n == mm_size2ndx(m[a].size)
           q == h.bins[n]
           p == Min({k \in 1 .. Len(q) + 1 : k <= Len(q) => m[q[k]].size >= m[a].size})
           r == InsertAt(q, p, a)
           b == [h.bins EXCEPT ![n] = r]
<1>1. mm_addfreechunk(h, a) = [mem |-> h.mem, bins |-> b, regions |-> h.regions]
  <2>1. mm_addfreechunk(h, a) = [h EXCEPT !.bins[n] = r]
    BY Zenon DEF mm_addfreechunk
  <2> HIDE DEF r, n
  <2> QED BY <2>1 DEF Shape
<1>2. \A x \in S \cup {a} : mm_size2ndx(m[x].size) \in Bins
  BY Ndx
<1>3. n \in Bins /\ q \in Seq(Nat) /\ Ordered(q, m) /\ ToSet(q) \subseteq S
  BY <1>2 DEF Listed
<1>4. r \in Seq(Nat) /\ Ordered(r, m) /\ ToSet(r) = ToSet(q) \cup {a}
  <2>1. a \in Nat \ ToSet(q) /\ m[a].size \in Nat /\ \A x \in ToSet(q) : m[x].size \in Nat
    BY <1>3
  <2> HIDE DEF q, m
  <2> QED BY <1>3, <2>1, InsertOrdered
<1> HIDE DEF r
<1>5. /\ b \in [Bins -> Seq(Nat)] /\ b[n] = r
      /\ \A i \in Bins : i # n => b[i] = h.bins[i]
  BY <1>3, <1>4 DEF Listed
<1> HIDE DEF b, p, n
<1>6. \A i \in Bins : \A x \in ToSet(b[i]) : x \in S \cup {a} /\ mm_size2ndx(m[x].size) = i
  <2> SUFFICES ASSUME NEW i \in Bins, NEW x \in ToSet(b[i])
               PROVE  x \in S \cup {a} /\ mm_size2ndx(m[x].size) = i
    OBVIOUS
  <2>1. CASE i # n
    BY <1>5, <2>1 DEF Listed
  <2>2. CASE i = n /\ x = a
    BY <2>2 DEF n
  <2>3. CASE i = n /\ x # a
    <3>1. x \in ToSet(h.bins[i])
      BY <1>4, <1>5, <2>3
    <3> QED BY <3>1 DEF Listed
  <2> QED BY <2>1, <2>2, <2>3
<1>7. \A x \in S \cup {a} : x \in ToSet(b[mm_size2ndx(m[x].size)])
  <2> SUFFICES ASSUME NEW x \in S \cup {a} PROVE x \in ToSet(b[mm_size2ndx(m[x].size)])
    OBVIOUS
  <2>1. CASE x = a
    BY <1>4, <1>5, <2>1 DEF n
  <2>2. CASE x # a
    <3> DEFINE i == mm_size2ndx(m[x].size)
    <3>1. i \in Bins /\ x \in ToSet(h.bins[i])
      BY <1>2, <2>2 DEF Listed
    <3> HIDE DEF i
    <3>2. x \in ToSet(b[i])
      BY <1>4, <1>5, <3>1
    <3> QED BY <3>2 DEF i
  <2> QED BY <2>1, <2>2
<1>8. \A i \in Bins : Ordered(b[i], m)
  BY <1>4, <1>5 DEF Listed
<1>9. Listed(m, b, S \cup {a})
  BY <1>5, <1>6, <1>7, <1>8 DEF Listed
<1> QED BY <1>1, <1>9 DEF Shape

LEMMA SameListed ==
  ASSUME NEW m, NEW bins, NEW S, Listed(m, bins, S), NEW n, \A x \in S : n[x].size = m[x].size
  PROVE  Listed(n, bins, S)
<1>1. \A i \in Bins : \A k \in DOMAIN bins[i] : n[bins[i][k]].size = m[bins[i][k]].size
  BY DEF Listed, ToSet
<1>2. \A i \in Bins : Ordered(bins[i], n)
  BY <1>1 DEF Listed, Ordered
<1> QED BY <1>2 DEF Listed

(* The search finds the smallest chunk that is large enough *)
LEMMA SearchIs ==
  ASSUME NEW h, NEW S, Listed(h.mem, h.bins, S), S \subseteq Nat,
         \A x \in S : h.mem[x].size \in Nat, NEW need \in Nat
  PROVE  \/ Search(h, need) = NULL /\ \A x \in S : ~(h.mem[x].size >= need)
         \/ /\ Search(h, need) \in S /\ h.mem[Search(h, need)].size >= need
            /\ \A x \in S : h.mem[x].size >= need => h.mem[Search(h, need)].size <= h.mem[x].size
<1> DEFINE m == h.mem
           n == mm_size2ndx(need)
           L == {i \in Bins : i >= n /\ Fits(h, i, need) # {}}
           i == Min(L)
           k == Min(Fits(h, i, need))
           found == h.bins[i][k]
<1>0. n \in Nat /\ Bins \subseteq Nat
  BY Ndx, NNodesAssumption DEF Bins
<1>1. \A j \in Bins : /\ h.bins[j] \in Seq(Nat) /\ Fits(h, j, need) \in SUBSET Nat
                      /\ DOMAIN h.bins[j] \subseteq Nat
  BY DEF Listed, Fits
<1>2. ASSUME NEW x \in S, m[x].size >= need
      PROVE  \E j \in L : /\ j = mm_size2ndx(m[x].size)
                          /\ \E l \in Fits(h, j, need) : h.bins[j][l] = x
  <2> DEFINE j == mm_size2ndx(m[x].size)
  <2>1. j \in Bins /\ j >= n
    BY <1>2, Ndx
  <2>2. x \in ToSet(h.bins[j])
    BY DEF Listed
  <2> HIDE DEF j
  <2>3. PICK l \in DOMAIN h.bins[j] : h.bins[j][l] = x
    BY <2>2 DEF ToSet
  <2>4. l \in Fits(h, j, need)
    BY <1>2, <2>3 DEF Fits
  <2> QED BY <2>1, <2>3, <2>4 DEF j
<1>3. CASE L = {}
  <2>1. Search(h, need) = NULL
    BY <1>3 DEF Search
  <2> QED BY <1>2, <1>3, <2>1
<1>4. CASE L # {}
  <2>1. Search(h, need) = found
    BY <1>4 DEF Search
  <2>2. L \in SUBSET Nat
    BY <1>0
  <2>3. i \in L /\ \A j \in L : i <= j
    <3> HIDE DEF L
    <3> QED BY <1>4, <2>2, MinOfSet
  <2>4. i \in Bins /\ i >= n /\ Fits(h, i, need) # {}
    BY <2>3
  <2>5. \A j \in L : j \in Bins
    OBVIOUS
  <2> HIDE DEF L, i
  <2>6. k \in Fits(h, i, need) /\ \A l \in Fits(h, i, need) : k <= l
    BY <1>1, <2>4, MinOfSet
  <2> HIDE DEF k
  <2>7. k \in DOMAIN h.bins[i] /\ m[found].size >= need /\ found \in ToSet(h.bins[i])
    BY <2>6 DEF Fits, ToSet
  <2>8. found \in S /\ mm_size2ndx(m[found].size) = i
    BY <2>4, <2>7 DEF Listed
  <2>9. ASSUME NEW x \in S, m[x].size >= need PROVE m[found].size <= m[x].size
    <3>1. PICK j \in L : j = mm_size2ndx(m[x].size) /\ \E l \in Fits(h, j, need) : h.bins[j][l] = x
      BY <1>2, <2>9
    <3>2. i <= j /\ j \in Bins
      BY <2>3, <2>5
    <3>3. CASE j = i
      <4>1. PICK l \in Fits(h, i, need) : h.bins[i][l] = x
        BY <3>1, <3>3
      <4>2. l \in DOMAIN h.bins[i] /\ k <= l /\ k \in Nat /\ l \in Nat
        BY <1>1, <2>4, <2>6, <2>7, <4>1 DEF Fits
      <4>3. CASE k = l
        BY <2>8, <4>1, <4>3
      <4>4. CASE k < l
        BY <2>4, <2>7, <4>1, <4>2, <4>4 DEF Listed, Ordered
      <4> QED BY <4>2, <4>3, <4>4
    <3>4. CASE j # i
      <4>1. ~(mm_size2ndx(m[x].size) <= mm_size2ndx(m[found].size))
        <5>1. i \in Nat /\ j \in Nat /\ i <= j /\ j # i
          BY <1>0, <2>4, <3>2, <3>4
        <5>2. ~(j <= i)
          BY <5>1
        <5> QED BY <2>8, <3>1, <5>2
      <4>2. m[x].size \in Nat /\ m[found].size \in Nat
        BY <2>8
      <4> QED BY <4>1, <4>2, Ndx
    <3> QED BY <3>3, <3>4
  <2> QED BY <2>1, <2>7, <2>8, <2>9
<1> QED BY <1>3, <1>4

-----------------------------------------------------------------------------
(* The memory m of the regions R *)
Headers == [size : Nat \ {0}, preceding : Nat, alloc : BOOLEAN]

Bases(R) == {r.base : r \in R}
Ends(R) == {EndGuard(r) : r \in R}

Unalloc(m) == {x \in DOMAIN m : ~m[x].alloc}
Alloc(m) == {x \in DOMAIN m : m[x].alloc}

(* The chunk behind x, and the one before it *)
Behind(m, x) == x + m[x].size
Before(m, x) == x - m[x].preceding

Inside(x, R) == \E r \in R : r.base <= x /\ x <= EndGuard(r)

LinkedUp(m, x) ==
  /\ Behind(m, x) \in DOMAIN m /\ m[Behind(m, x)].preceding = m[x].size
  /\ \A y \in DOMAIN m : ~(x < y /\ y < Behind(m, x))

LinkedDown(m, x, R) ==
  /\ Before(m, x) \in DOMAIN m \ Ends(R)
  /\ m[Before(m, x)].size = m[x].preceding

Tiles(m, R) ==
  /\ DOMAIN m \subseteq Nat /\ m \in [DOMAIN m -> Headers]
  /\ R \subseteq Regions
  /\ Bases(R) \cup Ends(R) \subseteq Alloc(m)
  /\ \A x \in DOMAIN m : Inside(x, R)
  /\ \A x \in DOMAIN m \ Ends(R) : LinkedUp(m, x)
  /\ \A x \in DOMAIN m \ Bases(R) : LinkedDown(m, x, R)

(* No two free chunks lie side by side *)
Apart(m) == \A x \in Unalloc(m) : Behind(m, x) \notin Unalloc(m)

-----------------------------------------------------------------------------
(* What the layout of the memory says of a chunk *)
LEMMA ChunkFacts ==
  ASSUME NEW m, NEW R, Tiles(m, R), NEW x \in DOMAIN m
  PROVE  /\ x \in Nat /\ m[x] \in Headers /\ m[x].size \in Nat /\ m[x].size > 0
         /\ m[x].preceding \in Nat /\ m[x].alloc \in BOOLEAN
         /\ m[x] = Header(m[x].size, m[x].preceding, m[x].alloc)
BY DEF Tiles, Headers, Header

LEMMA HeaderFacts ==
  ASSUME NEW s, NEW p, NEW f
  PROVE  /\ Header(s, p, f).size = s /\ Header(s, p, f).preceding = p /\ Header(s, p, f).alloc = f
         /\ (s \in Nat /\ s > 0 /\ p \in Nat /\ f \in BOOLEAN => Header(s, p, f) \in Headers)
BY DEF Header, Headers

LEMMA HeaderTypes ==
  ASSUME NEW s \in Nat \ {0}, NEW p \in Nat
  PROVE  /\ Header(s, p, TRUE) \in Headers /\ Header(s, p, FALSE) \in Headers
         /\ Header(s, p, TRUE).size = s /\ Header(s, p, TRUE).preceding = p
         /\ Header(s, p, FALSE).size = s /\ Header(s, p, FALSE).preceding = p
         /\ Header(s, p, TRUE).alloc /\ ~Header(s, p, FALSE).alloc
BY DEF Header, Headers

LEMMA UpFacts ==
  ASSUME NEW m, NEW R, Tiles(m, R), NEW x \in DOMAIN m \ Ends(R)
  PROVE  /\ Behind(m, x) \in DOMAIN m /\ Behind(m, x) = x + m[x].size /\ Behind(m, x) > x
         /\ m[Behind(m, x)].preceding = m[x].size
         /\ \A y \in DOMAIN m : y <= x \/ Behind(m, x) <= y
<1>1. LinkedUp(m, x)
  BY DEF Tiles
<1>2. x \in Nat /\ m[x].size \in Nat /\ m[x].size > 0 /\ \A y \in DOMAIN m : y \in Nat
  BY ChunkFacts
<1> QED BY <1>1, <1>2 DEF LinkedUp, Behind

LEMMA DownFacts ==
  ASSUME NEW m, NEW R, Tiles(m, R), NEW x \in DOMAIN m \ Bases(R)
  PROVE  /\ Before(m, x) \in DOMAIN m \ Ends(R) /\ Before(m, x) = x - m[x].preceding
         /\ m[Before(m, x)].size = m[x].preceding
         /\ Behind(m, Before(m, x)) = x /\ Before(m, x) < x
<1>1. LinkedDown(m, x, R)
  BY DEF Tiles
<1>2. Before(m, x) \in DOMAIN m /\ m[Before(m, x)].size = m[x].preceding
  BY <1>1 DEF LinkedDown
<1>3. m[x].preceding \in Nat /\ m[x].preceding > 0 /\ x \in Nat
  BY <1>2, ChunkFacts
<1> QED BY <1>1, <1>2, <1>3 DEF LinkedDown, Behind, Before

(* Two chunks do not have the same chunk behind them *)
LEMMA OneBefore ==
  ASSUME NEW m, NEW R, Tiles(m, R), NEW x \in DOMAIN m \ Ends(R), NEW y \in DOMAIN m \ Ends(R),
         Behind(m, x) = Behind(m, y)
  PROVE  x = y
<1>1. m[x].size = m[y].size /\ x + m[x].size = y + m[y].size
  BY UpFacts
<1>2. x \in Nat /\ y \in Nat /\ m[x].size \in Nat
  BY ChunkFacts
<1> QED BY <1>1, <1>2

(* Behind and before are each other's inverse *)
LEMMA BehindBefore ==
  ASSUME NEW m, NEW R, Tiles(m, R), NEW x \in DOMAIN m \ Ends(R)
  PROVE  Before(m, Behind(m, x)) = x
<1>1. x \in Nat /\ m[x].size \in Nat
  BY ChunkFacts
<1> QED BY <1>1, UpFacts DEF Before

LEMMA MemChange ==
  ASSUME NEW h, Shape(h), NEW n
  PROVE  LET g == [h EXCEPT !.mem = n]
         IN Shape(g) /\ g.mem = n /\ g.bins = h.bins /\ g.regions = h.regions
BY DEF Shape

(* Join() *)
LEMMA JoinTiles ==
  ASSUME NEW h, Shape(h), NEW R, Tiles(h.mem, R), NEW a \in DOMAIN h.mem \ Ends(R),
         NEW b, b = Behind(h.mem, a), b \notin Bases(R) \cup Ends(R)
  PROVE  LET m == h.mem
             g == Join(h, a, b)
             n == g.mem
         IN /\ Shape(g) /\ g.bins = h.bins /\ g.regions = h.regions
            /\ Tiles(n, R) /\ DOMAIN n = DOMAIN m \ {b} /\ a \in DOMAIN n
            /\ n[a].size = m[a].size + m[b].size /\ n[a].preceding = m[a].preceding /\ n[a].alloc
            /\ \A x \in DOMAIN n \ {a} : n[x].size = m[x].size /\ n[x].alloc = m[x].alloc
            /\ Behind(n, a) = Behind(m, b)
<1> DEFINE m == h.mem
           size == m[a].size + m[b].size
           e == Behind(m, b)
           n == [x \in DOMAIN m \ {b} |->
                   CASE x = a -> Header(size, m[a].preceding, TRUE)
                     [] x = e -> Header(m[x].size, size, m[x].alloc)
                     [] OTHER -> m[x]]
<1> DEFINE g == [h EXCEPT !.mem = n]
<1>0. Join(h, a, b) = g
  BY DEF Join, NextOf, Behind
<1>1. Shape(g) /\ g.mem = n /\ g.bins = h.bins /\ g.regions = h.regions
  <2> HIDE DEF n
  <2> QED BY MemChange
<1> HIDE DEF g
<1>2. /\ a \in Nat /\ m[a].size \in Nat /\ m[a].size > 0 /\ m[a].preceding \in Nat
      /\ b \in DOMAIN m /\ b \in Nat /\ b = a + m[a].size /\ m[b].size \in Nat /\ m[b].size > 0
      /\ m[b].preceding = m[a].size
  BY ChunkFacts, UpFacts
<1>3. /\ e \in DOMAIN m /\ e = b + m[b].size /\ e \in Nat /\ m[e].preceding = m[b].size
      /\ \A y \in DOMAIN m : y <= b \/ e <= y
  BY <1>2, ChunkFacts, UpFacts
<1>4. a # b /\ e # a /\ e # b /\ size \in Nat /\ size > 0 /\ e = a + size
  BY <1>2, <1>3
<1>5. \A x \in DOMAIN m : /\ x \in Nat /\ m[x].size \in Nat /\ m[x].size > 0
                          /\ m[x].preceding \in Nat /\ m[x].alloc \in BOOLEAN /\ m[x] \in Headers
  BY ChunkFacts
<1> HIDE DEF m, e, size
<1>6. /\ DOMAIN n = DOMAIN m \ {b}
      /\ n[a] = Header(size, m[a].preceding, TRUE)
      /\ n[e] = Header(m[e].size, size, m[e].alloc)
      /\ \A x \in DOMAIN n \ {a, e} : n[x] = m[x]
  <2>1. DOMAIN n = DOMAIN m \ {b} /\ a \in DOMAIN m \ {b} /\ e \in DOMAIN m \ {b}
    BY <1>2, <1>3, <1>4 DEF m
  <2>2. n[a] = Header(size, m[a].preceding, TRUE)
    BY <1>4, <2>1
  <2>3. n[e] = Header(m[e].size, size, m[e].alloc)
    BY <1>4, <2>1
  <2>4. \A x \in DOMAIN n \ {a, e} : n[x] = m[x]
    BY <2>1
  <2> QED BY <2>1, <2>2, <2>3, <2>4
<1> HIDE DEF n
<1>7. /\ a \in DOMAIN n /\ e \in DOMAIN n /\ DOMAIN n \subseteq DOMAIN m
      /\ n[a].size = size /\ n[a].preceding = m[a].preceding /\ n[a].alloc
      /\ n[e].size = m[e].size /\ n[e].preceding = size /\ n[e].alloc = m[e].alloc
  <2>1. a \in DOMAIN n /\ e \in DOMAIN n /\ DOMAIN n \subseteq DOMAIN m
    BY <1>2, <1>3, <1>4, <1>6 DEF m
  <2>2. n[a].size = size /\ n[a].preceding = m[a].preceding /\ n[a].alloc
    BY <1>6 DEF Header
  <2>3. n[e].size = m[e].size /\ n[e].preceding = size /\ n[e].alloc = m[e].alloc
    BY <1>6, HeaderFacts
  <2> QED BY <2>1, <2>2, <2>3
<1>8. \A x \in DOMAIN n \ {a} : n[x].size = m[x].size /\ n[x].alloc = m[x].alloc
  BY <1>6, <1>7
<1>9. \A x \in DOMAIN n \ {e} : n[x].preceding = m[x].preceding
  BY <1>6, <1>7
<1>10. Behind(n, a) = e
  BY <1>4, <1>7 DEF Behind
<1>11. \A x \in DOMAIN n : n[x] \in Headers
  <2> SUFFICES ASSUME NEW x \in DOMAIN n PROVE n[x] \in Headers
    OBVIOUS
  <2>1. CASE x = a
    <3>1. size \in Nat \ {0} /\ m[a].preceding \in Nat
      BY <1>2, <1>4
    <3>2. Header(size, m[a].preceding, TRUE) \in Headers
      BY <3>1, HeaderTypes
    <3> QED BY <1>6, <2>1, <3>2
  <2>2. CASE x = e
    BY <1>3, <1>4, <1>5, <1>6, <2>2, HeaderFacts
  <2> QED BY <1>5, <1>6, <1>7, <2>1, <2>2
<1>12. n \in [DOMAIN n -> Headers] /\ DOMAIN n \subseteq Nat
  <2>1. n \in [DOMAIN n -> Headers]
    <3>1. n = [x \in DOMAIN n |-> n[x]]
      BY DEF n
    <3> QED BY <1>11, <3>1
  <2> QED BY <1>5, <1>7, <2>1
<1>13. Bases(R) \cup Ends(R) \subseteq Alloc(n)
  <2>1. Bases(R) \cup Ends(R) \subseteq Alloc(m)
    BY DEF Tiles, m
  <2> QED BY <1>6, <1>7, <1>8, <2>1 DEF Alloc
<1>14. ASSUME NEW x \in DOMAIN n \ Ends(R) PROVE LinkedUp(n, x)
  <2>1. CASE x = a
    <3>1. \A y \in DOMAIN m : y <= a \/ b <= y
      BY UpFacts DEF m
    <3>2. \A y \in DOMAIN n : y \in Nat /\ y # b /\ (y <= a \/ b <= y) /\ (y <= b \/ e <= y)
      BY <1>3, <1>5, <1>6, <3>1
    <3>3. \A y \in DOMAIN n : ~(a < y /\ y < e)
      BY <1>2, <1>3, <3>2
    <3> QED BY <1>7, <1>10, <2>1, <3>3 DEF LinkedUp
  <2>2. CASE x # a
    <3> DEFINE y == Behind(m, x)
    <3>1. x \in DOMAIN m \ Ends(R) /\ x # b
      BY <1>6, <1>14
    <3>2. /\ y \in DOMAIN m /\ m[y].preceding = m[x].size
          /\ \A z \in DOMAIN m : ~(x < z /\ z < y)
      BY <3>1 DEF Tiles, m, LinkedUp
    <3>3. y # b
      BY <1>2, <2>2, <3>1, OneBefore DEF m
    <3>4. y # e
      <4>1. b \in DOMAIN m \ Ends(R)
        BY <1>2
      <4> QED BY <3>1, <4>1, OneBefore DEF m, e
    <3>5. Behind(n, x) = y
      BY <1>8, <2>2, <1>14 DEF Behind
    <3> HIDE DEF y
    <3>6. y \in DOMAIN n /\ n[y].preceding = m[y].preceding /\ n[x].size = m[x].size
      BY <1>6, <1>8, <1>9, <1>14, <2>2, <3>2, <3>3, <3>4
    <3> QED BY <1>7, <3>2, <3>5, <3>6 DEF LinkedUp
  <2> QED BY <2>1, <2>2
<1>15. ASSUME NEW x \in DOMAIN n \ Bases(R) PROVE LinkedDown(n, x, R)
  <2>1. CASE x = e
    <3>1. Before(n, e) = a
      BY <1>2, <1>4, <1>7 DEF Before
    <3> QED BY <1>7, <2>1, <3>1 DEF LinkedDown
  <2>2. CASE x # e
    <3> DEFINE y == Before(m, x)
    <3>1. x \in DOMAIN m \ Bases(R) /\ x # b
      BY <1>6, <1>15
    <3>2. /\ y \in DOMAIN m \ Ends(R) /\ m[y].size = m[x].preceding
          /\ Behind(m, y) = x
      BY <3>1, DownFacts DEF m
    <3>3. Before(n, x) = y
      BY <1>9, <1>15, <2>2 DEF Before
    <3> HIDE DEF y
    <3>4. y # b /\ y # a
      BY <2>2, <3>1, <3>2 DEF e, m
    <3> QED BY <1>6, <1>8, <1>9, <1>15, <2>2, <3>2, <3>3, <3>4 DEF LinkedDown
  <2> QED BY <2>1, <2>2
<1>16. Tiles(n, R)
  <2>1. \A x \in DOMAIN n : Inside(x, R)
    BY <1>7 DEF Tiles, m
  <2>2. R \subseteq Regions
    BY DEF Tiles
  <2> QED BY <1>12, <1>13, <1>14, <1>15, <2>1, <2>2 DEF Tiles
<1> QED BY <1>0, <1>1, <1>6, <1>7, <1>8, <1>10, <1>16 DEF m, size, e

(* Cut() *)
CutWell(h, R, a, size, low, high) ==
  LET m == h.mem
      g == Cut(h, a, size, low, high)
      n == g.mem
      b == a + size
  IN /\ Shape(g) /\ g.bins = h.bins /\ g.regions = h.regions
     /\ Tiles(n, R) /\ DOMAIN n = DOMAIN m \cup {b} /\ b \notin DOMAIN m
     /\ n[a].size = size /\ n[a].alloc = low /\ n[a].preceding = m[a].preceding
     /\ n[b].size = m[a].size - size /\ n[b].alloc = high
     /\ \A x \in DOMAIN m \ {a} : n[x].size = m[x].size /\ n[x].alloc = m[x].alloc
     /\ Behind(n, a) = b /\ Behind(n, b) = Behind(m, a)

LEMMA CutTiles ==
  ASSUME NEW h, Shape(h), NEW R, Tiles(h.mem, R),
         NEW a \in DOMAIN h.mem \ (Bases(R) \cup Ends(R)),
         NEW size \in Nat, 0 < size, size < h.mem[a].size,
         NEW low \in BOOLEAN, NEW high \in BOOLEAN
  PROVE  CutWell(h, R, a, size, low, high)
<1> DEFINE m == h.mem
           b == a + size
           rest == m[a].size - size
           e == Behind(m, a)
           n == [x \in DOMAIN m \cup {b} |->
                   CASE x = a -> Header(size, m[a].preceding, low)
                     [] x = b -> Header(rest, size, high)
                     [] x = e -> Header(m[x].size, rest, m[x].alloc)
                     [] OTHER -> m[x]]
<1> DEFINE g == [h EXCEPT !.mem = n]
<1>0. Cut(h, a, size, low, high) = g
  BY DEF Cut, NextOf, Behind
<1>1. Shape(g) /\ g.mem = n /\ g.bins = h.bins /\ g.regions = h.regions
  <2> HIDE DEF n
  <2> QED BY MemChange
<1> HIDE DEF g
<1>2. /\ a \in DOMAIN m \ Ends(R) /\ a \in DOMAIN m \ Bases(R)
      /\ a \in Nat /\ m[a].size \in Nat /\ size < m[a].size /\ m[a].preceding \in Nat
  BY ChunkFacts
<1>3. /\ e \in DOMAIN m /\ e = a + m[a].size /\ e \in Nat /\ m[e].preceding = m[a].size
      /\ \A y \in DOMAIN m : y <= a \/ e <= y
  BY <1>2, ChunkFacts, UpFacts
<1>4. /\ b \in Nat /\ b # a /\ b # e /\ a # e /\ a < b /\ b < e /\ b = a + size
      /\ rest \in Nat /\ rest > 0 /\ e = b + rest
  BY <1>2, <1>3
<1>5. b \notin DOMAIN m
  BY <1>2, <1>3, <1>4
<1>6. \A x \in DOMAIN m : /\ x \in Nat /\ m[x].size \in Nat /\ m[x].size > 0
                          /\ m[x].preceding \in Nat /\ m[x].alloc \in BOOLEAN /\ m[x] \in Headers
  BY ChunkFacts
<1> HIDE DEF m, e, rest, b
<1>7. /\ DOMAIN n = DOMAIN m \cup {b}
      /\ n[a] = Header(size, m[a].preceding, low)
      /\ n[b] = Header(rest, size, high)
      /\ n[e] = Header(m[e].size, rest, m[e].alloc)
      /\ \A x \in DOMAIN n \ {a, b, e} : n[x] = m[x]
  <2>1. DOMAIN n = DOMAIN m \cup {b} /\ {a, b, e} \subseteq DOMAIN m \cup {b}
    BY <1>2, <1>3
  <2>2. n[a] = Header(size, m[a].preceding, low)
    BY <1>4, <2>1
  <2>3. n[b] = Header(rest, size, high)
    BY <1>4, <2>1
  <2>4. n[e] = Header(m[e].size, rest, m[e].alloc)
    BY <1>4, <2>1
  <2>5. \A x \in DOMAIN n \ {a, b, e} : n[x] = m[x]
    BY <2>1
  <2> QED BY <2>1, <2>2, <2>3, <2>4, <2>5
<1>8. /\ n = [x \in DOMAIN n |-> n[x]]
      /\ n[a].size = size /\ n[a].preceding = m[a].preceding /\ n[a].alloc = low
      /\ n[b].size = rest /\ n[b].preceding = size /\ n[b].alloc = high
      /\ n[e].size = m[e].size /\ n[e].preceding = rest /\ n[e].alloc = m[e].alloc
  <2>1. n = [x \in DOMAIN n |-> n[x]]
    OBVIOUS
  <2> HIDE DEF n
  <2> QED BY <1>7, <2>1, HeaderFacts
<1> HIDE DEF n
<1>9. {a, b, e} \subseteq DOMAIN n /\ DOMAIN m \subseteq DOMAIN n
  BY <1>2, <1>3, <1>7
<1>10. \A x \in DOMAIN m \ {a} : n[x].size = m[x].size /\ n[x].alloc = m[x].alloc
  BY <1>5, <1>7, <1>8
<1>11. \A x \in DOMAIN m \ {e} : n[x].preceding = m[x].preceding
  BY <1>5, <1>7, <1>8
<1>12. Behind(n, a) = b /\ Behind(n, b) = e
  BY <1>4, <1>8 DEF Behind
<1>13. \A x \in DOMAIN n : n[x] \in Headers
  <2> SUFFICES ASSUME NEW x \in DOMAIN n PROVE n[x] \in Headers
    OBVIOUS
  <2>1. CASE x = a
    BY <1>2, <1>7, <2>1, HeaderFacts
  <2>2. CASE x = b
    BY <1>4, <1>7, <2>2, HeaderFacts
  <2>3. CASE x = e
    BY <1>3, <1>4, <1>6, <1>7, <2>3, HeaderFacts
  <2> QED BY <1>6, <1>7, <2>1, <2>2, <2>3
<1>14. n \in [DOMAIN n -> Headers] /\ DOMAIN n \subseteq Nat
  BY <1>4, <1>6, <1>7, <1>8, <1>13
<1>15. Bases(R) \cup Ends(R) \subseteq DOMAIN m /\ Bases(R) \cup Ends(R) \subseteq Alloc(n)
  <2>1. Bases(R) \cup Ends(R) \subseteq Alloc(m)
    BY DEF Tiles, m
  <2>2. a \notin Bases(R) \cup Ends(R)
    OBVIOUS
  <2> QED BY <1>9, <1>10, <2>1, <2>2 DEF Alloc
<1>16. ASSUME NEW x \in DOMAIN n PROVE Inside(x, R)
  <2>1. \A y \in DOMAIN m : Inside(y, R)
    BY DEF Tiles, m
  <2>2. CASE x = b
    <3>1. PICK r \in R : r.base <= a /\ a <= EndGuard(r)
      BY <1>2, <2>1 DEF Inside
    <3>2. EndGuard(r) \in DOMAIN m /\ EndGuard(r) # a
      BY <1>15 DEF Ends
    <3>3. EndGuard(r) \in Nat /\ e <= EndGuard(r)
      BY <1>2, <1>3, <1>6, <3>1, <3>2
    <3>4. r.base \in Nat
      BY RegionsAssumption DEF Tiles
    <3> QED BY <1>2, <1>3, <1>4, <2>2, <3>1, <3>3, <3>4 DEF Inside
  <2> QED BY <1>7, <2>1, <2>2
<1>17. ASSUME NEW x \in DOMAIN n \ Ends(R) PROVE LinkedUp(n, x)
  <2>1. CASE x = a
    <3>1. \A y \in DOMAIN n : ~(a < y /\ y < b)
      BY <1>2, <1>3, <1>4, <1>6, <1>7
    <3> QED BY <1>8, <1>9, <1>12, <2>1, <3>1 DEF LinkedUp
  <2>2. CASE x = b
    <3>1. \A y \in DOMAIN n : ~(b < y /\ y < e)
      BY <1>2, <1>3, <1>4, <1>6, <1>7
    <3> QED BY <1>8, <1>9, <1>12, <2>2, <3>1 DEF LinkedUp
  <2>3. CASE x # a /\ x # b
    <3> DEFINE y == Behind(m, x)
    <3>1. x \in DOMAIN m \ Ends(R)
      BY <1>7, <1>17, <2>3
    <3>2. /\ y \in DOMAIN m /\ m[y].preceding = m[x].size /\ y \in Nat
          /\ \A z \in DOMAIN m : ~(x < z /\ z < y)
      BY <1>6, <3>1 DEF Tiles, m, LinkedUp
    <3>3. y # e
      BY <1>2, <2>3, <3>1, OneBefore DEF m, e
    <3>4. Behind(n, x) = y
      BY <1>10, <2>3, <3>1 DEF Behind
    <3>5. ~(x < b /\ b < y)
      <4> SUFFICES ASSUME x < b, b < y PROVE FALSE
        OBVIOUS
      <4>1. x \in Nat /\ (x <= a \/ e <= x)
        BY <1>3, <1>6, <3>1
      <4>2. x < a
        BY <1>2, <1>3, <1>4, <2>3, <4>1
      <4>3. a < y
        BY <1>2, <1>4, <3>2
      <4> QED BY <1>2, <3>2, <4>2, <4>3
    <3> HIDE DEF y
    <3>6. n[y].preceding = m[y].preceding /\ n[x].size = m[x].size
      BY <1>10, <1>11, <2>3, <3>1, <3>2, <3>3
    <3> QED BY <1>7, <3>2, <3>4, <3>5, <3>6 DEF LinkedUp
  <2> QED BY <2>1, <2>2, <2>3
<1>18. ASSUME NEW x \in DOMAIN n \ Bases(R) PROVE LinkedDown(n, x, R)
  <2>0. a \notin Ends(R) /\ b \notin Ends(R)
    BY <1>5, <1>15
  <2>1. CASE x = b
    <3>1. Before(n, b) = a
      BY <1>2, <1>4, <1>8 DEF Before
    <3> QED BY <1>8, <1>9, <2>0, <2>1, <3>1 DEF LinkedDown
  <2>2. CASE x = e
    <3>1. Before(n, e) = b
      BY <1>4, <1>8 DEF Before
    <3> QED BY <1>8, <1>9, <2>0, <2>2, <3>1 DEF LinkedDown
  <2>3. CASE x # e /\ x # b
    <3> DEFINE y == Before(m, x)
    <3>1. x \in DOMAIN m \ Bases(R)
      BY <1>7, <1>18, <2>3
    <3>2. /\ y \in DOMAIN m \ Ends(R) /\ m[y].size = m[x].preceding
          /\ Behind(m, y) = x
      BY <3>1, DownFacts DEF m
    <3>3. Before(n, x) = y
      BY <1>11, <2>3, <3>1 DEF Before
    <3> HIDE DEF y
    <3>4. y # a
      BY <2>3, <3>2 DEF e, m
    <3> QED BY <1>7, <1>10, <1>11, <2>3, <3>1, <3>2, <3>3, <3>4 DEF LinkedDown
  <2> QED BY <2>1, <2>2, <2>3
<1>19. Tiles(n, R)
  <2>1. R \subseteq Regions
    BY DEF Tiles
  <2> QED BY <1>14, <1>15, <1>16, <1>17, <1>18, <2>1 DEF Tiles
<1> QED BY <1>0, <1>1, <1>5, <1>7, <1>8, <1>10, <1>12, <1>19 DEF m, rest, b, e, CutWell

(* The flag of a chunk that is not a guard *)
Flag(h, a, f) == [h EXCEPT !.mem[a].alloc = f]

Flagged(h, R, a, f) ==
  LET m == h.mem
      g == Flag(h, a, f)
      n == g.mem
  IN /\ Shape(g) /\ g.bins = h.bins /\ g.regions = h.regions
     /\ Tiles(n, R) /\ DOMAIN n = DOMAIN m /\ n[a].alloc = f
     /\ \A x \in DOMAIN m : n[x].size = m[x].size /\ n[x].preceding = m[x].preceding
     /\ \A x \in DOMAIN m \ {a} : n[x].alloc = m[x].alloc

LEMMA FlagTiles ==
  ASSUME NEW h, Shape(h), NEW R, Tiles(h.mem, R),
         NEW a \in DOMAIN h.mem \ (Bases(R) \cup Ends(R)), NEW f \in BOOLEAN
  PROVE  Flagged(h, R, a, f)
<1> DEFINE m == h.mem
           n == [m EXCEPT ![a].alloc = f]
           g == [h EXCEPT !.mem = n]
<1>0. Flag(h, a, f) = g
  BY DEF Shape, Flag
<1>1. Shape(g) /\ g.mem = n /\ g.bins = h.bins /\ g.regions = h.regions
  <2> HIDE DEF n
  <2> QED BY MemChange
<1> HIDE DEF g
<1>2. DOMAIN m \subseteq Nat /\ m \in [DOMAIN m -> Headers] /\ a \in DOMAIN m
  BY DEF Tiles
<1> HIDE DEF m
<1>3. n \in [DOMAIN m -> Headers] /\ DOMAIN n = DOMAIN m
  BY <1>2 DEF Headers
<1>4. \A x \in DOMAIN m : n[x].size = m[x].size /\ n[x].preceding = m[x].preceding
  BY <1>2 DEF Headers
<1>5. n[a].alloc = f /\ \A x \in DOMAIN m \ {a} : n[x].alloc = m[x].alloc
  BY <1>2 DEF Headers
<1> HIDE DEF n
<1>6. \A x \in DOMAIN m : Behind(n, x) = Behind(m, x) /\ Before(n, x) = Before(m, x)
  BY <1>4 DEF Behind, Before
<1>7. Bases(R) \cup Ends(R) \subseteq Alloc(n)
  BY <1>3, <1>5 DEF Tiles, Alloc, m
<1>8. \A x \in DOMAIN n : Inside(x, R)
  BY <1>3 DEF Tiles, m
<1>9. ASSUME NEW x \in DOMAIN n \ Ends(R) PROVE LinkedUp(n, x)
  <2>1. LinkedUp(m, x)
    BY <1>3 DEF Tiles, m
  <2> QED BY <1>3, <1>4, <1>6, <2>1 DEF LinkedUp
<1>10. ASSUME NEW x \in DOMAIN n \ Bases(R) PROVE LinkedDown(n, x, R)
  <2>1. LinkedDown(m, x, R)
    BY <1>3 DEF Tiles, m
  <2> QED BY <1>3, <1>4, <1>6, <2>1 DEF LinkedDown
<1>11. Tiles(n, R)
  BY <1>2, <1>3, <1>7, <1>8, <1>9, <1>10 DEF Tiles
<1> QED BY <1>0, <1>1, <1>3, <1>4, <1>5, <1>11 DEF m, Flagged

-----------------------------------------------------------------------------
(* A heap whose memory and free list agree *)
Good(h) ==
  /\ Shape(h) /\ Tiles(h.mem, h.regions)
  /\ Listed(h.mem, h.bins, Unalloc(h.mem))

GuardsOf(h) == Bases(h.regions) \cup Ends(h.regions)

(* The sizes and flags of the chunks in X are the same in both memories *)
Same(m, n, X) ==
  /\ X \subseteq DOMAIN m /\ X \subseteq DOMAIN n
  /\ \A x \in X : n[x].size = m[x].size /\ n[x].alloc = m[x].alloc

LEMMA GoodFacts ==
  ASSUME NEW h, Good(h)
  PROVE  /\ Shape(h) /\ Tiles(h.mem, h.regions) /\ Listed(h.mem, h.bins, Unalloc(h.mem))
         /\ Unalloc(h.mem) \subseteq DOMAIN h.mem /\ Alloc(h.mem) \subseteq DOMAIN h.mem
         /\ DOMAIN h.mem = Unalloc(h.mem) \cup Alloc(h.mem)
         /\ Unalloc(h.mem) \cap Alloc(h.mem) = {}
         /\ DOMAIN h.mem \subseteq Nat /\ \A x \in DOMAIN h.mem : h.mem[x].size \in Nat /\ h.mem[x].size > 0
         /\ GuardsOf(h) \subseteq Alloc(h.mem)
<1>1. Shape(h) /\ Tiles(h.mem, h.regions) /\ Listed(h.mem, h.bins, Unalloc(h.mem))
  BY DEF Good
<1>2. \A x \in DOMAIN h.mem : h.mem[x].size \in Nat /\ h.mem[x].size > 0 /\ h.mem[x].alloc \in BOOLEAN
  BY <1>1, ChunkFacts
<1> QED BY <1>1, <1>2 DEF Tiles, Unalloc, Alloc, GuardsOf

(* mm_addfreechunk() of the one free chunk that is not in the list *)
LEMMA AddGood ==
  ASSUME NEW h, Shape(h), Tiles(h.mem, h.regions), NEW a \in Unalloc(h.mem),
         Listed(h.mem, h.bins, Unalloc(h.mem) \ {a})
  PROVE  LET g == mm_addfreechunk(h, a)
         IN Good(g) /\ g.mem = h.mem /\ g.regions = h.regions
<1> DEFINE g == mm_addfreechunk(h, a)
           S == Unalloc(h.mem) \ {a}
<1>1. \A x \in DOMAIN h.mem : x \in Nat /\ h.mem[x].size \in Nat
  BY ChunkFacts
<1>2. a \in Nat \ S /\ \A x \in S \cup {a} : h.mem[x].size \in Nat
  BY <1>1 DEF Unalloc
<1>3. S \cup {a} = Unalloc(h.mem)
  OBVIOUS
<1> HIDE DEF S
<1>4. Shape(g) /\ g.mem = h.mem /\ g.regions = h.regions /\ Listed(h.mem, g.bins, S \cup {a})
  BY <1>2, AddListed DEF S
<1> HIDE DEF g
<1>5. Good(g)
  BY <1>3, <1>4 DEF Good
<1> QED BY <1>4, <1>5 DEF g

(* A free chunk becomes allocated *)
LEMMA ClaimGood ==
  ASSUME NEW h, Good(h), NEW a \in Unalloc(h.mem)
  PROVE  LET g == Claim(h, a)
             m == h.mem
             n == g.mem
         IN /\ Good(g) /\ g.regions = h.regions
            /\ Same(m, n, DOMAIN m \ {a}) /\ DOMAIN n = DOMAIN m
            /\ Alloc(n) = Alloc(m) \cup {a} /\ Unalloc(n) = Unalloc(m) \ {a}
            /\ n[a].size = m[a].size
            /\ Apart(m) => Apart(n) /\ Behind(n, a) \notin Unalloc(n)
<1> DEFINE R == h.regions
           m == h.mem
           u == Unlink(h, a)
           g == Flag(u, a, TRUE)
           n == g.mem
<1>0. Claim(h, a) = g
  BY DEF Claim, Flag
<1>1. /\ Shape(h) /\ Tiles(m, R) /\ Listed(m, h.bins, Unalloc(m)) /\ a \in DOMAIN m
      /\ a \notin Bases(R) \cup Ends(R) /\ \A x \in Unalloc(m) : m[x].size \in Nat
  BY GoodFacts DEF GuardsOf
<1> HIDE DEF m
<1>2. Shape(u) /\ u.mem = m /\ u.regions = R /\ Listed(m, u.bins, Unalloc(m) \ {a})
  BY <1>1, UnlinkListed DEF m
<1> HIDE DEF u
<1>3. a \in DOMAIN u.mem \ (Bases(R) \cup Ends(R)) /\ TRUE \in BOOLEAN /\ Tiles(u.mem, R)
  BY <1>1, <1>2
<1>4. /\ Shape(g) /\ g.bins = u.bins /\ g.regions = R
      /\ Tiles(n, R) /\ DOMAIN n = DOMAIN m /\ n[a].alloc = TRUE
      /\ \A x \in DOMAIN m : n[x].size = m[x].size
      /\ \A x \in DOMAIN m \ {a} : n[x].alloc = m[x].alloc
  <2>1. Flagged(u, R, a, TRUE)
    BY <1>2, <1>3, FlagTiles
  <2> QED BY <1>2, <2>1 DEF Flagged
<1> HIDE DEF n, g, R
<1>5. Unalloc(n) = Unalloc(m) \ {a} /\ Alloc(n) = Alloc(m) \cup {a}
  BY <1>1, <1>4 DEF Unalloc, Alloc
<1>6. Listed(n, g.bins, Unalloc(n))
  <2>1. \A x \in Unalloc(n) : n[x].size = m[x].size
    BY <1>4 DEF Unalloc
  <2> QED BY <1>2, <1>4, <1>5, <2>1, SameListed
<1>7. Good(g)
  BY <1>4, <1>6 DEF Good, n
<1>8. \A x \in DOMAIN m : Behind(n, x) = Behind(m, x)
  BY <1>4 DEF Behind
<1>9. Apart(m) => Apart(n) /\ Behind(n, a) \notin Unalloc(n)
  <2>1. \A x \in Unalloc(m) : Behind(n, x) = Behind(m, x)
    BY <1>8 DEF Unalloc
  <2>2. a \in Unalloc(m) /\ Unalloc(n) \subseteq Unalloc(m)
    BY <1>5 DEF m
  <2> QED BY <2>1, <2>2 DEF Apart
<1>10. Same(m, n, DOMAIN m \ {a})
  BY <1>4 DEF Same
<1> QED BY <1>0, <1>1, <1>4, <1>5, <1>7, <1>9, <1>10 DEF n, m, R

(* An allocated chunk becomes free *)
LEMMA ReleaseGood ==
  ASSUME NEW h, Good(h), NEW a \in Alloc(h.mem) \ GuardsOf(h)
  PROVE  LET g == Release(h, a)
             m == h.mem
             n == g.mem
         IN /\ Good(g) /\ g.regions = h.regions
            /\ Same(m, n, DOMAIN m \ {a}) /\ DOMAIN n = DOMAIN m
            /\ Alloc(n) = Alloc(m) \ {a} /\ Unalloc(n) = Unalloc(m) \cup {a}
            /\ Apart(m) /\ Behind(m, a) \notin Unalloc(m) /\ Before(m, a) \notin Unalloc(m) => Apart(n)
<1> DEFINE R == h.regions
           m == h.mem
           u == Flag(h, a, FALSE)
           n == u.mem
           g == mm_addfreechunk(u, a)
<1>0. Release(h, a) = g
  BY DEF Release, Flag
<1>1. /\ Shape(h) /\ Tiles(m, R) /\ Listed(m, h.bins, Unalloc(m))
      /\ a \in DOMAIN m \ (Bases(R) \cup Ends(R)) /\ a \notin Unalloc(m) /\ FALSE \in BOOLEAN
  BY GoodFacts DEF GuardsOf
<1>2. /\ Shape(u) /\ u.bins = h.bins /\ u.regions = R
      /\ Tiles(n, R) /\ DOMAIN n = DOMAIN m /\ n[a].alloc = FALSE
      /\ \A x \in DOMAIN m : n[x].size = m[x].size
      /\ \A x \in DOMAIN m \ {a} : n[x].alloc = m[x].alloc
  <2>1. Flagged(h, R, a, FALSE)
    BY <1>1, FlagTiles
  <2> QED BY <1>1, <2>1 DEF Flagged
<1> HIDE DEF u, n, m, R
<1>3. Unalloc(n) = Unalloc(m) \cup {a} /\ Alloc(n) = Alloc(m) \ {a} /\ Unalloc(n) \ {a} = Unalloc(m)
  BY <1>1, <1>2 DEF Unalloc, Alloc
<1>4. Listed(n, u.bins, Unalloc(n) \ {a})
  <2>1. \A x \in Unalloc(m) : n[x].size = m[x].size
    BY <1>2 DEF Unalloc
  <2>2. Listed(n, h.bins, Unalloc(m))
    BY <1>1, <2>1, SameListed
  <2> QED BY <1>2, <1>3, <2>2
<1>5. Good(g) /\ g.mem = n /\ g.regions = R
  <2>1. a \in Unalloc(u.mem) /\ Tiles(u.mem, u.regions) /\ Listed(u.mem, u.bins, Unalloc(u.mem) \ {a})
    BY <1>2, <1>3, <1>4 DEF n
  <2> QED BY <1>2, <2>1, AddGood DEF n
<1>6. \A x \in DOMAIN m : Behind(n, x) = Behind(m, x)
  BY <1>2 DEF Behind
<1>7. Apart(m) /\ Behind(m, a) \notin Unalloc(m) /\ Before(m, a) \notin Unalloc(m) => Apart(n)
  <2> SUFFICES ASSUME Apart(m), Behind(m, a) \notin Unalloc(m), Before(m, a) \notin Unalloc(m),
                      NEW x \in Unalloc(n)
               PROVE  Behind(n, x) \notin Unalloc(n)
    BY DEF Apart
  <2>0. x \in DOMAIN m /\ Behind(n, x) = Behind(m, x)
    BY <1>2, <1>6 DEF Unalloc
  <2>1. CASE x = a
    <3>0. a \in DOMAIN m \ Ends(R) /\ a \in Nat
      BY <1>1, ChunkFacts
    <3>1. Behind(m, a) # a
      <4>1. m[a].size \in Nat /\ m[a].size > 0
        BY <1>1, ChunkFacts
      <4> QED BY <3>0, <4>1 DEF Behind
    <3> QED BY <1>3, <2>0, <2>1, <3>1
  <2>2. CASE x # a
    <3>1. x \in Unalloc(m) /\ Behind(m, x) \notin Unalloc(m)
      BY <1>3, <2>2 DEF Apart
    <3>2. Behind(m, x) # a
      <4>1. x \in DOMAIN m \ Ends(R)
        BY <1>1, <2>0, <3>1 DEF Tiles, Alloc, Unalloc
      <4> QED BY <1>1, <3>1, <4>1, BehindBefore
    <3> QED BY <1>3, <2>0, <3>1, <3>2
  <2> QED BY <2>1, <2>2
<1>8. Same(m, n, DOMAIN m \ {a})
  BY <1>2 DEF Same
<1> HIDE DEF g
<1> QED BY <1>0, <1>2, <1>3, <1>5, <1>7, <1>8 DEF m, R
(* TakeNext() *)
LEMMA TakeNextGood ==
  ASSUME NEW h, Good(h), NEW a \in Alloc(h.mem) \ GuardsOf(h),
         Behind(h.mem, a) \in Unalloc(h.mem)
  PROVE  LET g == TakeNext(h, a)
             m == h.mem
             n == g.mem
             b == Behind(m, a)
         IN /\ Good(g) /\ g.regions = h.regions
            /\ DOMAIN n = DOMAIN m \ {b} /\ Same(m, n, DOMAIN m \ {a, b})
            /\ Alloc(n) = Alloc(m) /\ Unalloc(n) = Unalloc(m) \ {b}
            /\ n[a].size = m[a].size + m[b].size /\ Before(n, a) = Before(m, a)
            /\ Apart(m) => Apart(n) /\ Behind(n, a) \notin Unalloc(n)
<1> DEFINE R == h.regions
           m == h.mem
           b == Behind(m, a)
           u == Unlink(h, b)
           g == Join(u, a, b)
           n == g.mem
<1>0. TakeNext(h, a) = g
  BY DEF TakeNext, NextOf, Behind
<1>1. /\ Shape(h) /\ Tiles(m, R) /\ Listed(m, h.bins, Unalloc(m))
      /\ a \in DOMAIN m \ Ends(R) /\ a \in Alloc(m) /\ a \notin Unalloc(m)
      /\ b \in Unalloc(m) /\ b \in DOMAIN m /\ b \notin Alloc(m) /\ a # b
      /\ b \notin Bases(R) \cup Ends(R) /\ \A x \in Unalloc(m) : m[x].size \in Nat
      /\ Unalloc(m) \subseteq DOMAIN m
  BY GoodFacts DEF GuardsOf
<1> HIDE DEF m, b
<1>2. Shape(u) /\ u.mem = m /\ u.regions = R /\ Listed(m, u.bins, Unalloc(m) \ {b})
  BY <1>1, UnlinkListed DEF m
<1> HIDE DEF u
<1>3. /\ Shape(g) /\ g.bins = u.bins /\ g.regions = R
      /\ Tiles(n, R) /\ DOMAIN n = DOMAIN m \ {b} /\ a \in DOMAIN n
      /\ n[a].size = m[a].size + m[b].size /\ n[a].preceding = m[a].preceding /\ n[a].alloc
      /\ \A x \in DOMAIN n \ {a} : n[x].size = m[x].size /\ n[x].alloc = m[x].alloc
      /\ Behind(n, a) = Behind(m, b)
  <2>1. Tiles(u.mem, R) /\ a \in DOMAIN u.mem \ Ends(R) /\ b = Behind(u.mem, a)
    BY <1>1, <1>2 DEF b
  <2> QED BY <1>1, <1>2, <2>1, JoinTiles
<1> HIDE DEF n, g, R
<1>4. Unalloc(n) = Unalloc(m) \ {b} /\ Alloc(n) = Alloc(m)
  BY <1>1, <1>3 DEF Unalloc, Alloc
<1>5. Listed(n, g.bins, Unalloc(n))
  <2>1. \A x \in Unalloc(n) : n[x].size = m[x].size
    BY <1>1, <1>3, <1>4
  <2> QED BY <1>2, <1>3, <1>4, <2>1, SameListed
<1>6. Good(g)
  BY <1>3, <1>5 DEF Good, n
<1>7. \A x \in Unalloc(n) : x \in Unalloc(m) /\ Behind(n, x) = Behind(m, x)
  BY <1>1, <1>3, <1>4 DEF Behind
<1>8. Apart(m) => Apart(n) /\ Behind(n, a) \notin Unalloc(n)
  BY <1>1, <1>3, <1>4, <1>7 DEF Apart
<1>9. Same(m, n, DOMAIN m \ {a, b})
  BY <1>3 DEF Same
<1>10. Before(n, a) = Before(m, a)
  BY <1>3 DEF Before
<1> QED BY <1>0, <1>3, <1>4, <1>6, <1>8, <1>9, <1>10 DEF n, m, R, b

(* TakePrev() *)
LEMMA TakePrevGood ==
  ASSUME NEW h, Good(h), NEW a \in Alloc(h.mem) \ GuardsOf(h),
         Before(h.mem, a) \in Unalloc(h.mem)
  PROVE  LET g == TakePrev(h, a)
             m == h.mem
             n == g.mem
             p == Before(m, a)
         IN /\ Good(g) /\ g.regions = h.regions
            /\ DOMAIN n = DOMAIN m \ {a} /\ Same(m, n, DOMAIN m \ {a, p})
            /\ Alloc(n) = (Alloc(m) \ {a}) \cup {p} /\ Unalloc(n) = Unalloc(m) \ {p}
            /\ n[p].size = m[p].size + m[a].size /\ Behind(n, p) = Behind(m, a)
            /\ Apart(m) => Apart(n) /\ Before(n, p) \notin Unalloc(n)
<1> DEFINE R == h.regions
           m == h.mem
           p == Before(m, a)
           u == Unlink(h, p)
           g == Join(u, p, a)
           n == g.mem
<1>0. TakePrev(h, a) = g
  BY DEF TakePrev, PrevOf, Before
<1>1. /\ Shape(h) /\ Tiles(m, R) /\ Listed(m, h.bins, Unalloc(m))
      /\ a \in DOMAIN m \ Bases(R) /\ a \in Alloc(m) /\ a \notin Unalloc(m)
      /\ a \notin Bases(R) \cup Ends(R)
      /\ p \in Unalloc(m) /\ p \in DOMAIN m /\ p \notin Alloc(m) /\ a # p
      /\ p \in DOMAIN m \ Bases(R) /\ \A x \in Unalloc(m) : m[x].size \in Nat
      /\ Unalloc(m) \subseteq DOMAIN m
  BY GoodFacts DEF GuardsOf
<1>2. p \in DOMAIN m \ Ends(R) /\ a = Behind(m, p)
  BY <1>1, DownFacts
<1> HIDE DEF m, p
<1>3. Shape(u) /\ u.mem = m /\ u.regions = R /\ Listed(m, u.bins, Unalloc(m) \ {p})
  BY <1>1, UnlinkListed DEF m
<1> HIDE DEF u
<1>4. /\ Shape(g) /\ g.bins = u.bins /\ g.regions = R
      /\ Tiles(n, R) /\ DOMAIN n = DOMAIN m \ {a} /\ p \in DOMAIN n
      /\ n[p].size = m[p].size + m[a].size /\ n[p].preceding = m[p].preceding /\ n[p].alloc
      /\ \A x \in DOMAIN n \ {p} : n[x].size = m[x].size /\ n[x].alloc = m[x].alloc
      /\ Behind(n, p) = Behind(m, a)
  <2>1. Tiles(u.mem, R) /\ p \in DOMAIN u.mem \ Ends(R) /\ a = Behind(u.mem, p)
    BY <1>1, <1>2, <1>3
  <2> QED BY <1>1, <1>3, <2>1, JoinTiles
<1> HIDE DEF n, g, R
<1>5. Unalloc(n) = Unalloc(m) \ {p} /\ Alloc(n) = (Alloc(m) \ {a}) \cup {p}
  BY <1>1, <1>4 DEF Unalloc, Alloc
<1>6. Listed(n, g.bins, Unalloc(n))
  <2>1. \A x \in Unalloc(n) : n[x].size = m[x].size
    BY <1>1, <1>4, <1>5
  <2> QED BY <1>3, <1>4, <1>5, <2>1, SameListed
<1>7. Good(g)
  BY <1>4, <1>6 DEF Good, n
<1>8. \A x \in Unalloc(n) : x \in Unalloc(m) /\ Behind(n, x) = Behind(m, x)
  BY <1>1, <1>4, <1>5 DEF Behind
<1>9. Apart(m) => Apart(n) /\ Before(n, p) \notin Unalloc(n)
  <2> SUFFICES ASSUME Apart(m) PROVE Apart(n) /\ Before(n, p) \notin Unalloc(n)
    OBVIOUS
  <2>1. Apart(n)
    BY <1>5, <1>8 DEF Apart
  <2>2. Before(n, p) = Before(m, p)
    BY <1>4 DEF Before
  <2>3. Behind(m, Before(m, p)) = p
    BY <1>1, DownFacts
  <2>4. Before(m, p) \notin Unalloc(m)
    BY <1>1, <2>3 DEF Apart
  <2> QED BY <1>5, <2>1, <2>2, <2>4
<1>10. Same(m, n, DOMAIN m \ {a, p})
  BY <1>4 DEF Same
<1> QED BY <1>0, <1>4, <1>5, <1>7, <1>9, <1>10 DEF n, m, R, p

(* CutTail() *)
LEMMA CutTailGood ==
  ASSUME NEW h, Good(h), NEW a \in Alloc(h.mem) \ GuardsOf(h),
         NEW size \in Nat, 0 < size, size < h.mem[a].size
  PROVE  LET g == CutTail(h, a, size)
             m == h.mem
             n == g.mem
         IN /\ Good(g) /\ g.regions = h.regions
            /\ Same(m, n, DOMAIN m \ {a}) /\ a + size \notin DOMAIN m
            /\ Alloc(n) = Alloc(m) /\ Unalloc(n) = Unalloc(m) \cup {a + size}
            /\ n[a].size = size
            /\ Apart(m) /\ Behind(m, a) \notin Unalloc(m) => Apart(n)
<1> DEFINE R == h.regions
           m == h.mem
           b == a + size
           u == Cut(h, a, size, TRUE, FALSE)
           n == u.mem
           g == mm_addfreechunk(u, b)
<1>0. CutTail(h, a, size) = g
  BY DEF CutTail
<1>1. /\ Shape(h) /\ Tiles(m, R) /\ Listed(m, h.bins, Unalloc(m))
      /\ a \in DOMAIN m \ (Bases(R) \cup Ends(R)) /\ a \in DOMAIN m \ Ends(R)
      /\ a \in Alloc(m) /\ a \notin Unalloc(m)
      /\ Unalloc(m) \subseteq DOMAIN m /\ Unalloc(m) \cap Ends(R) = {}
  BY GoodFacts DEF GuardsOf
<1>2. /\ Shape(u) /\ u.bins = h.bins /\ u.regions = R
      /\ Tiles(n, R) /\ DOMAIN n = DOMAIN m \cup {b} /\ b \notin DOMAIN m
      /\ n[a].size = size /\ n[a].alloc = TRUE
      /\ n[b].alloc = FALSE
      /\ \A x \in DOMAIN m \ {a} : n[x].size = m[x].size /\ n[x].alloc = m[x].alloc
      /\ Behind(n, b) = Behind(m, a)
  <2>1. CutWell(h, R, a, size, TRUE, FALSE)
    BY <1>1, CutTiles
  <2> QED BY <2>1 DEF CutWell
<1> HIDE DEF u, n, m, R, b
<1>3. Unalloc(n) = Unalloc(m) \cup {b} /\ Alloc(n) = Alloc(m) /\ Unalloc(n) \ {b} = Unalloc(m)
  BY <1>1, <1>2 DEF Unalloc, Alloc
<1>4. Listed(n, u.bins, Unalloc(n) \ {b})
  <2>1. \A x \in Unalloc(m) : n[x].size = m[x].size
    BY <1>1, <1>2
  <2>2. Listed(n, h.bins, Unalloc(m))
    BY <1>1, <2>1, SameListed
  <2> QED BY <1>2, <1>3, <2>2
<1>5. Good(g) /\ g.mem = n /\ g.regions = R
  <2>1. b \in Unalloc(u.mem) /\ Tiles(u.mem, u.regions) /\ Listed(u.mem, u.bins, Unalloc(u.mem) \ {b})
    BY <1>2, <1>3, <1>4 DEF n
  <2> QED BY <1>2, <2>1, AddGood DEF n
<1>6. Apart(m) /\ Behind(m, a) \notin Unalloc(m) => Apart(n)
  <2> SUFFICES ASSUME Apart(m), Behind(m, a) \notin Unalloc(m), NEW x \in Unalloc(n)
               PROVE  Behind(n, x) \notin Unalloc(n)
    BY DEF Apart
  <2>1. CASE x = b
    <3>1. Behind(m, a) \in DOMAIN m
      BY <1>1, UpFacts
    <3> QED BY <1>2, <1>3, <2>1, <3>1
  <2>2. CASE x # b
    <3>1. x \in Unalloc(m) /\ Behind(m, x) \notin Unalloc(m) /\ x \in DOMAIN m \ Ends(R)
      BY <1>1, <1>3, <2>2 DEF Apart
    <3>2. Behind(m, x) \in DOMAIN m
      BY <1>1, <3>1, UpFacts
    <3>3. Behind(n, x) = Behind(m, x)
      BY <1>1, <1>2, <3>1 DEF Behind
    <3> QED BY <1>2, <1>3, <3>1, <3>2, <3>3
  <2> QED BY <2>1, <2>2
<1>7. Same(m, n, DOMAIN m \ {a})
  BY <1>2 DEF Same
<1> HIDE DEF g
<1> QED BY <1>0, <1>2, <1>3, <1>5, <1>6, <1>7 DEF m, R, b

(* CutHead() *)
HeadCut(h, a, size) ==
  LET g == CutHead(h, a, size)
      m == h.mem
      n == g.mem
      b == a + size
  IN /\ Good(g) /\ g.regions = h.regions
     /\ Same(m, n, DOMAIN m \ {a}) /\ b \notin DOMAIN m
     /\ Alloc(n) = (Alloc(m) \ {a}) \cup {b} /\ Unalloc(n) = Unalloc(m) \cup {a}
     /\ n[b].size = m[a].size - size /\ Behind(n, b) = Behind(m, a)
     /\ Apart(m) /\ Before(m, a) \notin Unalloc(m) => Apart(n)

LEMMA CutHeadGood ==
  ASSUME NEW h, Good(h), NEW a \in Alloc(h.mem) \ GuardsOf(h),
         NEW size \in Nat, 0 < size, size < h.mem[a].size
  PROVE  HeadCut(h, a, size)
<1> DEFINE R == h.regions
           m == h.mem
           b == a + size
           u == Cut(h, a, size, FALSE, TRUE)
           n == u.mem
           g == mm_addfreechunk(u, a)
<1>0. CutHead(h, a, size) = g
  BY DEF CutHead
<1>1. /\ Shape(h) /\ Tiles(m, R) /\ Listed(m, h.bins, Unalloc(m))
      /\ a \in DOMAIN m \ (Bases(R) \cup Ends(R)) /\ a \in DOMAIN m \ Ends(R)
      /\ a \in Alloc(m) /\ a \notin Unalloc(m)
      /\ Unalloc(m) \subseteq DOMAIN m /\ Unalloc(m) \cap Ends(R) = {}
  BY GoodFacts DEF GuardsOf
<1>2. /\ Shape(u) /\ u.bins = h.bins /\ u.regions = R
      /\ Tiles(n, R) /\ DOMAIN n = DOMAIN m \cup {b} /\ b \notin DOMAIN m
      /\ n[a].alloc = FALSE /\ n[b].size = m[a].size - size /\ n[b].alloc = TRUE
      /\ \A x \in DOMAIN m \ {a} : n[x].size = m[x].size /\ n[x].alloc = m[x].alloc
      /\ Behind(n, a) = b /\ Behind(n, b) = Behind(m, a)
  <2>1. CutWell(h, R, a, size, FALSE, TRUE)
    BY <1>1, CutTiles
  <2> QED BY <2>1 DEF CutWell
<1> HIDE DEF u, n, m, R, b
<1>3. /\ Unalloc(n) = Unalloc(m) \cup {a} /\ Alloc(n) = (Alloc(m) \ {a}) \cup {b}
      /\ Unalloc(n) \ {a} = Unalloc(m)
  BY <1>1, <1>2 DEF Unalloc, Alloc
<1>4. Listed(n, u.bins, Unalloc(n) \ {a})
  <2>1. \A x \in Unalloc(m) : n[x].size = m[x].size
    BY <1>1, <1>2
  <2>2. Listed(n, h.bins, Unalloc(m))
    BY <1>1, <2>1, SameListed
  <2> QED BY <1>2, <1>3, <2>2
<1>5. Good(g) /\ g.mem = n /\ g.regions = R
  <2>1. a \in Unalloc(u.mem) /\ Tiles(u.mem, u.regions) /\ Listed(u.mem, u.bins, Unalloc(u.mem) \ {a})
    BY <1>2, <1>3, <1>4 DEF n
  <2> QED BY <1>2, <2>1, AddGood DEF n
<1>6. Apart(m) /\ Before(m, a) \notin Unalloc(m) => Apart(n)
  <2> SUFFICES ASSUME Apart(m), Before(m, a) \notin Unalloc(m), NEW x \in Unalloc(n)
               PROVE  Behind(n, x) \notin Unalloc(n)
    BY DEF Apart
  <2>1. CASE x = a
    BY <1>1, <1>2, <1>3, <2>1
  <2>2. CASE x # a
    <3>1. x \in Unalloc(m) /\ Behind(m, x) \notin Unalloc(m) /\ x \in DOMAIN m \ Ends(R)
      BY <1>1, <1>3, <2>2 DEF Apart
    <3>2. Behind(m, x) # a
      BY <1>1, <3>1, BehindBefore
    <3>3. Behind(n, x) = Behind(m, x)
      BY <1>1, <1>2, <3>1 DEF Behind
    <3> QED BY <1>2, <1>3, <3>1, <3>2, <3>3
  <2> QED BY <2>1, <2>2
<1>7. Same(m, n, DOMAIN m \ {a})
  BY <1>2 DEF Same
<1> HIDE DEF g
<1> QED BY <1>0, <1>2, <1>3, <1>5, <1>6, <1>7 DEF m, R, b, HeadCut
-----------------------------------------------------------------------------
(* The operations.  g is h, in which the allocated chunk a has become the  *)
(* allocated chunk b, of at least so many bytes, and the other allocated   *)
(* chunks are what they were.                                              *)
Moved(h, g, a, b, need) ==
  /\ Good(g) /\ g.regions = h.regions
  /\ Alloc(g.mem) = (Alloc(h.mem) \ {a}) \cup {b} /\ b \notin Alloc(h.mem) \ {a}
  /\ g.mem[b].size >= need
  /\ Same(h.mem, g.mem, Alloc(h.mem) \ {a})

(* The neighbours of a chunk that is not a guard *)
LEMMA Neighbours ==
  ASSUME NEW h, Good(h), NEW a \in DOMAIN h.mem \ GuardsOf(h)
  PROVE  LET m == h.mem
             e == Behind(m, a)
             p == Before(m, a)
         IN /\ e \in DOMAIN m /\ NextOf(h, a) = e /\ (FreeAt(h, e) <=> e \in Unalloc(m))
            /\ p \in DOMAIN m /\ PrevOf(h, a) = p /\ (FreeAt(h, p) <=> p \in Unalloc(m))
            /\ a \in Nat /\ e \in Nat /\ p \in Nat /\ p < a /\ a < e
            /\ e = a + m[a].size /\ p = a - m[p].size /\ Behind(m, p) = a
            /\ m[a].size \in Nat /\ m[e].size \in Nat /\ m[p].size \in Nat
            /\ m[a].size > 0 /\ m[e].size > 0 /\ m[p].size > 0
<1>1. Tiles(h.mem, h.regions) /\ a \in DOMAIN h.mem \ Ends(h.regions) /\ a \in DOMAIN h.mem \ Bases(h.regions)
  BY GoodFacts DEF GuardsOf
<1>2. /\ Behind(h.mem, a) \in DOMAIN h.mem /\ NextOf(h, a) = Behind(h.mem, a)
      /\ Before(h.mem, a) \in DOMAIN h.mem /\ PrevOf(h, a) = Before(h.mem, a)
  BY <1>1, UpFacts, DownFacts DEF NextOf, PrevOf, Behind, Before
<1>3. \A x \in DOMAIN h.mem : FreeAt(h, x) <=> x \in Unalloc(h.mem)
  BY DEF FreeAt, Unalloc
<1>4. \A x \in DOMAIN h.mem : x \in Nat /\ h.mem[x].size \in Nat /\ h.mem[x].size > 0
  BY GoodFacts
<1>5. /\ Behind(h.mem, a) = a + h.mem[a].size /\ Behind(h.mem, a) > a
      /\ Before(h.mem, a) = a - h.mem[a].preceding /\ h.mem[Before(h.mem, a)].size = h.mem[a].preceding
      /\ Behind(h.mem, Before(h.mem, a)) = a /\ Before(h.mem, a) < a
  BY <1>1, UpFacts, DownFacts
<1>6. a < Behind(h.mem, a) /\ Before(h.mem, a) = a - h.mem[Before(h.mem, a)].size
  BY <1>2, <1>4, <1>5
<1> QED BY <1>2, <1>3, <1>4, <1>5, <1>6

(* Split() *)
LEMMA SplitGood ==
  ASSUME NEW h, Good(h), NEW a \in Alloc(h.mem) \ GuardsOf(h),
         NEW need \in Nat, 0 < need, need <= h.mem[a].size
  PROVE  LET g == Split(h, a, need)
         IN /\ Moved(h, g, a, a, need) /\ Same(h.mem, g.mem, DOMAIN h.mem \ {a})
            /\ Apart(h.mem) /\ Behind(h.mem, a) \notin Unalloc(h.mem) => Apart(g.mem)
<1> DEFINE m == h.mem
           g == Split(h, a, need)
<1>0. m[a].size \in Nat /\ a \in Alloc(m) /\ Alloc(m) \subseteq DOMAIN m
  BY GoodFacts
<1>1. CASE m[a].size - need >= SIZEOF_MM_FREENODE
  <2>1. g = CutTail(h, a, need) /\ need < m[a].size
    BY <1>0, <1>1 DEF Split, SIZEOF_MM_FREENODE
  <2>2. /\ Good(g) /\ g.regions = h.regions
        /\ Same(m, g.mem, DOMAIN m \ {a})
        /\ Alloc(g.mem) = Alloc(m) /\ g.mem[a].size = need
        /\ Apart(m) /\ Behind(m, a) \notin Unalloc(m) => Apart(g.mem)
    BY <2>1, CutTailGood
  <2> HIDE DEF g, m
  <2>3. Same(m, g.mem, Alloc(m) \ {a})
    BY <1>0, <2>2 DEF Same
  <2> QED BY <1>0, <2>2, <2>3 DEF Moved, g, m
<1>2. CASE ~(m[a].size - need >= SIZEOF_MM_FREENODE)
  <2>1. g = h
    BY <1>2 DEF Split
  <2>2. m[a].size >= need
    BY <1>0
  <2>3. Same(m, m, Alloc(m) \ {a}) /\ Same(m, m, DOMAIN m \ {a})
    BY <1>0 DEF Same
  <2> QED BY <1>0, <2>1, <2>2, <2>3 DEF Moved
<1> QED BY <1>1, <1>2

(* mm_malloc() *)
LEMMA MallocGood ==
  ASSUME NEW h, Good(h), NEW need \in Nat, 0 < need
  PROVE  LET r == mm_malloc(h, need)
         IN \/ r.a = NULL /\ r.h = h
            \/ /\ r.a \in Unalloc(h.mem) /\ r.a # NULL
               /\ Moved(h, r.h, r.a, r.a, need)
               /\ Apart(h.mem) => Apart(r.h.mem)
<1> DEFINE m == h.mem
           r == mm_malloc(h, need)
           a == Search(h, need)
           c == Claim(h, a)
           g == Split(c, a, need)
<1>1. /\ Listed(m, h.bins, Unalloc(m)) /\ Unalloc(m) \subseteq Nat /\ Unalloc(m) \subseteq DOMAIN m
      /\ \A x \in Unalloc(m) : m[x].size \in Nat
      /\ Unalloc(m) \cap Alloc(m) = {} /\ GuardsOf(h) \subseteq Alloc(m) /\ Alloc(m) \subseteq DOMAIN m
  BY GoodFacts
<1>2. a = NULL \/ (a \in Unalloc(m) /\ m[a].size >= need)
  BY <1>1, SearchIs
<1>3. CASE a = NULL
  BY <1>3 DEF mm_malloc
<1>4. CASE a \in Unalloc(m) /\ m[a].size >= need /\ a # NULL
  <2>1. r = [h |-> g, a |-> a]
    BY <1>4 DEF mm_malloc
  <2> HIDE DEF a
  <2>2. /\ Good(c) /\ c.regions = h.regions
        /\ Same(m, c.mem, DOMAIN m \ {a}) /\ DOMAIN c.mem = DOMAIN m
        /\ Alloc(c.mem) = Alloc(m) \cup {a} /\ Unalloc(c.mem) = Unalloc(m) \ {a}
        /\ c.mem[a].size = m[a].size
        /\ Apart(m) => Apart(c.mem) /\ Behind(c.mem, a) \notin Unalloc(c.mem)
    BY <1>4, ClaimGood
  <2> HIDE DEF c
  <2>3. a \in Alloc(c.mem) \ GuardsOf(c) /\ need <= c.mem[a].size
    BY <1>1, <1>4, <2>2 DEF GuardsOf
  <2>4. /\ Moved(c, g, a, a, need) /\ Same(c.mem, g.mem, DOMAIN c.mem \ {a})
        /\ Apart(c.mem) /\ Behind(c.mem, a) \notin Unalloc(c.mem) => Apart(g.mem)
    BY <2>2, <2>3, SplitGood
  <2> HIDE DEF g, m, r
  <2>5. Same(m, g.mem, Alloc(m) \ {a})
    BY <1>1, <2>2, <2>4 DEF Same
  <2>6. Alloc(g.mem) = (Alloc(m) \ {a}) \cup {a}
    BY <2>2, <2>4 DEF Moved
  <2>7. Moved(h, g, a, a, need)
    BY <2>2, <2>4, <2>5, <2>6 DEF Moved, m
  <2> QED BY <1>4, <2>1, <2>2, <2>4, <2>7 DEF r, m
<1>5. NULL \notin Unalloc(m)
  BY <1>1 DEF NULL
<1> QED BY <1>2, <1>3, <1>4, <1>5

(* MergeNext() *)
LEMMA MergeNextGood ==
  ASSUME NEW h, Good(h), NEW a \in Alloc(h.mem) \ GuardsOf(h)
  PROVE  LET g == MergeNext(h, a)
         IN /\ Good(g) /\ g.regions = h.regions /\ Alloc(g.mem) = Alloc(h.mem)
            /\ Same(h.mem, g.mem, Alloc(h.mem) \ {a})
            /\ Apart(h.mem) => Apart(g.mem) /\ Behind(g.mem, a) \notin Unalloc(g.mem)
<1> DEFINE m == h.mem
           g == MergeNext(h, a)
           e == Behind(m, a)
<1>0. /\ a \in DOMAIN m \ GuardsOf(h) /\ Alloc(m) \subseteq DOMAIN m /\ Alloc(m) \cap Unalloc(m) = {}
  BY GoodFacts
<1>1. NextOf(h, a) = e /\ (FreeAt(h, e) <=> e \in Unalloc(m))
  BY <1>0, Neighbours
<1>2. CASE e \in Unalloc(m)
  <2>1. g = TakeNext(h, a)
    BY <1>1, <1>2 DEF MergeNext
  <2>2. /\ Good(g) /\ g.regions = h.regions /\ Same(m, g.mem, DOMAIN m \ {a, e})
        /\ Alloc(g.mem) = Alloc(m)
        /\ Apart(m) => Apart(g.mem) /\ Behind(g.mem, a) \notin Unalloc(g.mem)
    BY <1>2, <2>1, TakeNextGood
  <2> HIDE DEF g, m
  <2>3. Same(m, g.mem, Alloc(m) \ {a})
    BY <1>0, <1>2, <2>2 DEF Same
  <2> QED BY <2>2, <2>3 DEF g, m
<1>3. CASE e \notin Unalloc(m)
  <2>1. g = h
    BY <1>1, <1>3 DEF MergeNext
  <2>2. Same(m, m, Alloc(m) \ {a})
    BY <1>0 DEF Same
  <2> QED BY <1>3, <2>1, <2>2
<1> QED BY <1>2, <1>3

(* mm_free() *)
LEMMA FreeGood ==
  ASSUME NEW h, Good(h), NEW a \in Alloc(h.mem) \ GuardsOf(h)
  PROVE  LET g == mm_free(h, a)
         IN /\ Good(g) /\ g.regions = h.regions /\ Alloc(g.mem) = Alloc(h.mem) \ {a}
            /\ Same(h.mem, g.mem, Alloc(h.mem) \ {a})
            /\ Apart(h.mem) => Apart(g.mem)
<1> DEFINE m == h.mem
           h1 == MergeNext(h, a)
           m1 == h1.mem
           p == Before(m1, a)
           g == mm_free(h, a)
<1>1. /\ Good(h1) /\ h1.regions = h.regions /\ Alloc(m1) = Alloc(m)
      /\ Same(m, m1, Alloc(m) \ {a})
      /\ Apart(m) => Apart(m1) /\ Behind(m1, a) \notin Unalloc(m1)
  BY MergeNextGood
<1>0. g = IF FreeAt(h1, PrevOf(h1, a)) THEN Release(TakePrev(h1, a), PrevOf(h1, a)) ELSE Release(h1, a)
  BY DEF mm_free
<1> HIDE DEF h1, g, m
<1>2. /\ a \in Alloc(m1) \ GuardsOf(h1) /\ a \in DOMAIN m1 \ GuardsOf(h1)
      /\ Alloc(m1) \subseteq DOMAIN m1 /\ Alloc(m1) \cap Unalloc(m1) = {} /\ GuardsOf(h1) \subseteq Alloc(m1)
  BY <1>1, GoodFacts DEF GuardsOf, m
<1>3. PrevOf(h1, a) = p /\ (FreeAt(h1, p) <=> p \in Unalloc(m1))
  BY <1>1, <1>2, Neighbours
<1>4. CASE p \in Unalloc(m1)
  <2> DEFINE h2 == TakePrev(h1, a)
             m2 == h2.mem
  <2>1. g = Release(h2, p)
    BY <1>0, <1>3, <1>4
  <2>2. /\ Good(h2) /\ h2.regions = h1.regions
        /\ Same(m1, m2, DOMAIN m1 \ {a, p})
        /\ Alloc(m2) = (Alloc(m1) \ {a}) \cup {p} /\ Unalloc(m2) = Unalloc(m1) \ {p}
        /\ Behind(m2, p) = Behind(m1, a)
        /\ Apart(m1) => Apart(m2) /\ Before(m2, p) \notin Unalloc(m2)
    BY <1>1, <1>2, <1>4, TakePrevGood
  <2> HIDE DEF h2, p, m1
  <2>3. p \in Alloc(m2) \ GuardsOf(h2) /\ p # a
    BY <1>2, <1>4, <2>2 DEF GuardsOf
  <2>4. /\ Good(g) /\ g.regions = h2.regions
        /\ Same(m2, g.mem, DOMAIN m2 \ {p})
        /\ Alloc(g.mem) = Alloc(m2) \ {p}
        /\ Apart(m2) /\ Behind(m2, p) \notin Unalloc(m2) /\ Before(m2, p) \notin Unalloc(m2) => Apart(g.mem)
    BY <2>1, <2>2, <2>3, ReleaseGood
  <2>5. Alloc(g.mem) = Alloc(m) \ {a}
    BY <1>1, <1>2, <1>4, <2>2, <2>4
  <2>6. Same(m, g.mem, Alloc(m) \ {a})
    <3>1. \A x \in Alloc(m) \ {a} : x \in Alloc(m1) /\ x # p /\ x # a /\ x \in DOMAIN m1
      BY <1>1, <1>2, <1>4
    <3>2. Alloc(m) \ {a} \subseteq DOMAIN m2 \ {p}
      BY <2>2, <3>1 DEF Same
    <3> QED BY <1>1, <2>2, <2>4, <3>1, <3>2 DEF Same
  <2>7. Apart(m) => Apart(g.mem)
    BY <1>1, <2>2, <2>4
  <2> QED BY <1>1, <2>2, <2>4, <2>5, <2>6, <2>7 DEF g, m
<1>5. CASE p \notin Unalloc(m1)
  <2>1. g = Release(h1, a)
    BY <1>0, <1>3, <1>5
  <2>2. /\ Good(g) /\ g.regions = h1.regions
        /\ Same(m1, g.mem, DOMAIN m1 \ {a})
        /\ Alloc(g.mem) = Alloc(m1) \ {a}
        /\ Apart(m1) /\ Behind(m1, a) \notin Unalloc(m1) /\ p \notin Unalloc(m1) => Apart(g.mem)
    BY <1>1, <1>2, <2>1, ReleaseGood
  <2> HIDE DEF m1
  <2>3. Same(m, g.mem, Alloc(m) \ {a})
    BY <1>1, <2>2 DEF Same
  <2>4. Apart(m) => Apart(g.mem)
    BY <1>1, <1>5, <2>2
  <2> QED BY <1>1, <2>2, <2>3, <2>4 DEF g, m
<1> QED BY <1>4, <1>5
(* mm_shrinkchunk() *)
LEMMA ShrinkGood ==
  ASSUME NEW h, Good(h), NEW a \in Alloc(h.mem) \ GuardsOf(h),
         NEW size \in Nat, 0 < size, size < h.mem[a].size
  PROVE  LET g == mm_shrinkchunk(h, a, size)
         IN Moved(h, g, a, a, size) /\ (Apart(h.mem) => Apart(g.mem))
<1> DEFINE m == h.mem
           g == mm_shrinkchunk(h, a, size)
           e == Behind(m, a)
<1>0. /\ a \in DOMAIN m \ GuardsOf(h) /\ Alloc(m) \subseteq DOMAIN m /\ Alloc(m) \cap Unalloc(m) = {}
  BY GoodFacts
<1>1. /\ NextOf(h, a) = e /\ (FreeAt(h, e) <=> e \in Unalloc(m))
      /\ m[a].size \in Nat /\ m[e].size \in Nat
  BY <1>0, Neighbours
<1>2. CASE e \in Unalloc(m)
  <2> DEFINE h1 == TakeNext(h, a)
             m1 == h1.mem
  <2>1. g = CutTail(h1, a, size)
    BY <1>1, <1>2 DEF mm_shrinkchunk
  <2>2. /\ Good(h1) /\ h1.regions = h.regions /\ Same(m, m1, DOMAIN m \ {a, e})
        /\ Alloc(m1) = Alloc(m) /\ m1[a].size = m[a].size + m[e].size
        /\ Apart(m) => Apart(m1) /\ Behind(m1, a) \notin Unalloc(m1)
    BY <1>2, TakeNextGood
  <2> HIDE DEF h1
  <2>3. a \in Alloc(m1) \ GuardsOf(h1) /\ size < m1[a].size
    BY <1>1, <2>2 DEF GuardsOf
  <2>4. /\ Good(g) /\ g.regions = h1.regions /\ Same(m1, g.mem, DOMAIN m1 \ {a})
        /\ Alloc(g.mem) = Alloc(m1) /\ g.mem[a].size = size
        /\ Apart(m1) /\ Behind(m1, a) \notin Unalloc(m1) => Apart(g.mem)
    BY <2>1, <2>2, <2>3, CutTailGood
  <2> HIDE DEF g, m, m1
  <2>5. Same(m, g.mem, Alloc(m) \ {a})
    BY <1>0, <1>2, <2>2, <2>4 DEF Same
  <2>6. Moved(h, g, a, a, size)
    BY <1>0, <2>2, <2>4, <2>5 DEF Moved, m
  <2> QED BY <2>2, <2>4, <2>6 DEF g, m
<1>3. CASE e \notin Unalloc(m)
  <2>1. g = Split(h, a, size)
    BY <1>1, <1>3 DEF mm_shrinkchunk
  <2>2. size <= m[a].size
    BY <1>1
  <2> QED BY <1>3, <2>1, <2>2, SplitGood
<1> QED BY <1>2, <1>3

(* GrowDown() *)
GrownDown(h, a, take) ==
  LET g == GrowDown(h, a, take)
      m == h.mem
      n == g.mem
      p == Before(m, a)
      b == a - take
  IN /\ Moved(h, g, a, b, m[a].size + take) /\ n[b].size = m[a].size + take
     /\ Behind(n, b) = Behind(m, a) /\ Unalloc(n) \subseteq Unalloc(m)
     /\ Unalloc(m) \ {p} \subseteq Unalloc(n) /\ Same(m, n, Unalloc(m) \ {p})
     /\ b \notin GuardsOf(h)
     /\ Apart(m) => Apart(n)

LEMMA GrowDownGood ==
  ASSUME NEW h, Good(h), NEW a \in Alloc(h.mem) \ GuardsOf(h),
         Before(h.mem, a) \in Unalloc(h.mem),
         NEW take \in Nat, 0 < take, take <= h.mem[Before(h.mem, a)].size
  PROVE  GrownDown(h, a, take)
<1> DEFINE m == h.mem
           g == GrowDown(h, a, take)
           p == Before(m, a)
           b == a - take
           h1 == TakePrev(h, a)
           m1 == h1.mem
           left == m[p].size - take
<1>0. /\ a \in DOMAIN m \ GuardsOf(h) /\ a \in Alloc(m) /\ Alloc(m) \subseteq DOMAIN m
      /\ Alloc(m) \cap Unalloc(m) = {} /\ Unalloc(m) \subseteq DOMAIN m /\ GuardsOf(h) \subseteq Alloc(m)
      /\ p \in Unalloc(m) /\ p # a
  BY GoodFacts
<1>1. /\ PrevOf(h, a) = p /\ p = a - m[p].size
      /\ m[a].size \in Nat /\ m[p].size \in Nat /\ a \in Nat /\ p \in Nat /\ m[a].size > 0
  BY <1>0, Neighbours
<1>2. g = IF left > 0 THEN CutHead(h1, p, left) ELSE h1
  BY <1>1 DEF GrowDown
<1>3. /\ Good(h1) /\ h1.regions = h.regions
      /\ DOMAIN m1 = DOMAIN m \ {a} /\ Same(m, m1, DOMAIN m \ {a, p})
      /\ Alloc(m1) = (Alloc(m) \ {a}) \cup {p} /\ Unalloc(m1) = Unalloc(m) \ {p}
      /\ m1[p].size = m[p].size + m[a].size /\ Behind(m1, p) = Behind(m, a)
      /\ Apart(m) => Apart(m1) /\ Before(m1, p) \notin Unalloc(m1)
  BY TakePrevGood
<1>4. /\ b \in Int /\ left \in Nat /\ p + left = b /\ take <= m[p].size
      /\ m1[p].size - left = m[a].size + take /\ left < m1[p].size
  BY <1>1, <1>3
<1> HIDE DEF h1, g, m, p
<1>5. CASE left > 0
  <2>1. p \in Alloc(m1) \ GuardsOf(h1)
    BY <1>0, <1>3 DEF GuardsOf
  <2>2. /\ Good(g) /\ g.regions = h1.regions
        /\ Same(m1, g.mem, DOMAIN m1 \ {p}) /\ p + left \notin DOMAIN m1
        /\ Alloc(g.mem) = (Alloc(m1) \ {p}) \cup {p + left} /\ Unalloc(g.mem) = Unalloc(m1) \cup {p}
        /\ g.mem[p + left].size = m1[p].size - left /\ Behind(g.mem, p + left) = Behind(m1, p)
        /\ Apart(m1) /\ Before(m1, p) \notin Unalloc(m1) => Apart(g.mem)
    <3>1. g = CutHead(h1, p, left) /\ left \in Nat /\ 0 < left /\ left < h1.mem[p].size
      BY <1>2, <1>4, <1>5
    <3> HIDE DEF left
    <3>2. HeadCut(h1, p, left)
      BY <1>3, <2>1, <3>1, CutHeadGood
    <3> QED BY <3>1, <3>2 DEF HeadCut
  <2> HIDE DEF left, b, m1
  <2>3. b \notin Alloc(m) \ {a} /\ b \notin GuardsOf(h)
    BY <1>0, <1>3, <1>4, <2>2
  <2>4. /\ Alloc(g.mem) = (Alloc(m) \ {a}) \cup {b} /\ Unalloc(g.mem) = Unalloc(m)
        /\ g.mem[b].size = m[a].size + take /\ Behind(g.mem, b) = Behind(m, a)
    BY <1>0, <1>3, <1>4, <2>2
  <2>5. Same(m, g.mem, DOMAIN m \ {a, p})
    BY <1>3, <2>2 DEF Same
  <2>6. Same(m, g.mem, Alloc(m) \ {a}) /\ Same(m, g.mem, Unalloc(m) \ {p})
    BY <1>0, <2>5 DEF Same
  <2>7. g.mem[b].size >= m[a].size + take
    BY <1>1, <2>4
  <2>8. Moved(h, g, a, b, m[a].size + take)
    BY <1>3, <2>2, <2>3, <2>4, <2>6, <2>7 DEF Moved, m
  <2> QED BY <1>3, <2>2, <2>3, <2>4, <2>6, <2>8 DEF g, m, p, b, GrownDown
<1>6. CASE ~(left > 0)
  <2>1. g = h1 /\ b = p
    BY <1>1, <1>2, <1>4, <1>6
  <2>2. g.mem[b].size = m[a].size + take
    BY <1>1, <1>3, <1>4, <1>6, <2>1
  <2> HIDE DEF left, b, m1
  <2>3. b \notin Alloc(m) \ {a} /\ b \notin GuardsOf(h)
    BY <1>0, <2>1
  <2>4. /\ Alloc(g.mem) = (Alloc(m) \ {a}) \cup {b} /\ Unalloc(g.mem) = Unalloc(m) \ {p}
        /\ Behind(g.mem, b) = Behind(m, a)
    BY <1>3, <2>1 DEF m1
  <2>5. Same(m, g.mem, Alloc(m) \ {a}) /\ Same(m, g.mem, Unalloc(m) \ {p})
    BY <1>0, <1>3, <2>1 DEF Same, m1
  <2>6. g.mem[b].size >= m[a].size + take
    BY <1>1, <2>2
  <2>7. Moved(h, g, a, b, m[a].size + take)
    BY <1>3, <2>1, <2>3, <2>4, <2>5, <2>6 DEF Moved, m
  <2> QED BY <1>3, <2>1, <2>2, <2>3, <2>4, <2>5, <2>7 DEF g, m, p, b, m1, GrownDown
<1> QED BY <1>5, <1>6

(* GrowUp() *)
LEMMA GrowUpGood ==
  ASSUME NEW h, Good(h), NEW a \in Alloc(h.mem) \ GuardsOf(h),
         Behind(h.mem, a) \in Unalloc(h.mem),
         NEW take \in Nat, 0 < take, take <= h.mem[Behind(h.mem, a)].size
  PROVE  LET g == GrowUp(h, a, take)
         IN Moved(h, g, a, a, h.mem[a].size + take) /\ (Apart(h.mem) => Apart(g.mem))
<1> DEFINE m == h.mem
           g == GrowUp(h, a, take)
           e == Behind(m, a)
           h1 == TakeNext(h, a)
           m1 == h1.mem
           size == m[a].size + take
<1>0. /\ a \in DOMAIN m \ GuardsOf(h) /\ a \in Alloc(m) /\ Alloc(m) \subseteq DOMAIN m
      /\ Alloc(m) \cap Unalloc(m) = {} /\ e \in Unalloc(m)
  BY GoodFacts
<1>1. NextOf(h, a) = e /\ m[a].size \in Nat /\ m[e].size \in Nat
  BY <1>0, Neighbours
<1>2. g = IF take < m[e].size THEN CutTail(h1, a, size) ELSE h1
  BY <1>1 DEF GrowUp
<1>3. /\ Good(h1) /\ h1.regions = h.regions /\ Same(m, m1, DOMAIN m \ {a, e})
      /\ Alloc(m1) = Alloc(m) /\ m1[a].size = m[a].size + m[e].size
      /\ Apart(m) => Apart(m1) /\ Behind(m1, a) \notin Unalloc(m1)
  BY TakeNextGood
<1>4. size \in Nat /\ 0 < size /\ take <= m[e].size
  BY <1>1
<1> HIDE DEF h1, g, m, e
<1>5. CASE take < m[e].size
  <2>1. a \in Alloc(m1) \ GuardsOf(h1) /\ size < m1[a].size
    BY <1>0, <1>1, <1>3, <1>5 DEF GuardsOf
  <2>2. /\ Good(g) /\ g.regions = h1.regions /\ Same(m1, g.mem, DOMAIN m1 \ {a})
        /\ Alloc(g.mem) = Alloc(m1) /\ g.mem[a].size = size
        /\ Apart(m1) /\ Behind(m1, a) \notin Unalloc(m1) => Apart(g.mem)
    <3> HIDE DEF size
    <3> QED BY <1>2, <1>3, <1>4, <1>5, <2>1, CutTailGood
  <2> HIDE DEF m1
  <2>3. Same(m, g.mem, Alloc(m) \ {a})
    BY <1>0, <1>3, <2>2 DEF Same
  <2>4. g.mem[a].size >= size
    BY <1>4, <2>2
  <2>5. Moved(h, g, a, a, size)
    BY <1>0, <1>3, <2>2, <2>3, <2>4 DEF Moved, m
  <2> QED BY <1>3, <2>2, <2>5 DEF g, m
<1>6. CASE ~(take < m[e].size)
  <2>1. g = h1 /\ g.mem[a].size >= size
    BY <1>1, <1>2, <1>3, <1>4, <1>6
  <2> HIDE DEF size
  <2>2. Same(m, g.mem, Alloc(m) \ {a})
    BY <1>0, <1>3, <2>1 DEF Same
  <2>3. Moved(h, g, a, a, size)
    BY <1>0, <1>3, <2>1, <2>2 DEF Moved, m
  <2> QED BY <1>3, <2>1, <2>3 DEF g, m, size
<1> QED BY <1>5, <1>6

(* Take(): what is taken of each neighbour *)
LEMMA TakeIs ==
  ASSUME NEW h, Good(h), NEW a \in DOMAIN h.mem \ GuardsOf(h),
         NEW need \in Nat, need > h.mem[a].size, Take(h, a, need).fits
  PROVE  LET take == Take(h, a, need)
             m == h.mem
         IN /\ take.prev \in Nat /\ take.next \in Nat
            /\ m[a].size + take.prev + take.next = need
            /\ take.prev > 0 => /\ Before(m, a) \in Unalloc(m)
                                /\ take.prev <= m[Before(m, a)].size
            /\ take.next > 0 => /\ Behind(m, a) \in Unalloc(m)
                                /\ take.next <= m[Behind(m, a)].size
<1> DEFINE m == h.mem
           e == Behind(m, a)
           p == Before(m, a)
           ns == IF e \in Unalloc(m) THEN m[e].size ELSE 0
           ps == IF p \in Unalloc(m) THEN m[p].size ELSE 0
           d == need - m[a].size
           first == ps > 0 /\ (ns >= ps \/ ns < 1)
           take == Take(h, a, need)
<1>1. /\ NextOf(h, a) = e /\ PrevOf(h, a) = p
      /\ (FreeAt(h, e) <=> e \in Unalloc(m)) /\ (FreeAt(h, p) <=> p \in Unalloc(m))
      /\ m[a].size \in Nat /\ m[e].size \in Nat /\ m[p].size \in Nat
  BY Neighbours
<1>2. /\ take.fits <=> ns + ps >= d
      /\ take.prev = IF first THEN (IF d > ps THEN ps ELSE d) ELSE (IF d > ns THEN d - ns ELSE 0)
      /\ take.next = IF first THEN (IF d > ps THEN d - ps ELSE 0) ELSE (IF d > ns THEN ns ELSE d)
  BY <1>1 DEF Take
<1>3. /\ ns \in Nat /\ ps \in Nat /\ d \in Nat /\ d > 0 /\ m[a].size + d = need
      /\ (ns > 0 => e \in Unalloc(m) /\ ns = m[e].size)
      /\ (ps > 0 => p \in Unalloc(m) /\ ps = m[p].size)
  BY <1>1
<1> HIDE DEF ns, ps, d, m, e, p, take
<1>4. take.fits
  BY DEF take
<1>5. /\ take.prev \in Nat /\ take.next \in Nat /\ take.prev + take.next = d
      /\ take.prev <= ps /\ take.next <= ns
  <2>1. ns + ps >= d
    BY <1>2, <1>4
  <2>2. CASE first
    BY <1>2, <1>3, <2>1, <2>2
  <2>3. CASE ~first
    BY <1>2, <1>3, <2>1, <2>3
  <2> QED BY <2>2, <2>3
<1>6. m[a].size + take.prev + take.next = need
  BY <1>1, <1>3, <1>5
<1>7. take.prev > 0 => p \in Unalloc(m) /\ take.prev <= m[p].size
  BY <1>3, <1>5
<1>8. take.next > 0 => e \in Unalloc(m) /\ take.next <= m[e].size
  BY <1>3, <1>5
<1> QED BY <1>5, <1>6, <1>7, <1>8 DEF take, m, e, p
(* Grow() *)
LEMMA GrowGood ==
  ASSUME NEW h, Good(h), NEW a \in Alloc(h.mem) \ GuardsOf(h),
         NEW need \in Nat, need > h.mem[a].size, Take(h, a, need).fits
  PROVE  LET take == Take(h, a, need)
             g == Grow(h, a, take)
             b == NewMem(a, take)
         IN Moved(h, g, a, b, need) /\ b \notin GuardsOf(h) /\ (Apart(h.mem) => Apart(g.mem))
<1> DEFINE m == h.mem
           take == Take(h, a, need)
           down == take.prev
           up == take.next
           b == a - down
           e == Behind(m, a)
           p == Before(m, a)
           h1 == IF down > 0 THEN GrowDown(h, a, down) ELSE h
           m1 == h1.mem
           g == IF up > 0 THEN GrowUp(h1, b, up) ELSE h1
<1>0. /\ a \in DOMAIN m \ GuardsOf(h) /\ a \in Alloc(m) /\ Alloc(m) \subseteq DOMAIN m
      /\ Alloc(m) \cap Unalloc(m) = {}
  BY GoodFacts
<1>1. /\ down \in Nat /\ up \in Nat /\ m[a].size + down + up = need
      /\ down > 0 => p \in Unalloc(m) /\ down <= m[p].size
      /\ up > 0 => e \in Unalloc(m) /\ up <= m[e].size
  BY <1>0, TakeIs
<1>2. Grow(h, a, take) = g /\ NewMem(a, take) = b
  BY DEF Grow, NewMem
<1>3. a \in Nat /\ e \in Nat /\ p \in Nat /\ p < a /\ a < e /\ m[a].size \in Nat /\ m[e].size \in Nat
  BY <1>0, Neighbours
<1> HIDE DEF take, m
<1>4. /\ Moved(h, h1, a, b, m[a].size + down) /\ m1[b].size = m[a].size + down
      /\ Behind(m1, b) = e /\ (e \in Unalloc(m) => e \in Unalloc(m1) /\ m1[e].size = m[e].size)
      /\ b \notin GuardsOf(h) /\ (Apart(m) => Apart(m1))
  <2>1. CASE down > 0
    <3> HIDE DEF down
    <3>1. h1 = GrowDown(h, a, down)
      BY <2>1
    <3>2. /\ Moved(h, h1, a, b, m[a].size + down) /\ m1[b].size = m[a].size + down
          /\ Behind(m1, b) = e /\ Unalloc(m) \ {p} \subseteq Unalloc(m1) /\ Same(m, m1, Unalloc(m) \ {p})
          /\ b \notin GuardsOf(h) /\ (Apart(m) => Apart(m1))
      <4>1. GrownDown(h, a, down)
        BY <1>1, <2>1, GrowDownGood DEF m
      <4> QED BY <3>1, <4>1 DEF GrownDown, m
    <3>3. e # p
      BY <1>3
    <3> HIDE DEF h1, e, p, b
    <3> QED BY <3>2, <3>3 DEF Same
  <2>2. CASE ~(down > 0)
    <3>1. h1 = h /\ down = 0 /\ b = a /\ m1 = m
      BY <1>1, <1>3, <2>2 DEF m
    <3>2. m[a].size + down = m[a].size /\ m[a].size >= m[a].size + down
      BY <1>3, <3>1
    <3>3. Same(m, m, Alloc(m) \ {a})
      BY <1>0 DEF Same
    <3>4. Moved(h, h, a, a, m[a].size + down)
      BY <1>0, <3>2, <3>3 DEF Moved, m
    <3> HIDE DEF down, h1, b
    <3> QED BY <1>0, <3>1, <3>2, <3>4
  <2> QED BY <2>1, <2>2
<1>5. Moved(h, g, a, b, need) /\ (Apart(m) => Apart(g.mem))
  <2> HIDE DEF down, up, h1, e, p, b
  <2>1. CASE up > 0
    <3>1. g = GrowUp(h1, b, up)
      BY <2>1
    <3>2. Good(h1) /\ b \in Alloc(m1) \ GuardsOf(h1)
      BY <1>4 DEF Moved, GuardsOf, m
    <3>3. Behind(m1, b) \in Unalloc(m1) /\ up <= m1[Behind(m1, b)].size
      BY <1>1, <1>4, <2>1
    <3>4. Moved(h1, g, b, b, m1[b].size + up) /\ (Apart(m1) => Apart(g.mem))
      BY <1>1, <2>1, <3>1, <3>2, <3>3, GrowUpGood
    <3>5. m1[b].size + up = need
      BY <1>1, <1>4
    <3> HIDE DEF g, m1
    <3>6. Moved(h, g, a, b, need)
      <4>1. Alloc(g.mem) = (Alloc(m) \ {a}) \cup {b}
        BY <1>4, <3>4 DEF Moved, m, m1
      <4>2. Same(m, g.mem, Alloc(m) \ {a})
        BY <1>4, <3>4 DEF Moved, Same, m, m1
      <4> QED BY <1>4, <3>4, <3>5, <4>1, <4>2 DEF Moved, m
    <3> QED BY <1>4, <3>4, <3>6
  <2>2. CASE ~(up > 0)
    <3>1. g = h1 /\ m[a].size + down = need
      BY <1>1, <1>3, <2>2
    <3> QED BY <1>4, <3>1
  <2> QED BY <2>1, <2>2
<1> QED BY <1>2, <1>4, <1>5 DEF take, m

(* Rounding up *)
LEMMA RoundUp ==
  ASSUME NEW x \in Nat, NEW d \in Nat, d > 0
  PROVE  LET y == ((x + d - 1) \div d) * d IN y \in Nat /\ x <= y /\ y <= x + d - 1
OBVIOUS

(* Aligned(): the block begins in the first part of the chunk *)
LEMMA AlignedIs ==
  ASSUME NEW raw \in Nat, NEW align \in Nat, align > 16
  PROVE  LET a == Aligned(raw, align)
         IN a \in Nat /\ raw <= a /\ a - raw < 2 * align
<1> DEFINE y == (((raw + 8) + align - 1) \div align) * align
<1>1. y \in Nat /\ raw + 8 <= y /\ y <= raw + 8 + align - 1
  <2>1. raw + 8 \in Nat /\ align > 0
    OBVIOUS
  <2> QED BY <2>1, RoundUp
<1>2. Aligned(raw, align) = IF y - 8 # raw /\ y - 8 - raw < 16 THEN y - 8 + align ELSE y - 8
  BY DEF Aligned, SIZEOF_MM_ALLOCNODE, SIZEOF_MM_FREENODE
<1> HIDE DEF y
<1> QED BY <1>1, <1>2

(* AlignChunk() *)
LEMMA AlignGood ==
  ASSUME NEW h, Good(h), NEW raw \in Alloc(h.mem) \ GuardsOf(h),
         NEW align \in Nat, align > 16, NEW need \in Nat, 0 < need,
         h.mem[raw].size >= need + 2 * align
  PROVE  LET a == Aligned(raw, align)
             g == AlignChunk(h, raw, align, need)
         IN /\ Moved(h, g, raw, a, need) /\ a \notin GuardsOf(h)
            /\ Apart(h.mem) /\ (a # raw => ~FreeAt(h, PrevOf(h, raw))) => Apart(g.mem)
<1> DEFINE m == h.mem
           a == Aligned(raw, align)
           cut == a - raw
           h1 == IF a = raw THEN h ELSE CutHead(h, raw, cut)
           m1 == h1.mem
           g == IF m1[a].size - SIZEOF_MM_ALLOCNODE > need THEN mm_shrinkchunk(h1, a, need) ELSE h1
<1>0. /\ raw \in DOMAIN m \ GuardsOf(h) /\ raw \in Alloc(m) /\ Alloc(m) \subseteq DOMAIN m
      /\ Alloc(m) \cap Unalloc(m) = {} /\ raw \in Nat /\ m[raw].size \in Nat /\ GuardsOf(h) \subseteq DOMAIN m
  BY GoodFacts
<1>1. PrevOf(h, raw) = Before(m, raw) /\ (FreeAt(h, Before(m, raw)) <=> Before(m, raw) \in Unalloc(m))
  BY <1>0, Neighbours
<1>2. a \in Nat /\ raw <= a /\ cut < 2 * align
  BY <1>0, AlignedIs
<1>3. AlignChunk(h, raw, align, need) = g
  BY DEF AlignChunk
<1> HIDE DEF a, m
<1>4. /\ cut \in Nat /\ raw + cut = a /\ (a # raw => 0 < cut) /\ cut < m[raw].size
      /\ m[raw].size - cut >= need
  BY <1>0, <1>2 DEF m
<1>5. /\ Moved(h, h1, raw, a, need) /\ a \notin GuardsOf(h)
      /\ Apart(m) /\ (a # raw => ~FreeAt(h, PrevOf(h, raw))) => Apart(m1)
  <2>1. CASE a = raw
    <3>1. h1 = h /\ m[raw].size >= need
      BY <1>0, <1>4, <2>1
    <3>2. Same(m, m, Alloc(m) \ {a})
      BY <1>0 DEF Same
    <3> HIDE DEF h1
    <3>3. Moved(h, h, raw, raw, need)
      BY <1>0, <2>1, <3>1, <3>2 DEF Moved, m
    <3> QED BY <1>0, <2>1, <3>1, <3>3 DEF m
  <2>2. CASE a # raw
    <3> HIDE DEF cut
    <3>1. h1 = CutHead(h, raw, cut)
      BY <2>2
    <3>2. /\ Good(h1) /\ h1.regions = h.regions
          /\ Same(m, m1, DOMAIN m \ {raw}) /\ raw + cut \notin DOMAIN m
          /\ Alloc(m1) = (Alloc(m) \ {raw}) \cup {raw + cut}
          /\ m1[raw + cut].size = m[raw].size - cut
          /\ Apart(m) /\ Before(m, raw) \notin Unalloc(m) => Apart(m1)
      <4>1. HeadCut(h, raw, cut)
        BY <1>4, <2>2, CutHeadGood DEF m
      <4> QED BY <3>1, <4>1 DEF HeadCut, m
    <3> HIDE DEF h1
    <3>3. Same(m, m1, Alloc(m) \ {raw}) /\ a \notin Alloc(m) /\ a \notin GuardsOf(h)
      BY <1>0, <1>4, <3>2 DEF Same
    <3>4. m1[a].size >= need
      BY <1>4, <3>2
    <3>5. Moved(h, h1, raw, a, need)
      BY <1>4, <3>2, <3>3, <3>4 DEF Moved, m
    <3> QED BY <1>1, <2>2, <3>2, <3>3, <3>5
  <2> QED BY <2>1, <2>2
<1> HIDE DEF h1
<1>6. Moved(h, g, raw, a, need) /\ (Apart(m1) => Apart(g.mem))
  <2>0. Good(h1) /\ a \in Alloc(m1) \ GuardsOf(h1)
    BY <1>5 DEF Moved, GuardsOf, m
  <2>1. m1[a].size \in Nat
    BY <2>0, GoodFacts
  <2>2. CASE m1[a].size - SIZEOF_MM_ALLOCNODE > need
    <3>1. g = mm_shrinkchunk(h1, a, need) /\ need < m1[a].size
      BY <2>1, <2>2 DEF SIZEOF_MM_ALLOCNODE
    <3>2. Moved(h1, g, a, a, need) /\ (Apart(m1) => Apart(g.mem))
      BY <2>0, <3>1, ShrinkGood
    <3> HIDE DEF g, m1
    <3>3. Alloc(g.mem) = (Alloc(m) \ {raw}) \cup {a}
      BY <1>5, <3>2 DEF Moved, m, m1
    <3>4. Same(m, g.mem, Alloc(m) \ {raw})
      BY <1>5, <3>2 DEF Moved, Same, m, m1
    <3>5. Moved(h, g, raw, a, need)
      BY <1>5, <3>2, <3>3, <3>4 DEF Moved, m
    <3> QED BY <3>2, <3>5
  <2>3. CASE ~(m1[a].size - SIZEOF_MM_ALLOCNODE > need)
    <3>1. g = h1
      BY <2>3
    <3> QED BY <1>5, <3>1
  <2> QED BY <2>2, <2>3
<1> QED BY <1>3, <1>5, <1>6 DEF a, m
(* A chunk behind another one lies in the same region *)
LEMMA SameRegion ==
  ASSUME NEW m, NEW R, Tiles(m, R), NEW x \in DOMAIN m \ Ends(R), NEW s \in R,
         s.base <= x, x <= EndGuard(s)
  PROVE  s.base <= Behind(m, x) /\ Behind(m, x) <= EndGuard(s)
<1>1. EndGuard(s) \in Ends(R) /\ EndGuard(s) \in DOMAIN m /\ EndGuard(s) # x
  BY DEF Tiles, Ends, Alloc
<1>2. Behind(m, x) > x /\ (EndGuard(s) <= x \/ Behind(m, x) <= EndGuard(s)) /\ Behind(m, x) \in DOMAIN m
  BY <1>1, UpFacts
<1>3. x \in Nat /\ EndGuard(s) \in Nat /\ Behind(m, x) \in Nat /\ s.base \in Nat
  BY <1>1, <1>2, ChunkFacts, RegionsAssumption DEF Tiles
<1> QED BY <1>1, <1>2, <1>3

(* The memory after mm_addregion() *)
WithRegion(m, r) ==
  LET base == r.base
      node == base + 8
      size == r.size - 16
      end == base + r.size - 8
  IN [x \in DOMAIN m \cup {base, node, end} |->
        CASE x = base -> Header(8, 0, TRUE)
          [] x = node -> Header(size, 8, FALSE)
          [] x = end -> Header(8, size, TRUE)
          [] OTHER -> m[x]]

LEMMA RegionTiles ==
  ASSUME NEW m, NEW R, Tiles(m, R), NEW r \in Regions \ R
  PROVE  LET base == r.base
             node == base + 8
             end == base + r.size - 8
             n == WithRegion(m, r)
         IN /\ Tiles(n, R \cup {r}) /\ DOMAIN m \subseteq DOMAIN n /\ \A x \in DOMAIN m : n[x] = m[x]
            /\ DOMAIN m \cap {base, node, end} = {}
            /\ Alloc(n) = Alloc(m) \cup {base, end} /\ Unalloc(n) = Unalloc(m) \cup {node}
            /\ Behind(n, node) = end
<1> DEFINE base == r.base
           node == base + 8
           size == r.size - 16
           end == base + r.size - 8
           Q == R \cup {r}
           n == WithRegion(m, r)
<1>1. /\ base \in Nat /\ node \in Nat /\ end \in Nat /\ size \in Nat /\ size > 0
      /\ base < node /\ node < end /\ node = base + 8 /\ end = node + size /\ base + r.size = end + 8
  BY RegionsAssumption DEF MM_MIN_CHUNK
<1>2. EndGuard(r) = end
  BY DEF EndGuard, SIZEOF_MM_ALLOCNODE
<1>3. Bases(Q) = Bases(R) \cup {base} /\ Ends(Q) = Ends(R) \cup {end}
  BY <1>2 DEF Bases, Ends
<1>4. ASSUME NEW s \in R
      PROVE  /\ s.base \in Nat /\ EndGuard(s) \in Nat
             /\ EndGuard(s) < base \/ end < s.base
  <2>1. s \in Regions /\ s # r
    BY DEF Tiles
  <2>2. s.base \in Nat /\ s.size \in Nat /\ s.size > 16 /\ r.base \in Nat /\ r.size \in Nat /\ r.size > 16
    BY <2>1, RegionsAssumption DEF MM_MIN_CHUNK
  <2>3. s.base + s.size <= r.base \/ r.base + r.size <= s.base
    BY <2>1, RegionsAssumption
  <2> QED BY <2>2, <2>3 DEF EndGuard, SIZEOF_MM_ALLOCNODE
<1>5. \A x \in DOMAIN m : x \in Nat /\ m[x] \in Headers /\ m[x].alloc \in BOOLEAN
  BY ChunkFacts
<1>6. ASSUME NEW x \in DOMAIN m PROVE x < base \/ end < x
  <2>1. PICK s \in R : s.base <= x /\ x <= EndGuard(s)
    BY DEF Tiles, Inside
  <2> QED BY <1>1, <1>4, <1>5, <2>1
<1>7. base \notin DOMAIN m /\ node \notin DOMAIN m /\ end \notin DOMAIN m
  BY <1>1, <1>5, <1>6
<1>8. n = [x \in DOMAIN m \cup {base, node, end} |->
             CASE x = base -> Header(8, 0, TRUE)
               [] x = node -> Header(size, 8, FALSE)
               [] x = end -> Header(8, size, TRUE)
               [] OTHER -> m[x]]
  BY DEF WithRegion
<1>9. base # node /\ base # end /\ node # end
  BY <1>1
<1> HIDE DEF base, node, end, size, n
<1>10. DOMAIN n = DOMAIN m \cup {base, node, end}
  BY <1>8
<1>11. n[base] = Header(8, 0, TRUE) /\ n[node] = Header(size, 8, FALSE) /\ n[end] = Header(8, size, TRUE)
  <2>1. n[base] = Header(8, 0, TRUE)
    BY <1>8, <1>9
  <2>2. n[node] = Header(size, 8, FALSE)
    BY <1>8, <1>9
  <2>3. n[end] = Header(8, size, TRUE)
    BY <1>8, <1>9
  <2> QED BY <2>1, <2>2, <2>3
<1>12. \A x \in DOMAIN m : n[x] = m[x]
  BY <1>7, <1>8
<1>13. /\ n[base] \in Headers /\ n[base].size = 8 /\ n[base].preceding = 0 /\ n[base].alloc
       /\ n[node] \in Headers /\ n[node].size = size /\ n[node].preceding = 8 /\ ~n[node].alloc
       /\ n[end] \in Headers /\ n[end].size = 8 /\ n[end].preceding = size /\ n[end].alloc
  <2>1. 8 \in Nat \ {0} /\ 8 \in Nat /\ 0 \in Nat /\ size \in Nat \ {0} /\ size \in Nat
    BY <1>1
  <2>2. n[base] \in Headers /\ n[base].size = 8 /\ n[base].preceding = 0 /\ n[base].alloc
    BY <1>11, <2>1 DEF Header, Headers
  <2>3. n[node] \in Headers /\ n[node].size = size /\ n[node].preceding = 8 /\ ~n[node].alloc
    BY <1>11, <2>1 DEF Header, Headers
  <2>4. n[end] \in Headers /\ n[end].size = 8 /\ n[end].preceding = size /\ n[end].alloc
    BY <1>11, <2>1 DEF Header, Headers
  <2> QED BY <2>2, <2>3, <2>4
<1>14. n \in [DOMAIN n -> Headers] /\ DOMAIN n \subseteq Nat
  <2>1. \A x \in DOMAIN n : n[x] \in Headers /\ x \in Nat
    BY <1>1, <1>5, <1>10, <1>12, <1>13
  <2>2. n = [x \in DOMAIN n |-> n[x]]
    <3> DEFINE S == DOMAIN m \cup {base, node, end}
               F(x) == CASE x = base -> Header(8, 0, TRUE)
                         [] x = node -> Header(size, 8, FALSE)
                         [] x = end -> Header(8, size, TRUE)
                         [] OTHER -> m[x]
    <3>1. n = [x \in S |-> F(x)]
      BY <1>8
    <3> HIDE DEF S, F
    <3> QED BY <3>1
  <2> QED BY <2>1, <2>2
<1>15. Alloc(n) = Alloc(m) \cup {base, end} /\ Unalloc(n) = Unalloc(m) \cup {node}
  BY <1>7, <1>9, <1>10, <1>12, <1>13 DEF Alloc, Unalloc
<1>16. Bases(Q) \cup Ends(Q) \subseteq Alloc(n)
  <2>1. Bases(R) \cup Ends(R) \subseteq Alloc(m)
    BY DEF Tiles
  <2> QED BY <1>3, <1>15, <2>1
<1>17. ASSUME NEW x \in DOMAIN n PROVE Inside(x, Q)
  <2>1. CASE x \in DOMAIN m
    <3>1. Inside(x, R)
      BY <2>1 DEF Tiles
    <3> QED BY <3>1 DEF Inside
  <2>2. CASE x \in {base, node, end}
    <3>1. base <= x /\ x <= EndGuard(r)
      BY <1>1, <1>2, <2>2
    <3> QED BY <3>1 DEF Inside, base
  <2> QED BY <1>10, <2>1, <2>2
<1>18. \A x \in DOMAIN m : Behind(n, x) = Behind(m, x) /\ Before(n, x) = Before(m, x)
  BY <1>12 DEF Behind, Before
<1>19. Behind(n, base) = node /\ Behind(n, node) = end /\ Before(n, node) = base /\ Before(n, end) = node
  <2>1. base + 8 = node /\ node + size = end /\ node - 8 = base /\ end - size = node
    BY <1>1
  <2> QED BY <1>13, <2>1 DEF Behind, Before
<1>20. ASSUME NEW x \in DOMAIN n \ Ends(Q) PROVE LinkedUp(n, x)
  <2>1. CASE x \in DOMAIN m
    <3>0. x \in DOMAIN m \ Ends(R)
      BY <1>3, <2>1
    <3>1. LinkedUp(m, x)
      BY <3>0 DEF Tiles
    <3>2. PICK s \in R : s.base <= x /\ x <= EndGuard(s)
      BY <2>1 DEF Tiles, Inside
    <3>3. Behind(m, x) <= EndGuard(s) /\ s.base <= Behind(m, x) /\ Behind(m, x) \in DOMAIN m
      BY <3>0, <3>1, <3>2, SameRegion DEF LinkedUp
    <3>4. \A y \in {base, node, end} : ~(x < y /\ y < Behind(m, x))
      BY <1>1, <1>4, <1>5, <2>1, <3>2, <3>3
    <3>5. \A y \in DOMAIN n : ~(x < y /\ y < Behind(n, x))
      BY <1>10, <1>18, <2>1, <3>1, <3>4 DEF LinkedUp
    <3> QED BY <1>10, <1>12, <1>18, <2>1, <3>1, <3>5 DEF LinkedUp
  <2>2. CASE x = base
    <3>1. \A y \in DOMAIN n : ~(base < y /\ y < node)
      BY <1>1, <1>5, <1>6, <1>10
    <3>2. node \in DOMAIN n /\ n[node].preceding = n[base].size
      BY <1>10, <1>13
    <3> QED BY <1>19, <2>2, <3>1, <3>2 DEF LinkedUp
  <2>3. CASE x = node
    <3>1. \A y \in DOMAIN n : ~(node < y /\ y < end)
      BY <1>1, <1>5, <1>6, <1>10
    <3>2. end \in DOMAIN n /\ n[end].preceding = n[node].size
      BY <1>10, <1>13
    <3> QED BY <1>19, <2>3, <3>1, <3>2 DEF LinkedUp
  <2> QED BY <1>3, <1>10, <2>1, <2>2, <2>3
<1>21. ASSUME NEW x \in DOMAIN n \ Bases(Q) PROVE LinkedDown(n, x, Q)
  <2>0. base \notin Ends(R) /\ node \notin Ends(R)
    BY <1>7 DEF Tiles, Alloc
  <2>1. CASE x \in DOMAIN m
    <3>1. LinkedDown(m, x, R)
      BY <1>3, <2>1 DEF Tiles
    <3>2. Before(m, x) \in DOMAIN m \ Ends(R) /\ m[Before(m, x)].size = m[x].preceding
      BY <3>1 DEF LinkedDown
    <3>3. Before(m, x) \notin Ends(Q) /\ Before(m, x) \in DOMAIN n
      BY <1>3, <1>7, <1>10, <3>2
    <3> QED BY <1>12, <1>18, <2>1, <3>2, <3>3 DEF LinkedDown
  <2>2. CASE x = node
    <3>1. base \in DOMAIN n \ Ends(Q) /\ n[base].size = n[node].preceding
      BY <1>3, <1>9, <1>10, <1>13, <2>0
    <3> QED BY <1>19, <2>2, <3>1 DEF LinkedDown
  <2>3. CASE x = end
    <3>1. node \in DOMAIN n \ Ends(Q) /\ n[node].size = n[end].preceding
      BY <1>3, <1>9, <1>10, <1>13, <2>0
    <3> QED BY <1>19, <2>3, <3>1 DEF LinkedDown
  <2> QED BY <1>3, <1>10, <2>1, <2>2, <2>3
<1>22. Q \subseteq Regions
  BY DEF Tiles
<1>23. Tiles(n, Q)
  BY <1>14, <1>16, <1>17, <1>20, <1>21, <1>22 DEF Tiles
<1> QED BY <1>7, <1>10, <1>12, <1>15, <1>19, <1>23 DEF base, node, end, n

(* mm_addregion() *)
LEMMA RegionGood ==
  ASSUME NEW h, Good(h), NEW r \in Regions \ h.regions
  PROVE  LET g == mm_addregion(h, r)
         IN /\ Good(g) /\ g.regions = h.regions \cup {r}
            /\ Alloc(g.mem) = Alloc(h.mem) \cup {r.base, EndGuard(r)}
            /\ DOMAIN h.mem \cap {r.base, EndGuard(r)} = {}
            /\ Same(h.mem, g.mem, DOMAIN h.mem)
            /\ Apart(h.mem) => Apart(g.mem)
<1> DEFINE m == h.mem
           R == h.regions
           base == r.base
           node == base + 8
           size == r.size - 16
           end == base + r.size - 8
           n == WithRegion(m, r)
           u == [mem |-> n, bins |-> h.bins, regions |-> R \cup {r}]
           g == mm_addfreechunk(u, node)
<1>1. EndGuard(r) = end
  BY DEF EndGuard, SIZEOF_MM_ALLOCNODE
<1>2. Shape(h) /\ Tiles(m, R) /\ Listed(m, h.bins, Unalloc(m)) /\ Unalloc(m) \subseteq DOMAIN m
      /\ Unalloc(m) \cap Ends(R) = {}
  BY GoodFacts DEF GuardsOf
<1>3. mm_addregion(h, r) = g
  <2>1. r.size - 2 * SIZEOF_MM_ALLOCNODE = size
    BY DEF SIZEOF_MM_ALLOCNODE
  <2> QED BY <1>1, <2>1 DEF mm_addregion, SIZEOF_MM_ALLOCNODE, WithRegion
<1>4. /\ Tiles(n, R \cup {r}) /\ DOMAIN m \subseteq DOMAIN n /\ \A x \in DOMAIN m : n[x] = m[x]
      /\ DOMAIN m \cap {base, node, end} = {}
      /\ Alloc(n) = Alloc(m) \cup {base, end} /\ Unalloc(n) = Unalloc(m) \cup {node}
      /\ Behind(n, node) = end
  <2>1. Tiles(m, R) /\ r \in Regions \ R
    BY <1>2
  <2> HIDE DEF m, R
  <2> QED BY <2>1, RegionTiles
<1> HIDE DEF n, m, node, end, base
<1>5. Unalloc(n) \ {node} = Unalloc(m) /\ node \in Unalloc(n)
  BY <1>2, <1>4
<1>6. Listed(n, h.bins, Unalloc(n) \ {node})
  <2>1. \A x \in Unalloc(m) : n[x].size = m[x].size
    BY <1>2, <1>4
  <2>2. Listed(n, h.bins, Unalloc(m))
    BY <1>2, <2>1, SameListed
  <2> QED BY <1>5, <2>2
<1>7. Good(g) /\ g.mem = n /\ g.regions = R \cup {r}
  <2>1. Shape(u) /\ u.mem = n /\ u.regions = R \cup {r} /\ u.bins = h.bins
    BY DEF Shape
  <2> HIDE DEF u
  <2> QED BY <1>4, <1>5, <1>6, <2>1, AddGood
<1> HIDE DEF g, u
<1>8. Same(m, n, DOMAIN m)
  BY <1>4 DEF Same
<1>9. Apart(m) => Apart(n)
  <2> SUFFICES ASSUME Apart(m), NEW x \in Unalloc(n) PROVE Behind(n, x) \notin Unalloc(n)
    BY DEF Apart
  <2>1. CASE x = node
    <3>1. end \in Alloc(n) /\ Alloc(n) \cap Unalloc(n) = {}
      BY <1>4 DEF Alloc, Unalloc
    <3> QED BY <1>4, <2>1, <3>1
  <2>2. CASE x # node
    <3>1. x \in Unalloc(m) /\ x \in DOMAIN m \ Ends(R)
      BY <1>2, <1>4, <2>2
    <3>2. Behind(m, x) \in DOMAIN m /\ Behind(m, x) \notin Unalloc(m)
      BY <1>2, <3>1, UpFacts DEF Apart
    <3>3. Behind(n, x) = Behind(m, x)
      BY <1>4, <3>1 DEF Behind
    <3> QED BY <1>4, <3>2, <3>3
  <2> QED BY <2>1, <2>2
<1> QED BY <1>1, <1>3, <1>4, <1>7, <1>8, <1>9 DEF m, base

LEMMA EmptyGood == Good(EmptyHeap) /\ EmptyHeap.regions = {} /\ DOMAIN EmptyHeap.mem = {}
<1> DEFINE h == EmptyHeap
<1>1. Shape(h) /\ h.regions = {} /\ h.bins = [i \in Bins |-> << >>] /\ h.mem = [x \in {} |-> Header(0, 0, TRUE)]
  BY DEF EmptyHeap, Shape
<1> HIDE DEF h
<1>2. DOMAIN h.mem = {} /\ h.mem \in [DOMAIN h.mem -> Headers]
  BY <1>1
<1>3. Bases({}) = {} /\ Ends({}) = {}
  BY DEF Bases, Ends
<1>4. Tiles(h.mem, h.regions)
  BY <1>1, <1>2, <1>3 DEF Tiles
<1>5. Unalloc(h.mem) = {}
  BY <1>2 DEF Unalloc
<1>6. Listed(h.mem, h.bins, {})
  BY <1>1 DEF Listed, Ordered, ToSet
<1> QED BY <1>1, <1>2, <1>4, <1>5, <1>6 DEF Good, h
-----------------------------------------------------------------------------
(* The inductive invariant: the heap is good; every call under way holds   *)
(* what its next step needs; no two calls work on the same block; the      *)
(* allocated chunks are those of the callers, of the calls and the guards. *)
Calls == [at : {"idle", "malloc", "copied", "align"}, old : Int, new : Int, need : Nat, align : Nat]

Call(c, m, D) ==
  \/ c = Idle
  \/ c.at = "malloc" /\ c.old \in D /\ c.new = NULL /\ c.need > 0
  \/ /\ c.at = "copied" /\ c.old \in D /\ c.new \in Alloc(m)
     /\ c.need > 0 /\ m[c.new].size >= c.need
  \/ /\ c.at = "align" /\ c.old = NULL /\ c.new \in Alloc(m)
     /\ c.need > 0 /\ c.align > 16 /\ m[c.new].size >= c.need + 2 * c.align

Distinct(p) ==
  \A t, u \in Threads : t # u => /\ p[t].old # NULL => p[t].old # p[u].old
                                 /\ p[t].new # NULL => p[t].new # p[u].new

New(p) == {p[t].new : t \in Threads} \ {NULL}

Held(m, bl) ==
  \A a \in DOMAIN bl : bl[a] \in Nat \ {0} /\ a \in Alloc(m) /\ m[a].size >= bl[a]

Owned(h, bl, p) ==
  /\ Alloc(h.mem) = DOMAIN bl \cup New(p) \cup GuardsOf(h)
  /\ DOMAIN bl \cap New(p) = {}
  /\ DOMAIN bl \cap GuardsOf(h) = {} /\ New(p) \cap GuardsOf(h) = {}

Kept(h, bl, p) ==
  /\ Good(h) /\ p \in [Threads -> Calls]
  /\ \A t \in Threads : Call(p[t], h.mem, DOMAIN bl)
  /\ Distinct(p) /\ Held(h.mem, bl) /\ Owned(h, bl, p)

Holds(h, bl, p, rc) == Kept(h, bl, p) /\ rc \in BOOLEAN /\ (~rc => Apart(h.mem))

Inv == Holds(heap, blocks, pc, raced)
-----------------------------------------------------------------------------
(* What the invariant says, in the form its proofs use *)
LEMMA HoldsFacts ==
  ASSUME NEW h, NEW bl, NEW p, NEW rc, Holds(h, bl, p, rc)
  PROVE  /\ Good(h) /\ p \in [Threads -> Calls] /\ rc \in BOOLEAN
         /\ \A t \in Threads : Call(p[t], h.mem, DOMAIN bl)
         /\ Distinct(p) /\ Held(h.mem, bl) /\ Owned(h, bl, p)
         /\ ~rc => Apart(h.mem)
         /\ NULL \notin DOMAIN bl /\ Alloc(h.mem) \subseteq Nat
         /\ DOMAIN bl \subseteq Alloc(h.mem) \ GuardsOf(h)
         /\ New(p) \subseteq Alloc(h.mem) \ GuardsOf(h)
         /\ GuardsOf(h) \subseteq Alloc(h.mem)
<1>1. Good(h) /\ Held(h.mem, bl) /\ Owned(h, bl, p)
  BY DEF Holds, Kept
<1>2. Alloc(h.mem) \subseteq DOMAIN h.mem /\ DOMAIN h.mem \subseteq Nat
  BY <1>1, GoodFacts
<1>3. DOMAIN bl \subseteq Alloc(h.mem)
  BY <1>1 DEF Held
<1>4. NULL \notin Nat
  BY DEF NULL
<1>5. Alloc(h.mem) \subseteq Nat /\ NULL \notin DOMAIN bl
  BY <1>2, <1>3, <1>4
<1>6. /\ DOMAIN bl \subseteq Alloc(h.mem) \ GuardsOf(h) /\ New(p) \subseteq Alloc(h.mem) \ GuardsOf(h)
      /\ GuardsOf(h) \subseteq Alloc(h.mem)
  BY <1>1, <1>3 DEF Owned
<1> HIDE <1>2, <1>3
<1> QED BY <1>5, <1>6 DEF Holds, Kept

LEMMA IdleFacts ==
  /\ Idle \in Calls /\ Idle.at = "idle" /\ Idle.old = NULL /\ Idle.new = NULL
  /\ NULL \in Int /\ NULL \notin Nat
  /\ \A m, D : Call(Idle, m, D)
<1>1. Idle \in Calls /\ Idle.at = "idle" /\ Idle.old = NULL /\ Idle.new = NULL
  BY DEF Idle, Calls, NULL
<1>2. \A m, D : Call(Idle, m, D)
  BY DEF Call
<1>3. NULL \in Int /\ NULL \notin Nat
  BY DEF NULL
<1> QED BY <1>1, <1>2, <1>3

(* A call keeps what it holds *)
LEMMA CallKept ==
  ASSUME NEW c, NEW m, NEW D, Call(c, m, D), NEW n, NEW E, NEW X, Same(m, n, X),
         c.new \in X \/ c.new = NULL, c.old \in E \/ c.old = NULL,
         NULL \notin D, NULL \notin Alloc(m)
  PROVE  Call(c, n, E)
<1>1. c.new \in Alloc(m) => c.new \in Alloc(n) /\ n[c.new].size = m[c.new].size
  BY DEF Same, Alloc
<1>2. CASE c = Idle
  BY <1>2 DEF Call
<1>3. CASE c.at = "malloc" /\ c.old \in D /\ c.new = NULL /\ c.need > 0
  BY <1>3 DEF Call
<1>4. CASE /\ c.at = "copied" /\ c.old \in D /\ c.new \in Alloc(m)
           /\ c.need > 0 /\ m[c.new].size >= c.need
  BY <1>1, <1>4 DEF Call
<1>5. CASE /\ c.at = "align" /\ c.old = NULL /\ c.new \in Alloc(m)
           /\ c.need > 0 /\ c.align > 16 /\ m[c.new].size >= c.need + 2 * c.align
  BY <1>1, <1>5 DEF Call
<1> QED BY <1>2, <1>3, <1>4, <1>5 DEF Call

(* One call goes on *)
Goes(p, t, c, q) ==
  /\ q \in [Threads -> Calls] /\ Distinct(q)
  /\ q[t] = c /\ \A u \in Threads : u # t => q[u] = p[u]
  /\ New(q) = (New(p) \ {p[t].new}) \cup ({c.new} \ {NULL})

LEMMA CallStep ==
  ASSUME NEW p \in [Threads -> Calls], Distinct(p), NEW t \in Threads, NEW c \in Calls,
         NEW q, q = [p EXCEPT ![t] = c],
         c.old # NULL => \A u \in Threads : u # t => c.old # p[u].old,
         c.new # NULL => \A u \in Threads : u # t => c.new # p[u].new
  PROVE  Goes(p, t, c, q)
<1>1. q \in [Threads -> Calls] /\ q[t] = c /\ \A u \in Threads : u # t => q[u] = p[u]
  OBVIOUS
<1>2. Distinct(q)
  <2> SUFFICES ASSUME NEW u \in Threads, NEW v \in Threads, u # v
               PROVE  /\ q[u].old # NULL => q[u].old # q[v].old
                      /\ q[u].new # NULL => q[u].new # q[v].new
    BY DEF Distinct
  <2>1. CASE u = t
    BY <1>1, <2>1
  <2>2. CASE v = t
    BY <1>1, <2>2
  <2>3. CASE u # t /\ v # t
    BY <1>1, <2>3 DEF Distinct
  <2> QED BY <2>1, <2>2, <2>3
<1>3. ASSUME NEW x PROVE x \in New(q) <=> x \in (New(p) \ {p[t].new}) \cup ({c.new} \ {NULL})
  <2>1. ASSUME x \in New(q) PROVE x \in (New(p) \ {p[t].new}) \cup ({c.new} \ {NULL})
    <3>1. PICK u \in Threads : x = q[u].new /\ x # NULL
      BY <2>1 DEF New
    <3>2. CASE u = t
      BY <1>1, <3>1, <3>2
    <3>3. CASE u # t
      <4>1. x = p[u].new /\ x # p[t].new
        BY <1>1, <3>1, <3>3 DEF Distinct
      <4> QED BY <3>1, <4>1 DEF New
    <3> QED BY <3>2, <3>3
  <2>2. ASSUME x \in New(p) \ {p[t].new} PROVE x \in New(q)
    <3>1. PICK u \in Threads : x = p[u].new /\ x # NULL
      BY <2>2 DEF New
    <3>2. u # t
      BY <2>2, <3>1
    <3>3. x = q[u].new
      BY <1>1, <3>1, <3>2
    <3> QED BY <3>1, <3>3 DEF New
  <2>3. ASSUME x \in {c.new} \ {NULL} PROVE x \in New(q)
    BY <1>1, <2>3 DEF New
  <2> QED BY <2>1, <2>2, <2>3
<1> QED BY <1>1, <1>2, <1>3 DEF Goes

(* The callers' block at a, if there is one, is now at b *)
Booked(bl, bm, a, b, need) ==
  /\ DOMAIN bm = (DOMAIN bl \ {a}) \cup {b} /\ bm[b] = need
  /\ \A x \in DOMAIN bl \ {a} : x # b => bm[x] = bl[x]

LEMMA PutBooked ==
  ASSUME NEW bl, NEW a, NEW b, NEW need
  PROVE  /\ Booked(bl, Put(bl, a, need), a, a, need)
         /\ Booked(bl, Put(Drop(bl, a), b, need), a, b, need)
         /\ a \notin DOMAIN bl => Booked(bl, Put(bl, b, need), a, b, need)
BY DEF Booked, Put, Drop

(* A block of the callers' moves or is new: mm_malloc(), mm_realloc() *)
LEMMA BlockMoved ==
  ASSUME NEW h, NEW bl, NEW p, NEW rc, Holds(h, bl, p, rc),
         NEW g, NEW a, NEW b, NEW need \in Nat, need > 0, Moved(h, g, a, b, need),
         a \in DOMAIN bl \/ a \in Unalloc(h.mem),
         \A t \in Threads : p[t].old # a,
         b \notin GuardsOf(h), ~rc => Apart(g.mem),
         NEW bm, Booked(bl, bm, a, b, need)
  PROVE  Holds(g, bm, p, rc)
<1>0. /\ DOMAIN bm = (DOMAIN bl \ {a}) \cup {b} /\ bm[b] = need
      /\ \A x \in DOMAIN bl \ {a} : x # b => bm[x] = bl[x]
  BY DEF Booked
<1>1. /\ p \in [Threads -> Calls] /\ rc \in BOOLEAN
      /\ \A t \in Threads : Call(p[t], h.mem, DOMAIN bl)
      /\ Distinct(p) /\ Held(h.mem, bl) /\ Owned(h, bl, p)
      /\ NULL \notin DOMAIN bl /\ NULL \notin Alloc(h.mem)
      /\ DOMAIN bl \subseteq Alloc(h.mem) \ GuardsOf(h)
      /\ New(p) \subseteq Alloc(h.mem) \ GuardsOf(h)
      /\ GuardsOf(h) \subseteq Alloc(h.mem) /\ Good(h)
  BY HoldsFacts, IdleFacts
<1>2. Alloc(h.mem) \cap Unalloc(h.mem) = {}
  BY <1>1, GoodFacts
<1>3. /\ Good(g) /\ g.regions = h.regions
      /\ Alloc(g.mem) = (Alloc(h.mem) \ {a}) \cup {b} /\ b \notin Alloc(h.mem) \ {a}
      /\ g.mem[b].size >= need /\ Same(h.mem, g.mem, Alloc(h.mem) \ {a})
  BY DEF Moved
<1>4. GuardsOf(g) = GuardsOf(h)
  BY <1>3 DEF GuardsOf
<1>5. a \notin New(p) /\ a \notin GuardsOf(h)
  BY <1>1, <1>2 DEF Owned
<1>6. b \notin New(p)
  BY <1>1, <1>3, <1>5
<1>7. ASSUME NEW t \in Threads PROVE Call(p[t], g.mem, DOMAIN bm)
  <2>1. Call(p[t], h.mem, DOMAIN bl) /\ p[t].old # a
    BY <1>1
  <2>2. p[t].new \in Alloc(h.mem) \ {a} \/ p[t].new = NULL
    BY <1>1, <1>5 DEF New
  <2>3. p[t].old \in DOMAIN bl \/ p[t].old = NULL
    BY <2>1, IdleFacts DEF Call
  <2>4. p[t].old \in DOMAIN bm \/ p[t].old = NULL
    BY <1>0, <2>1, <2>3
  <2> QED BY <1>1, <1>3, <2>1, <2>2, <2>4, CallKept
<1>8. Held(g.mem, bm)
  <2> SUFFICES ASSUME NEW x \in DOMAIN bm
               PROVE  bm[x] \in Nat \ {0} /\ x \in Alloc(g.mem) /\ g.mem[x].size >= bm[x]
    BY DEF Held
  <2>1. CASE x = b
    BY <1>0, <1>3, <2>1
  <2>2. CASE x # b
    <3>1. x \in DOMAIN bl \ {a} /\ bm[x] = bl[x]
      BY <1>0, <2>2
    <3>2. bl[x] \in Nat \ {0} /\ x \in Alloc(h.mem) /\ h.mem[x].size >= bl[x]
      BY <1>1, <3>1 DEF Held
    <3>3. x \in Alloc(h.mem) \ {a} /\ g.mem[x].size = h.mem[x].size
      BY <1>3, <3>1, <3>2 DEF Same
    <3> QED BY <1>3, <3>1, <3>2, <3>3
  <2> QED BY <2>1, <2>2
<1>9. Owned(g, bm, p)
  <2>1. Alloc(g.mem) = DOMAIN bm \cup New(p) \cup GuardsOf(g)
    BY <1>0, <1>1, <1>3, <1>4, <1>5 DEF Owned
  <2>2. DOMAIN bm \cap New(p) = {} /\ DOMAIN bm \cap GuardsOf(g) = {} /\ New(p) \cap GuardsOf(g) = {}
    BY <1>0, <1>1, <1>4, <1>6 DEF Owned
  <2> QED BY <2>1, <2>2 DEF Owned
<1> QED BY <1>1, <1>3, <1>7, <1>8, <1>9 DEF Holds, Kept

(* mm_free() *)
LEMMA BlockFreed ==
  ASSUME NEW h, NEW bl, NEW p, NEW rc, Holds(h, bl, p, rc),
         NEW g, NEW a \in DOMAIN bl, g = mm_free(h, a),
         \A t \in Threads : p[t].old # a,
         NEW bm, DOMAIN bm = DOMAIN bl \ {a}, \A x \in DOMAIN bm : bm[x] = bl[x]
  PROVE  Holds(g, bm, p, rc)
<1>1. /\ p \in [Threads -> Calls] /\ rc \in BOOLEAN
      /\ \A t \in Threads : Call(p[t], h.mem, DOMAIN bl)
      /\ Distinct(p) /\ Held(h.mem, bl) /\ Owned(h, bl, p)
      /\ NULL \notin DOMAIN bl /\ NULL \notin Alloc(h.mem)
      /\ DOMAIN bl \subseteq Alloc(h.mem) \ GuardsOf(h)
      /\ New(p) \subseteq Alloc(h.mem) \ GuardsOf(h)
      /\ Good(h) /\ (~rc => Apart(h.mem))
  BY HoldsFacts, IdleFacts
<1>2. /\ Good(g) /\ g.regions = h.regions /\ Alloc(g.mem) = Alloc(h.mem) \ {a}
      /\ Same(h.mem, g.mem, Alloc(h.mem) \ {a}) /\ (Apart(h.mem) => Apart(g.mem))
  <2>1. a \in Alloc(h.mem) \ GuardsOf(h)
    BY <1>1
  <2> QED BY <1>1, <2>1, FreeGood
<1>3. GuardsOf(g) = GuardsOf(h)
  BY <1>2 DEF GuardsOf
<1>4. a \notin New(p) /\ a \notin GuardsOf(h)
  BY <1>1 DEF Owned
<1>5. ASSUME NEW t \in Threads PROVE Call(p[t], g.mem, DOMAIN bm)
  <2>1. Call(p[t], h.mem, DOMAIN bl) /\ p[t].old # a
    BY <1>1
  <2>2. p[t].new \in Alloc(h.mem) \ {a} \/ p[t].new = NULL
    BY <1>1, <1>4 DEF New
  <2>3. p[t].old \in DOMAIN bl \/ p[t].old = NULL
    BY <2>1, IdleFacts DEF Call
  <2>4. p[t].old \in DOMAIN bm \/ p[t].old = NULL
    BY <2>1, <2>3
  <2> QED BY <1>1, <1>2, <2>1, <2>2, <2>4, CallKept
<1>6. Held(g.mem, bm)
  <2> SUFFICES ASSUME NEW x \in DOMAIN bm
               PROVE  bm[x] \in Nat \ {0} /\ x \in Alloc(g.mem) /\ g.mem[x].size >= bm[x]
    BY DEF Held
  <2>1. bl[x] \in Nat \ {0} /\ x \in Alloc(h.mem) /\ h.mem[x].size >= bl[x]
    BY <1>1 DEF Held
  <2>2. x \in Alloc(h.mem) \ {a} /\ g.mem[x].size = h.mem[x].size
    BY <1>2, <2>1 DEF Same
  <2> QED BY <1>2, <2>1, <2>2
<1>7. Owned(g, bm, p)
  BY <1>1, <1>2, <1>3, <1>4 DEF Owned
<1> QED BY <1>1, <1>2, <1>5, <1>6, <1>7 DEF Holds, Kept
(* A call under way gets its new chunk: mm_realloc(), mm_memalign() *)
LEMMA CallGets ==
  ASSUME NEW h, NEW bl, NEW p, NEW rc, Holds(h, bl, p, rc),
         NEW t \in Threads, p[t].new = NULL, NEW c \in Calls, c.old = p[t].old,
         NEW g, NEW need \in Nat, c.new \in Unalloc(h.mem), Moved(h, g, c.new, c.new, need),
         Call(c, g.mem, DOMAIN bl), ~rc => Apart(g.mem),
         NEW q, q = [p EXCEPT ![t] = c]
  PROVE  Holds(g, bl, q, rc)
<1> DEFINE a == c.new
<1>1. /\ p \in [Threads -> Calls] /\ rc \in BOOLEAN
      /\ \A u \in Threads : Call(p[u], h.mem, DOMAIN bl)
      /\ Distinct(p) /\ Held(h.mem, bl) /\ Owned(h, bl, p)
      /\ NULL \notin DOMAIN bl /\ NULL \notin Alloc(h.mem)
      /\ DOMAIN bl \subseteq Alloc(h.mem) \ GuardsOf(h)
      /\ New(p) \subseteq Alloc(h.mem) \ GuardsOf(h)
      /\ GuardsOf(h) \subseteq Alloc(h.mem) /\ Good(h)
  BY HoldsFacts, IdleFacts
<1>2. Alloc(h.mem) \cap Unalloc(h.mem) = {} /\ Unalloc(h.mem) \subseteq Nat
  BY <1>1, GoodFacts
<1>3. a \notin Alloc(h.mem) /\ a # NULL
  BY <1>2, IdleFacts
<1>4. /\ Good(g) /\ g.regions = h.regions
      /\ Alloc(g.mem) = Alloc(h.mem) \cup {a} /\ Same(h.mem, g.mem, Alloc(h.mem))
  <2>1. Alloc(h.mem) \ {a} = Alloc(h.mem)
    BY <1>3
  <2> QED BY <2>1 DEF Moved
<1>5. GuardsOf(g) = GuardsOf(h)
  BY <1>4 DEF GuardsOf
<1>6. /\ q \in [Threads -> Calls] /\ Distinct(q)
      /\ q[t] = c /\ \A u \in Threads : u # t => q[u] = p[u]
      /\ New(q) = New(p) \cup {a}
  <2>1. ASSUME NEW u \in Threads, u # t PROVE (c.old # NULL => c.old # p[u].old) /\ c.new # p[u].new
    <3>1. c.new # p[u].new
      BY <1>1, <1>3 DEF New
    <3> QED BY <1>1, <2>1, <3>1 DEF Distinct
  <2>2. Goes(p, t, c, q)
    BY <1>1, <2>1, CallStep
  <2>3. NULL \notin New(p)
    BY DEF New
  <2> QED BY <1>3, <2>2, <2>3 DEF Goes
<1>7. ASSUME NEW u \in Threads PROVE Call(q[u], g.mem, DOMAIN bl)
  <2>1. CASE u = t
    BY <1>6, <2>1
  <2>2. CASE u # t
    <3>1. q[u] = p[u] /\ Call(p[u], h.mem, DOMAIN bl)
      BY <1>1, <1>6, <2>2
    <3>2. p[u].new \in Alloc(h.mem) \/ p[u].new = NULL
      BY <1>1 DEF New
    <3>3. p[u].old \in DOMAIN bl \/ p[u].old = NULL
      BY <3>1, IdleFacts DEF Call
    <3> QED BY <1>1, <1>4, <3>1, <3>2, <3>3, CallKept
  <2> QED BY <2>1, <2>2
<1>8. Held(g.mem, bl)
  BY <1>1, <1>4 DEF Held, Same
<1>9. Owned(g, bl, q)
  <2>1. Alloc(g.mem) = DOMAIN bl \cup New(q) \cup GuardsOf(g)
    BY <1>1, <1>4, <1>5, <1>6 DEF Owned
  <2>2. a \notin DOMAIN bl /\ a \notin GuardsOf(h)
    BY <1>1, <1>3
  <2>3. DOMAIN bl \cap New(p) = {} /\ DOMAIN bl \cap GuardsOf(h) = {} /\ New(p) \cap GuardsOf(h) = {}
    BY <1>1 DEF Owned
  <2> HIDE DEF a
  <2>4. DOMAIN bl \cap New(q) = {} /\ DOMAIN bl \cap GuardsOf(g) = {} /\ New(q) \cap GuardsOf(g) = {}
    BY <1>5, <1>6, <2>2, <2>3
  <2> QED BY <2>1, <2>4 DEF Owned
<1> QED BY <1>1, <1>4, <1>6, <1>7, <1>8, <1>9 DEF Holds, Kept

(* A call that has no chunk begins or ends, and the heap stays as it is *)
LEMMA CallTurns ==
  ASSUME NEW h, NEW bl, NEW p, NEW rc, Holds(h, bl, p, rc),
         NEW t \in Threads, p[t].new = NULL, NEW c \in Calls, c.new = NULL,
         Call(c, h.mem, DOMAIN bl),
         c.old # NULL => \A u \in Threads : c.old # p[u].old,
         NEW q, q = [p EXCEPT ![t] = c]
  PROVE  Holds(h, bl, q, rc)
<1>1. /\ p \in [Threads -> Calls] /\ \A u \in Threads : Call(p[u], h.mem, DOMAIN bl)
      /\ Distinct(p) /\ Owned(h, bl, p)
  BY HoldsFacts
<1>2. Goes(p, t, c, q)
  BY <1>1, CallStep
<1>3. NULL \notin New(p)
  BY DEF New
<1>4. New(q) = New(p)
  BY <1>2, <1>3 DEF Goes
<1>5. Owned(h, bl, q)
  BY <1>1, <1>4 DEF Owned
<1>6. \A u \in Threads : Call(q[u], h.mem, DOMAIN bl)
  BY <1>1, <1>2 DEF Goes
<1> QED BY <1>2, <1>5, <1>6 DEF Holds, Kept, Goes

(* The end of a call that hands out its chunk: where the callers' block    *)
(* was at a, it is now at b                                                *)
Handed(h, g, bl, bm, c, a, b, need) ==
  /\ c.new # NULL /\ Good(g) /\ g.regions = h.regions
  /\ a \in DOMAIN bl \cup {c.new} /\ b \notin GuardsOf(h)
  /\ a \in DOMAIN bl => c.old = a /\ b = c.new
  /\ c.old # NULL => a = c.old
  /\ b \notin Alloc(h.mem) \ {a, c.new}
  /\ Alloc(g.mem) = (Alloc(h.mem) \ {a, c.new}) \cup {b}
  /\ Same(h.mem, g.mem, Alloc(h.mem) \ {a, c.new})
  /\ need \in Nat /\ need > 0 /\ g.mem[b].size >= need
  /\ Booked(bl, bm, a, b, need)

LEMMA CallEnds ==
  ASSUME NEW h, NEW bl, NEW p, NEW rc, Holds(h, bl, p, rc),
         NEW t \in Threads, NEW g, NEW a, NEW b, NEW need, NEW bm,
         Handed(h, g, bl, bm, p[t], a, b, need),
         NEW q, q = [p EXCEPT ![t] = Idle]
  PROVE  Kept(g, bm, q)
<1> USE DEF Handed
<1>0. /\ DOMAIN bm = (DOMAIN bl \ {a}) \cup {b} /\ bm[b] = need
      /\ \A x \in DOMAIN bl \ {a} : x # b => bm[x] = bl[x]
  BY DEF Booked
<1> DEFINE new == p[t].new
<1>1. /\ p \in [Threads -> Calls]
      /\ \A u \in Threads : Call(p[u], h.mem, DOMAIN bl)
      /\ Distinct(p) /\ Held(h.mem, bl) /\ Owned(h, bl, p)
      /\ NULL \notin DOMAIN bl /\ NULL \notin Alloc(h.mem)
      /\ DOMAIN bl \subseteq Alloc(h.mem) \ GuardsOf(h)
      /\ New(p) \subseteq Alloc(h.mem) \ GuardsOf(h)
      /\ GuardsOf(h) \subseteq Alloc(h.mem)
  BY HoldsFacts, IdleFacts
<1>2. /\ new \in New(p) /\ new \in Alloc(h.mem) /\ new \notin GuardsOf(h) /\ new \notin DOMAIN bl
  BY <1>1 DEF New, Owned
<1>3. GuardsOf(g) = GuardsOf(h)
  BY DEF GuardsOf
<1>4. /\ New(q) = New(p) \ {new} /\ q \in [Threads -> Calls] /\ Distinct(q)
      /\ q[t] = Idle /\ \A u \in Threads : u # t => q[u] = p[u]
  <2>1. Goes(p, t, Idle, q)
    BY <1>1, IdleFacts, CallStep
  <2> QED BY <2>1, IdleFacts DEF Goes
<1> HIDE DEF new
<1>5. ASSUME NEW u \in Threads PROVE Call(q[u], g.mem, DOMAIN bm)
  <2>1. CASE u = t
    BY <1>4, <2>1, IdleFacts
  <2>2. CASE u # t
    <3>1. q[u] = p[u] /\ Call(p[u], h.mem, DOMAIN bl)
      BY <1>1, <1>4, <2>2
    <3>2. p[u].new \in Alloc(h.mem) \ {a, new} \/ p[u].new = NULL
      <4>1. p[u].new = NULL \/ p[u].new \in New(p)
        BY DEF New
      <4>2. p[u].new # new \/ p[u].new = NULL
        BY <1>1, <2>2 DEF Distinct, new
      <4>3. p[u].new \in New(p) => p[u].new \notin DOMAIN bl
        BY <1>1 DEF Owned
      <4> QED BY <1>1, <4>1, <4>2, <4>3 DEF new
    <3>3. p[u].old \in DOMAIN bl \/ p[u].old = NULL
      BY <3>1, IdleFacts DEF Call
    <3>4. p[u].old \in DOMAIN bl => p[u].old # a
      BY <1>1, <1>2, <2>2 DEF Distinct, new
    <3>5. p[u].old \in DOMAIN bm \/ p[u].old = NULL
      BY <1>0, <3>3, <3>4
    <3> QED BY <1>1, <3>1, <3>2, <3>5, CallKept DEF new
  <2> QED BY <2>1, <2>2
<1>6. Held(g.mem, bm)
  <2> SUFFICES ASSUME NEW x \in DOMAIN bm
               PROVE  bm[x] \in Nat \ {0} /\ x \in Alloc(g.mem) /\ g.mem[x].size >= bm[x]
    BY DEF Held
  <2>1. CASE x = b
    BY <1>0, <2>1
  <2>2. CASE x # b
    <3>1. x \in DOMAIN bl \ {a} /\ bm[x] = bl[x]
      BY <1>0, <2>2
    <3>2. bl[x] \in Nat \ {0} /\ x \in Alloc(h.mem) /\ h.mem[x].size >= bl[x] /\ x # new
      BY <1>1, <1>2, <3>1 DEF Held
    <3>3. x \in Alloc(h.mem) \ {a, new} /\ g.mem[x].size = h.mem[x].size
      BY <3>1, <3>2 DEF Same, new
    <3> QED BY <3>1, <3>2, <3>3 DEF new
  <2> QED BY <2>1, <2>2
<1>7. Owned(g, bm, q)
  <2>1. a \notin GuardsOf(h) /\ (a \in New(p) => a = new)
    BY <1>1, <1>2 DEF Owned, new
  <2>2. b \notin New(p) \ {new}
    <3>1. \A x \in New(p) \ {new} : x \in Alloc(h.mem) \ {a, new}
      BY <1>1, <2>1
    <3> QED BY <3>1 DEF new
  <2>3. /\ Alloc(h.mem) = DOMAIN bl \cup New(p) \cup GuardsOf(h)
        /\ DOMAIN bl \cap New(p) = {} /\ DOMAIN bl \cap GuardsOf(h) = {} /\ New(p) \cap GuardsOf(h) = {}
    BY <1>1 DEF Owned
  <2>4. Alloc(g.mem) = (Alloc(h.mem) \ {a, new}) \cup {b} /\ DOMAIN bm = (DOMAIN bl \ {a}) \cup {b}
    BY <1>0 DEF new
  <2>5. ASSUME NEW x PROVE x \in Alloc(g.mem) <=> x \in DOMAIN bm \cup New(q) \cup GuardsOf(g)
    <3>1. CASE x \in DOMAIN bl
      BY <1>2, <1>3, <1>4, <2>3, <2>4, <3>1
    <3>2. CASE x \in New(p)
      BY <1>3, <1>4, <2>1, <2>3, <2>4, <3>2
    <3>3. CASE x \in GuardsOf(h)
      BY <1>2, <1>3, <1>4, <2>1, <2>3, <2>4, <3>3
    <3>4. CASE x \notin Alloc(h.mem)
      BY <1>3, <1>4, <2>3, <2>4, <3>4
    <3> QED BY <2>3, <3>1, <3>2, <3>3, <3>4
  <2>6. DOMAIN bm \cap New(q) = {}
    BY <1>4, <2>2, <2>3, <2>4
  <2>7. DOMAIN bm \cap GuardsOf(g) = {} /\ New(q) \cap GuardsOf(g) = {}
    <3>1. New(q) \cap GuardsOf(h) = {}
      BY <1>4, <2>3
    <3>2. b \notin GuardsOf(h)
      OBVIOUS
    <3>3. DOMAIN bm \cap GuardsOf(h) = {}
      BY <2>3, <2>4, <3>2
    <3> QED BY <1>3, <3>1, <3>3
  <2>8. Alloc(g.mem) = DOMAIN bm \cup New(q) \cup GuardsOf(g)
    BY <2>5
  <2> QED BY <2>6, <2>7, <2>8 DEF Owned
<1> QED BY <1>1, <1>4, <1>5, <1>6, <1>7 DEF Holds, Kept

(* mm_addregion() *)
LEMMA RegionAdded ==
  ASSUME NEW h, NEW bl, NEW p, NEW rc, Holds(h, bl, p, rc), NEW r \in Regions \ h.regions
  PROVE  Holds(mm_addregion(h, r), bl, p, rc)
<1> DEFINE g == mm_addregion(h, r)
<1>1. /\ p \in [Threads -> Calls] /\ rc \in BOOLEAN
      /\ \A t \in Threads : Call(p[t], h.mem, DOMAIN bl)
      /\ Distinct(p) /\ Held(h.mem, bl) /\ Owned(h, bl, p)
      /\ NULL \notin DOMAIN bl /\ NULL \notin Alloc(h.mem)
      /\ DOMAIN bl \subseteq Alloc(h.mem) /\ New(p) \subseteq Alloc(h.mem)
      /\ Good(h) /\ (~rc => Apart(h.mem))
  BY HoldsFacts, IdleFacts
<1>2. /\ Good(g) /\ g.regions = h.regions \cup {r}
      /\ Alloc(g.mem) = Alloc(h.mem) \cup {r.base, EndGuard(r)}
      /\ DOMAIN h.mem \cap {r.base, EndGuard(r)} = {}
      /\ Same(h.mem, g.mem, DOMAIN h.mem)
      /\ Apart(h.mem) => Apart(g.mem)
  BY <1>1, RegionGood
<1> HIDE DEF g
<1>3. GuardsOf(g) = GuardsOf(h) \cup {r.base, EndGuard(r)}
  BY <1>2 DEF GuardsOf, Bases, Ends
<1>4. Alloc(h.mem) \subseteq DOMAIN h.mem
  BY <1>1, GoodFacts
<1>5. ASSUME NEW t \in Threads PROVE Call(p[t], g.mem, DOMAIN bl)
  <2>1. Call(p[t], h.mem, DOMAIN bl)
    BY <1>1
  <2>2. p[t].new \in DOMAIN h.mem \/ p[t].new = NULL
    BY <1>1, <1>4 DEF New
  <2>3. p[t].old \in DOMAIN bl \/ p[t].old = NULL
    BY <2>1, IdleFacts DEF Call
  <2> QED BY <1>1, <1>2, <2>1, <2>2, <2>3, CallKept
<1>6. Held(g.mem, bl)
  BY <1>1, <1>2, <1>4 DEF Held, Same
<1>7. Owned(g, bl, p)
  BY <1>1, <1>2, <1>3, <1>4 DEF Owned
<1> QED BY <1>1, <1>2, <1>5, <1>6, <1>7 DEF Holds, Kept, g
-----------------------------------------------------------------------------
(* Helpers of the calls *)
LEMMA DropIs ==
  ASSUME NEW f, NEW a
  PROVE  /\ DOMAIN Drop(f, a) = DOMAIN f \ {a}
         /\ \A x \in DOMAIN f \ {a} : Drop(f, a)[x] = f[x]
BY DEF Drop

LEMMA ChunkSizeIs ==
  ASSUME NEW bytes \in Nat
  PROVE  /\ ChunkSize(bytes) \in Nat /\ ChunkSize(bytes) > 0 /\ MM_ALIGN_UP(bytes) \in Nat
         /\ \A al \in Nat : al % 16 = 0 => ChunkSize(bytes + 2 * al) = ChunkSize(bytes) + 2 * al
<1>1. ChunkSize(bytes) \in Nat /\ ChunkSize(bytes) > 0 /\ MM_ALIGN_UP(bytes) \in Nat
  BY DEF ChunkSize, MM_ALIGN_UP, MM_MIN_CHUNK, SIZEOF_MM_ALLOCNODE
<1>2. ASSUME NEW al \in Nat, al % 16 = 0 PROVE ChunkSize(bytes + 2 * al) = ChunkSize(bytes) + 2 * al
  BY <1>2 DEF ChunkSize, MM_ALIGN_UP, MM_MIN_CHUNK, SIZEOF_MM_ALLOCNODE
<1> QED BY <1>1, <1>2

(* A block that no call works on *)
LEMMA AvailableFacts ==
  ASSUME Inv, NEW a \in Available
  PROVE  /\ a \in DOMAIN blocks /\ \A t \in Threads : pc[t].old # a
         /\ a \in Alloc(heap.mem) \ GuardsOf(heap) /\ a \in DOMAIN heap.mem \ GuardsOf(heap)
         /\ heap.mem[a].size \in Nat /\ Good(heap)
<1>1. a \in DOMAIN blocks /\ \A t \in Threads : pc[t].old # a
  BY DEF Available
<1>2. Good(heap) /\ DOMAIN blocks \subseteq Alloc(heap.mem) \ GuardsOf(heap)
  BY HoldsFacts DEF Inv
<1>3. Alloc(heap.mem) \subseteq DOMAIN heap.mem /\ \A x \in DOMAIN heap.mem : heap.mem[x].size \in Nat
  BY <1>2, GoodFacts
<1> QED BY <1>1, <1>2, <1>3

(* What mm_malloc() finds is no block of the callers' and of no call *)
LEMMA FoundFacts ==
  ASSUME Inv, NEW a \in Unalloc(heap.mem)
  PROVE  /\ a \notin DOMAIN blocks /\ a \notin GuardsOf(heap) /\ a \in Nat
         /\ \A t \in Threads : pc[t].old # a
<1>1. /\ Good(heap) /\ DOMAIN blocks \subseteq Alloc(heap.mem) /\ GuardsOf(heap) \subseteq Alloc(heap.mem)
      /\ \A t \in Threads : Call(pc[t], heap.mem, DOMAIN blocks)
  BY HoldsFacts DEF Inv
<1>2. Alloc(heap.mem) \cap Unalloc(heap.mem) = {} /\ Unalloc(heap.mem) \subseteq Nat
  BY <1>1, GoodFacts
<1>3. \A t \in Threads : pc[t].old \in DOMAIN blocks \/ pc[t].old = NULL
  BY <1>1, IdleFacts DEF Call
<1> QED BY <1>1, <1>2, <1>3, IdleFacts

-----------------------------------------------------------------------------
(* The invariant holds at the start and every step keeps it *)
LEMMA InitInv == Init => Inv
<1> SUFFICES ASSUME Init PROVE Inv
  OBVIOUS
<1>1. PICK r \in Regions : heap = mm_addregion(EmptyHeap, r)
  BY DEF Init
<1>2. blocks = [a \in {} |-> 0] /\ pc = [t \in Threads |-> Idle] /\ raced = FALSE
  BY DEF Init
<1>3. Good(EmptyHeap) /\ EmptyHeap.regions = {} /\ DOMAIN EmptyHeap.mem = {}
  BY EmptyGood
<1>4. Holds(EmptyHeap, blocks, pc, FALSE)
  <2>1. DOMAIN blocks = {} /\ pc \in [Threads -> Calls] /\ \A t \in Threads : pc[t] = Idle
    BY <1>2, IdleFacts
  <2>2. Alloc(EmptyHeap.mem) = {} /\ Unalloc(EmptyHeap.mem) = {} /\ GuardsOf(EmptyHeap) = {}
    BY <1>3 DEF Alloc, Unalloc, GuardsOf, Bases, Ends
  <2>3. New(pc) = {}
    BY <2>1, IdleFacts DEF New
  <2>4. Distinct(pc)
    BY <2>1, IdleFacts DEF Distinct
  <2>5. Held(EmptyHeap.mem, blocks) /\ Apart(EmptyHeap.mem) /\ Owned(EmptyHeap, blocks, pc)
    BY <2>1, <2>2, <2>3 DEF Held, Apart, Owned
  <2>6. \A t \in Threads : Call(pc[t], EmptyHeap.mem, DOMAIN blocks)
    BY <2>1, IdleFacts
  <2> QED BY <1>3, <2>1, <2>4, <2>5, <2>6 DEF Holds, Kept
<1>5. r \in Regions \ EmptyHeap.regions
  BY <1>3
<1>6. Holds(mm_addregion(EmptyHeap, r), blocks, pc, FALSE)
  BY <1>4, <1>5, RegionAdded
<1> QED BY <1>1, <1>2, <1>6 DEF Inv

LEMMA AddRegionInv == ASSUME Inv, AddRegion PROVE Inv'
<1>1. PICK r \in Regions \ heap.regions : heap' = mm_addregion(heap, r)
  BY DEF AddRegion
<1>2. blocks' = blocks /\ pc' = pc /\ raced' = raced
  BY DEF AddRegion
<1>3. Holds(mm_addregion(heap, r), blocks, pc, raced)
  BY RegionAdded DEF Inv
<1> QED BY <1>1, <1>2, <1>3 DEF Inv

LEMMA MallocInv == ASSUME Inv, NEW t \in Threads, Malloc(t) PROVE Inv'
<1>1. PICK bytes \in Sizes :
        LET need == ChunkSize(bytes)
            m == mm_malloc(heap, need)
        IN /\ m.a # NULL /\ heap' = m.h /\ blocks' = Put(blocks, m.a, need)
           /\ pc' = pc /\ raced' = raced
  BY DEF Malloc
<1> DEFINE need == ChunkSize(bytes)
           a == mm_malloc(heap, need).a
<1>2. need \in Nat /\ need > 0
  BY SizesAssumption, ChunkSizeIs
<1> HIDE DEF need
<1>3. Good(heap) /\ (~raced => Apart(heap.mem))
  BY HoldsFacts DEF Inv
<1>4. /\ a \in Unalloc(heap.mem) /\ Moved(heap, heap', a, a, need)
      /\ Apart(heap.mem) => Apart(heap'.mem)
  <2>1. mm_malloc(heap, need).a # NULL /\ heap' = mm_malloc(heap, need).h
    BY <1>1 DEF need
  <2> QED BY <1>2, <1>3, <2>1, MallocGood
<1>5. blocks' = Put(blocks, a, need) /\ pc' = pc /\ raced' = raced
  BY <1>1 DEF need
<1> HIDE DEF a
<1>6. a \notin DOMAIN blocks /\ a \notin GuardsOf(heap) /\ \A u \in Threads : pc[u].old # a
  BY <1>4, FoundFacts
<1>7. Booked(blocks, blocks', a, a, need)
  BY <1>5, PutBooked
<1>8. Holds(heap', blocks', pc, raced)
  BY <1>2, <1>3, <1>4, <1>6, <1>7, BlockMoved DEF Inv
<1> QED BY <1>5, <1>8 DEF Inv

LEMMA FreeInv == ASSUME Inv, NEW t \in Threads, Free(t) PROVE Inv'
<1>1. PICK a \in Available : heap' = mm_free(heap, a) /\ blocks' = Drop(blocks, a)
  BY DEF Free
<1>2. pc' = pc /\ raced' = raced
  BY DEF Free
<1>3. a \in DOMAIN blocks /\ \A u \in Threads : pc[u].old # a
  BY AvailableFacts
<1>4. DOMAIN blocks' = DOMAIN blocks \ {a} /\ \A x \in DOMAIN blocks' : blocks'[x] = blocks[x]
  BY <1>1, DropIs
<1>5. Holds(heap', blocks', pc, raced)
  BY <1>1, <1>3, <1>4, BlockFreed DEF Inv
<1> QED BY <1>2, <1>5 DEF Inv

LEMMA ReallocInv == ASSUME Inv, NEW t \in Threads, Realloc(t) PROVE Inv'
<1>1. PICK a \in Available, bytes \in Sizes :
        LET need == ChunkSize(bytes)
            take == Take(heap, a, need)
        IN IF need <= heap.mem[a].size
             THEN /\ heap' = IF need < heap.mem[a].size
                               THEN mm_shrinkchunk(heap, a, need) ELSE heap
                  /\ blocks' = Put(blocks, a, need)
             ELSE /\ take.fits
                  /\ heap' = Grow(heap, a, take)
                  /\ blocks' = Put(Drop(blocks, a), NewMem(a, take), need)
  BY DEF Realloc
<1>2. pc' = pc /\ raced' = raced
  BY DEF Realloc
<1> DEFINE need == ChunkSize(bytes)
           take == Take(heap, a, need)
<1>3. need \in Nat /\ need > 0
  BY SizesAssumption, ChunkSizeIs
<1>4. /\ a \in DOMAIN blocks /\ \A u \in Threads : pc[u].old # a
      /\ a \in Alloc(heap.mem) \ GuardsOf(heap) /\ a \in DOMAIN heap.mem \ GuardsOf(heap)
      /\ heap.mem[a].size \in Nat /\ Good(heap)
  BY AvailableFacts
<1>5. ~raced => Apart(heap.mem)
  BY HoldsFacts DEF Inv
<1>6. PICK b : /\ Moved(heap, heap', a, b, need) /\ b \notin GuardsOf(heap)
               /\ (Apart(heap.mem) => Apart(heap'.mem))
               /\ Booked(blocks, blocks', a, b, need)
  <2>1. CASE need <= heap.mem[a].size
    <3>1. /\ heap' = IF need < heap.mem[a].size THEN mm_shrinkchunk(heap, a, need) ELSE heap
          /\ blocks' = Put(blocks, a, need)
      BY <1>1, <2>1
    <3> HIDE DEF need
    <3>2. Booked(blocks, blocks', a, a, need)
      BY <3>1, PutBooked
    <3>3. Moved(heap, heap', a, a, need) /\ (Apart(heap.mem) => Apart(heap'.mem))
      <4>1. CASE need < heap.mem[a].size
        BY <1>3, <1>4, <3>1, <4>1, ShrinkGood
      <4>2. CASE ~(need < heap.mem[a].size)
        <5>1. heap' = heap /\ heap.mem[a].size >= need
          BY <1>3, <1>4, <2>1, <3>1, <4>2
        <5>2. Same(heap.mem, heap.mem, Alloc(heap.mem) \ {a})
          BY <1>4, GoodFacts DEF Same
        <5> QED BY <1>4, <5>1, <5>2 DEF Moved
      <4> QED BY <4>1, <4>2
    <3> QED BY <1>4, <3>2, <3>3
  <2>2. CASE ~(need <= heap.mem[a].size)
    <3> DEFINE b == NewMem(a, take)
    <3>1. take.fits /\ heap' = Grow(heap, a, take) /\ blocks' = Put(Drop(blocks, a), b, need)
      BY <1>1, <2>2
    <3>2. need > heap.mem[a].size
      BY <1>3, <1>4, <2>2
    <3> HIDE DEF need
    <3>3. Moved(heap, heap', a, b, need) /\ b \notin GuardsOf(heap) /\ (Apart(heap.mem) => Apart(heap'.mem))
      BY <1>3, <1>4, <3>1, <3>2, GrowGood
    <3> HIDE DEF b
    <3>4. Booked(blocks, blocks', a, b, need)
      BY <3>1, PutBooked
    <3> QED BY <3>3, <3>4
  <2> QED BY <2>1, <2>2
<1> HIDE DEF need
<1>7. Holds(heap', blocks', pc, raced)
  BY <1>3, <1>4, <1>5, <1>6, BlockMoved DEF Inv
<1> QED BY <1>2, <1>7 DEF Inv
LEMMA ReallocBeginInv == ASSUME Inv, NEW t \in Threads, ReallocBegin(t) PROVE Inv'
<1>1. PICK a \in Available, bytes \in Sizes :
        /\ pc[t] = Idle
        /\ pc' = [pc EXCEPT ![t] = [Idle EXCEPT !.at = "malloc", !.old = a, !.need = ChunkSize(bytes)]]
        /\ heap' = heap /\ blocks' = blocks /\ raced' = raced
  BY DEF ReallocBegin
<1> DEFINE need == ChunkSize(bytes)
           c == [Idle EXCEPT !.at = "malloc", !.old = a, !.need = need]
<1>2. need \in Nat /\ need > 0
  BY SizesAssumption, ChunkSizeIs
<1>3. a \in DOMAIN blocks /\ (\A u \in Threads : pc[u].old # a) /\ a \in Alloc(heap.mem)
  BY AvailableFacts
<1>4. a \in Int /\ a # NULL
  BY <1>3, HoldsFacts DEF Inv
<1> HIDE DEF need
<1>5. c \in Calls /\ c.at = "malloc" /\ c.old = a /\ c.new = NULL /\ c.need = need
  BY <1>2, <1>4, IdleFacts DEF Calls
<1>6. pc' = [pc EXCEPT ![t] = c] /\ pc[t].new = NULL
  BY <1>1, IdleFacts DEF need
<1> HIDE DEF c
<1>7. Call(c, heap.mem, DOMAIN blocks)
  BY <1>2, <1>3, <1>5 DEF Call
<1>8. Holds(heap, blocks, pc', raced)
  BY <1>3, <1>5, <1>6, <1>7, CallTurns DEF Inv
<1> QED BY <1>1, <1>8 DEF Inv

LEMMA ReallocMallocInv == ASSUME Inv, NEW t \in Threads, ReallocMalloc(t) PROVE Inv'
<1> DEFINE need == pc[t].need
           r == mm_malloc(heap, need)
           c == [pc[t] EXCEPT !.at = "copied", !.new = r.a]
<1>1. /\ pc[t].at = "malloc" /\ heap' = r.h /\ blocks' = blocks /\ raced' = raced
      /\ pc' = [pc EXCEPT ![t] = IF r.a = NULL THEN Idle ELSE c]
  BY DEF ReallocMalloc
<1>2. /\ Good(heap) /\ pc \in [Threads -> Calls] /\ Call(pc[t], heap.mem, DOMAIN blocks)
      /\ (~raced => Apart(heap.mem))
  BY HoldsFacts DEF Inv
<1>3. /\ pc[t] \in Calls /\ need \in Nat /\ need > 0 /\ pc[t].old \in DOMAIN blocks /\ pc[t].new = NULL
  BY <1>1, <1>2, IdleFacts DEF Call, Calls
<1>4. \/ r.a = NULL /\ r.h = heap
      \/ /\ r.a \in Unalloc(heap.mem) /\ r.a # NULL /\ Moved(heap, r.h, r.a, r.a, need)
         /\ Apart(heap.mem) => Apart(r.h.mem)
  <2> HIDE DEF need
  <2> QED BY <1>2, <1>3, MallocGood DEF r
<1>5. CASE r.a = NULL /\ r.h = heap
  <2>1. heap' = heap /\ pc' = [pc EXCEPT ![t] = Idle]
    BY <1>1, <1>5
  <2>2. Holds(heap, blocks, pc', raced)
    <3>1. Holds(heap, blocks, pc, raced) /\ Call(Idle, heap.mem, DOMAIN blocks)
      BY IdleFacts DEF Inv
    <3> QED BY <1>3, <2>1, <3>1, IdleFacts, CallTurns
  <2> QED BY <1>1, <2>1, <2>2 DEF Inv
<1>6. CASE /\ r.a \in Unalloc(heap.mem) /\ r.a # NULL /\ Moved(heap, r.h, r.a, r.a, need)
           /\ Apart(heap.mem) => Apart(r.h.mem)
  <2>1. pc' = [pc EXCEPT ![t] = c]
    BY <1>1, <1>6
  <2>2. r.a \in Int
    BY <1>6, FoundFacts
  <2> HIDE DEF r
  <2>3. c \in Calls /\ c.at = "copied" /\ c.old = pc[t].old /\ c.new = r.a /\ c.need = need
    BY <1>3, <2>2 DEF Calls
  <2> HIDE DEF c, need
  <2>4. Call(c, heap'.mem, DOMAIN blocks)
    <3>1. r.a \in Alloc(heap'.mem) /\ heap'.mem[r.a].size >= need
      BY <1>1, <1>6 DEF Moved
    <3> QED BY <1>3, <2>3, <3>1 DEF Call
  <2>5. Holds(heap', blocks, pc', raced)
    <3>1. c.new \in Unalloc(heap.mem) /\ Moved(heap, heap', c.new, c.new, need) /\ (~raced => Apart(heap'.mem))
      BY <1>1, <1>2, <1>6, <2>3
    <3> QED BY <1>3, <2>1, <2>3, <2>4, <3>1, CallGets DEF Inv
  <2> QED BY <1>1, <2>5 DEF Inv
<1> QED BY <1>4, <1>5, <1>6

LEMMA ReallocFreeInv == ASSUME Inv, NEW t \in Threads, ReallocFree(t) PROVE Inv'
<1> DEFINE a == pc[t].old
           b == pc[t].new
           need == pc[t].need
<1>1. /\ pc[t].at = "copied" /\ heap' = mm_free(heap, a)
      /\ blocks' = Put(Drop(blocks, a), b, need)
      /\ pc' = [pc EXCEPT ![t] = Idle] /\ raced' = raced
  BY DEF ReallocFree
<1>2. /\ Good(heap) /\ pc \in [Threads -> Calls] /\ Call(pc[t], heap.mem, DOMAIN blocks)
      /\ (~raced => Apart(heap.mem)) /\ raced \in BOOLEAN
      /\ DOMAIN blocks \subseteq Alloc(heap.mem) \ GuardsOf(heap)
      /\ New(pc) \subseteq Alloc(heap.mem) \ GuardsOf(heap) /\ DOMAIN blocks \cap New(pc) = {}
      /\ NULL \notin Alloc(heap.mem)
  BY HoldsFacts, IdleFacts DEF Inv, Owned
<1>3. /\ pc[t] \in Calls /\ need \in Nat /\ need > 0 /\ a \in DOMAIN blocks
      /\ b \in Alloc(heap.mem) /\ heap.mem[b].size >= need
  BY <1>1, <1>2, IdleFacts DEF Call, Calls
<1>4. b # NULL /\ b \in New(pc) /\ b # a /\ a \in Alloc(heap.mem) \ GuardsOf(heap) /\ b \notin GuardsOf(heap)
  <2>1. b # NULL
    BY <1>2, <1>3
  <2>2. b \in New(pc)
    BY <2>1 DEF New
  <2> QED BY <1>2, <1>3, <2>1, <2>2
<1>5. /\ Good(heap') /\ heap'.regions = heap.regions /\ Alloc(heap'.mem) = Alloc(heap.mem) \ {a}
      /\ Same(heap.mem, heap'.mem, Alloc(heap.mem) \ {a}) /\ (Apart(heap.mem) => Apart(heap'.mem))
  BY <1>1, <1>2, <1>4, FreeGood
<1>6. /\ Alloc(heap'.mem) = (Alloc(heap.mem) \ {a, b}) \cup {b}
      /\ Same(heap.mem, heap'.mem, Alloc(heap.mem) \ {a, b})
      /\ heap'.mem[b].size >= need
  <2> HIDE DEF a, b, need
  <2>1. Alloc(heap'.mem) = (Alloc(heap.mem) \ {a, b}) \cup {b}
    BY <1>3, <1>4, <1>5
  <2>2. heap'.mem[b].size = heap.mem[b].size
    BY <1>3, <1>4, <1>5 DEF Same
  <2>3. Same(heap.mem, heap'.mem, Alloc(heap.mem) \ {a, b})
    BY <1>5 DEF Same
  <2> QED BY <1>3, <2>1, <2>2, <2>3
<1>7. Booked(blocks, blocks', a, b, need)
  BY <1>1, PutBooked
<1>8. Holds(heap', blocks', pc', raced)
  <2>1. Holds(heap, blocks, pc, raced) /\ a \in DOMAIN blocks \cup {pc[t].new} /\ (~raced => Apart(heap'.mem))
    BY <1>2, <1>3, <1>5 DEF Inv
  <2>2. /\ pc[t].new # NULL /\ (a \in DOMAIN blocks => pc[t].old = a /\ b = pc[t].new)
        /\ (pc[t].old # NULL => a = pc[t].old) /\ b \notin Alloc(heap.mem) \ {a, pc[t].new}
    BY <1>4
  <2>3. /\ Alloc(heap'.mem) = (Alloc(heap.mem) \ {a, pc[t].new}) \cup {b}
        /\ Same(heap.mem, heap'.mem, Alloc(heap.mem) \ {a, pc[t].new})
    BY <1>6
  <2> HIDE DEF a, b, need
  <2>4. Handed(heap, heap', blocks, blocks', pc[t], a, b, need)
    BY <1>3, <1>4, <1>5, <1>6, <1>7, <2>1, <2>2, <2>3 DEF Handed
  <2>5. pc' = [pc EXCEPT ![t] = Idle] /\ raced \in BOOLEAN
    BY <1>1, <1>2
  <2>6. Kept(heap', blocks', pc')
    BY <2>1, <2>4, <2>5, CallEnds
  <2> QED BY <2>1, <2>5, <2>6 DEF Holds
<1> QED BY <1>1, <1>8 DEF Inv

LEMMA MemalignInv == ASSUME Inv, NEW t \in Threads, Memalign(t) PROVE Inv'
<1>1. PICK bytes \in Sizes, align \in Alignments :
        LET size == MM_ALIGN_UP(bytes)
            m == mm_malloc(heap, ChunkSize(size + 2 * align))
        IN /\ pc[t] = Idle /\ m.a # NULL /\ heap' = m.h
           /\ pc' = [pc EXCEPT ![t] = [Idle EXCEPT !.at = "align", !.new = m.a,
                                       !.need = ChunkSize(size), !.align = align]]
           /\ blocks' = blocks /\ raced' = raced
  BY DEF Memalign
<1> DEFINE need == ChunkSize(MM_ALIGN_UP(bytes))
           whole == ChunkSize(MM_ALIGN_UP(bytes) + 2 * align)
           a == mm_malloc(heap, whole).a
           c == [Idle EXCEPT !.at = "align", !.new = a, !.need = need, !.align = align]
<1>2. align \in Nat /\ align > 16 /\ align % 16 = 0
  BY AlignmentsAssumption DEF MM_MIN_CHUNK
<1>3. need \in Nat /\ need > 0 /\ whole = need + 2 * align
  <2>1. bytes \in Nat
    BY SizesAssumption
  <2>2. MM_ALIGN_UP(bytes) \in Nat
    BY <2>1, ChunkSizeIs
  <2> QED BY <1>2, <2>2, ChunkSizeIs
<1>4. /\ pc[t] = Idle /\ a # NULL /\ heap' = mm_malloc(heap, whole).h
      /\ pc' = [pc EXCEPT ![t] = c] /\ blocks' = blocks /\ raced' = raced
  BY <1>1
<1> HIDE DEF need, whole
<1>5. Good(heap) /\ (~raced => Apart(heap.mem))
  BY HoldsFacts DEF Inv
<1>6. whole \in Nat /\ whole > 0
  BY <1>2, <1>3
<1>7. /\ a \in Unalloc(heap.mem) /\ Moved(heap, heap', a, a, whole)
      /\ Apart(heap.mem) => Apart(heap'.mem)
  BY <1>4, <1>5, <1>6, MallocGood
<1> HIDE DEF a
<1>8. a \in Int
  BY <1>7, FoundFacts
<1>9. /\ c \in Calls /\ c.at = "align" /\ c.old = NULL /\ c.new = a /\ c.need = need /\ c.align = align
  BY <1>2, <1>3, <1>8, IdleFacts DEF Calls
<1> HIDE DEF c
<1>10. Call(c, heap'.mem, DOMAIN blocks)
  <2>1. a \in Alloc(heap'.mem) /\ heap'.mem[a].size >= whole
    BY <1>7 DEF Moved
  <2> QED BY <1>2, <1>3, <1>9, <2>1 DEF Call
<1>11. Holds(heap', blocks, pc', raced)
  <2>1. c.new \in Unalloc(heap.mem) /\ Moved(heap, heap', c.new, c.new, whole) /\ (~raced => Apart(heap'.mem))
    BY <1>5, <1>7, <1>9
  <2>2. pc[t].new = NULL /\ c.old = pc[t].old
    BY <1>4, <1>9, IdleFacts
  <2> QED BY <1>4, <1>6, <1>9, <1>10, <2>1, <2>2, CallGets DEF Inv
<1> QED BY <1>4, <1>11 DEF Inv

LEMMA MemalignEndInv == ASSUME Inv, NEW t \in Threads, MemalignEnd(t) PROVE Inv'
<1> DEFINE raw == pc[t].new
           need == pc[t].need
           align == pc[t].align
           a == Aligned(raw, align)
<1>1. /\ pc[t].at = "align" /\ heap' = AlignChunk(heap, raw, align, need)
      /\ blocks' = Put(blocks, a, need) /\ pc' = [pc EXCEPT ![t] = Idle]
      /\ raced' = (raced \/ (a # raw /\ FreeAt(heap, PrevOf(heap, raw))))
  BY DEF MemalignEnd
<1>2. /\ Good(heap) /\ pc \in [Threads -> Calls] /\ Call(pc[t], heap.mem, DOMAIN blocks)
      /\ (~raced => Apart(heap.mem)) /\ raced \in BOOLEAN
      /\ New(pc) \subseteq Alloc(heap.mem) \ GuardsOf(heap) /\ DOMAIN blocks \cap New(pc) = {}
      /\ NULL \notin Alloc(heap.mem)
  BY HoldsFacts, IdleFacts DEF Inv, Owned
<1>3. /\ pc[t] \in Calls /\ need \in Nat /\ need > 0 /\ align \in Nat /\ align > 16 /\ pc[t].old = NULL
      /\ raw \in Alloc(heap.mem) /\ heap.mem[raw].size >= need + 2 * align
  BY <1>1, <1>2, IdleFacts DEF Call, Calls
<1>4. raw # NULL /\ raw \in Alloc(heap.mem) \ GuardsOf(heap) /\ raw \notin DOMAIN blocks
  <2>1. raw # NULL
    BY <1>2, <1>3
  <2>2. raw \in New(pc)
    BY <2>1 DEF New
  <2> QED BY <1>2, <2>1, <2>2
<1>5. /\ Moved(heap, heap', raw, a, need) /\ a \notin GuardsOf(heap)
      /\ Apart(heap.mem) /\ (a # raw => ~FreeAt(heap, PrevOf(heap, raw))) => Apart(heap'.mem)
  <2> HIDE DEF raw, need, align
  <2> QED BY <1>1, <1>2, <1>3, <1>4, AlignGood
<1>6. Booked(blocks, blocks', raw, a, need)
  BY <1>1, <1>4, PutBooked
<1>7. raced' \in BOOLEAN /\ (~raced' => Apart(heap'.mem))
  <2> HIDE DEF a, raw
  <2>1. raced' \in BOOLEAN
    BY <1>1
  <2>2. ~raced' => ~raced /\ (a # raw => ~FreeAt(heap, PrevOf(heap, raw)))
    BY <1>1
  <2> QED BY <1>2, <1>5, <2>1, <2>2
<1> HIDE DEF a
<1>8. Holds(heap', blocks', pc', raced')
  <2>1. /\ Good(heap') /\ heap'.regions = heap.regions /\ heap'.mem[a].size >= need
        /\ a \notin Alloc(heap.mem) \ {raw, pc[t].new}
        /\ Alloc(heap'.mem) = (Alloc(heap.mem) \ {raw, pc[t].new}) \cup {a}
        /\ Same(heap.mem, heap'.mem, Alloc(heap.mem) \ {raw, pc[t].new})
    <3>1. {raw, pc[t].new} = {raw}
      OBVIOUS
    <3> HIDE DEF raw
    <3> QED BY <1>5, <3>1 DEF Moved
  <2>2. Holds(heap, blocks, pc, raced) /\ raw \in DOMAIN blocks \cup {pc[t].new}
    BY DEF Inv
  <2>3. Handed(heap, heap', blocks, blocks', pc[t], raw, a, need)
    BY <1>3, <1>4, <1>5, <1>6, <2>1, <2>2 DEF Handed
  <2>4. pc' = [pc EXCEPT ![t] = Idle] /\ raced' \in BOOLEAN /\ (~raced' => Apart(heap'.mem))
    BY <1>1, <1>7
  <2> HIDE DEF raw, need
  <2>5. Kept(heap', blocks', pc')
    BY <2>2, <2>3, <2>4, CallEnds
  <2> QED BY <2>4, <2>5 DEF Holds
<1> QED BY <1>8 DEF Inv
LEMMA StepInv == Inv /\ [Next]_vars => Inv'
<1> SUFFICES ASSUME Inv, [Next]_vars PROVE Inv'
  OBVIOUS
<1>1. CASE AddRegion
  BY <1>1, AddRegionInv
<1>2. ASSUME NEW t \in Threads, Malloc(t) PROVE Inv'
  BY <1>2, MallocInv
<1>3. ASSUME NEW t \in Threads, Free(t) PROVE Inv'
  BY <1>3, FreeInv
<1>4. ASSUME NEW t \in Threads, Realloc(t) PROVE Inv'
  BY <1>4, ReallocInv
<1>5. ASSUME NEW t \in Threads, Memalign(t) PROVE Inv'
  BY <1>5, MemalignInv
<1>6. ASSUME NEW t \in Threads, MemalignEnd(t) PROVE Inv'
  BY <1>6, MemalignEndInv
<1>7. ASSUME NEW t \in Threads, ReallocBegin(t) PROVE Inv'
  BY <1>7, ReallocBeginInv
<1>8. ASSUME NEW t \in Threads, ReallocMalloc(t) PROVE Inv'
  BY <1>8, ReallocMallocInv
<1>9. ASSUME NEW t \in Threads, ReallocFree(t) PROVE Inv'
  BY <1>9, ReallocFreeInv
<1>10. CASE UNCHANGED vars
  BY <1>10 DEF vars, Inv
<1> QED BY <1>1, <1>2, <1>3, <1>4, <1>5, <1>6, <1>7, <1>8, <1>9, <1>10 DEF Next

(* The chunks, the free list, the callers' blocks and the calls under way  *)
(* agree in every reachable state, whatever mm_malloc(), mm_free(),        *)
(* mm_realloc() and mm_memalign() of any number of threads do.             *)
THEOREM HeapConsistent == Spec => []Inv
<1>1. Init => Inv
  BY InitInv
<1>2. Inv /\ [Next]_vars => Inv'
  BY StepInv
<1> QED BY <1>1, <1>2, PTL DEF Spec

LEMMA GuardsAre == Guards = GuardsOf(heap)
BY DEF Guards, GuardsOf, Bases, Ends

LEMMA InvTiles == Inv => ChunksTile
<1> SUFFICES ASSUME Inv PROVE ChunksTile
  OBVIOUS
<1> DEFINE m == heap.mem
           R == heap.regions
<1>1. Good(heap) /\ Tiles(m, R) /\ GuardsOf(heap) \subseteq Alloc(m)
  <2>1. Good(heap)
    BY HoldsFacts DEF Inv
  <2> QED BY <2>1, GoodFacts
<1>2. Guards \subseteq Chunks /\ \A g \in Guards : m[g].alloc
  BY <1>1, GuardsAre DEF Chunks, Alloc
<1>3. ASSUME NEW a \in Chunks
      PROVE  \E r \in R : /\ r.base <= a /\ a <= EndGuard(r)
                          /\ a # EndGuard(r) =>
                               /\ NextOf(heap, a) \in Chunks
                               /\ m[NextOf(heap, a)].preceding = m[a].size
                               /\ \A b \in Chunks : ~(a < b /\ b < NextOf(heap, a))
  <2>1. CASE a \in Ends(R)
    <3>1. PICK r \in R : a = EndGuard(r)
      BY <2>1 DEF Ends
    <3>2. r.base \in Nat /\ r.size \in Nat /\ r.size > 16
      BY <1>1, RegionsAssumption DEF Tiles, MM_MIN_CHUNK
    <3>3. r.base <= a /\ a <= EndGuard(r)
      BY <3>1, <3>2 DEF EndGuard, SIZEOF_MM_ALLOCNODE
    <3> QED BY <3>1, <3>3
  <2>2. CASE a \notin Ends(R)
    <3>1. LinkedUp(m, a) /\ Inside(a, R)
      BY <1>1, <2>2 DEF Tiles, Chunks
    <3> QED BY <3>1 DEF LinkedUp, Inside, Behind, NextOf, Chunks
  <2> QED BY <2>1, <2>2
<1> QED BY <1>2, <1>3 DEF ChunksTile

(* The chunks of every region lie end to end between its guards, and each  *)
(* knows the size of the one before it, for every set of disjoint regions: *)
(* what mm_free() and mm_realloc() find at the end of a chunk and by its   *)
(* `preceding' is always the header of its neighbour.                      *)
THEOREM Tiled == Spec => []ChunksTile
BY HeapConsistent, InvTiles, PTL

LEMMA FreeChunksAre == FreeChunks = Unalloc(heap.mem) /\ Chunks \ FreeChunks = Alloc(heap.mem)
BY DEF FreeChunks, Chunks, Unalloc, Alloc

LEMMA InvFreeList == Inv => FreeListExact
<1> SUFFICES ASSUME Inv PROVE FreeListExact
  OBVIOUS
<1> DEFINE m == heap.mem
           bins == heap.bins
<1>1. /\ Listed(m, bins, Unalloc(m)) /\ Unalloc(m) \subseteq DOMAIN m
      /\ \A x \in DOMAIN m : m[x].size \in Nat
  <2>1. Good(heap)
    BY HoldsFacts DEF Inv
  <2> QED BY <2>1, GoodFacts
<1>2. \A x \in Unalloc(m) : mm_size2ndx(m[x].size) \in Bins
  BY <1>1, Ndx
<1>3. UNION {ToSet(bins[i]) : i \in Bins} = FreeChunks
  BY <1>1, <1>2, FreeChunksAre DEF Listed
<1>4. \A i \in Bins : \A j, k \in DOMAIN bins[i] :
        j < k => bins[i][j] # bins[i][k] /\ m[bins[i][j]].size <= m[bins[i][k]].size
  BY <1>1 DEF Listed, Ordered
<1>5. ASSUME NEW i \in Bins, NEW a \in ToSet(bins[i])
      PROVE  /\ mm_size2ndx(m[a].size) = i
             /\ \A j \in i + 1 .. NNodes - 1 : \A b \in ToSet(bins[j]) : m[a].size < m[b].size
  <2>1. a \in Unalloc(m) /\ mm_size2ndx(m[a].size) = i
    BY <1>1 DEF Listed
  <2>2. ASSUME NEW j \in i + 1 .. NNodes - 1, NEW b \in ToSet(bins[j]) PROVE m[a].size < m[b].size
    <3>1. i \in Nat /\ j \in Bins /\ j \in Nat /\ ~(j <= i)
      BY NNodesAssumption DEF Bins
    <3>2. b \in Unalloc(m) /\ mm_size2ndx(m[b].size) = j
      BY <1>1, <3>1 DEF Listed
    <3>3. m[a].size \in Nat /\ m[b].size \in Nat
      BY <1>1, <2>1, <3>2
    <3>4. ~(m[b].size <= m[a].size)
      BY <2>1, <3>1, <3>2, <3>3, Ndx
    <3> QED BY <3>3, <3>4
  <2> QED BY <2>1, <2>2
<1> QED BY <1>3, <1>4, <1>5 DEF FreeListExact

(* The free list holds every free chunk once, in the list of its size and  *)
(* in the order of size, whatever mm_addfreechunk() and the unlinking in   *)
(* the four calls do, and for every number of lists.                       *)
THEOREM FreeList == Spec => []FreeListExact
BY HeapConsistent, InvFreeList, PTL

LEMMA InvBacked == Inv => BlocksBacked
<1> SUFFICES ASSUME Inv PROVE BlocksBacked
  OBVIOUS
<1>1. /\ Good(heap) /\ pc \in [Threads -> Calls] /\ raced \in BOOLEAN
      /\ Held(heap.mem, blocks) /\ Owned(heap, blocks, pc)
  BY HoldsFacts DEF Inv
<1>2. Tiles(heap.mem, heap.regions) /\ Listed(heap.mem, heap.bins, Unalloc(heap.mem))
      /\ Alloc(heap.mem) \subseteq DOMAIN heap.mem
  BY <1>1, GoodFacts
<1>3. \A a \in DOMAIN blocks : heap.mem[a].alloc /\ heap.mem[a].size >= blocks[a]
  BY <1>1 DEF Held, Alloc
<1>4. TypeOK
  <2>1. \A a \in Chunks : heap.mem[a] \in [size : Nat \ {0}, preceding : Nat, alloc : BOOLEAN]
    BY <1>2, ChunkFacts DEF Chunks, Headers
  <2>2. DOMAIN heap.bins = Bins /\ heap.regions \subseteq Regions
    BY <1>2 DEF Listed, Tiles
  <2>3. DOMAIN blocks \subseteq Chunks /\ \A a \in DOMAIN blocks : blocks[a] \in Nat \ {0}
    BY <1>1, <1>2 DEF Held, Chunks
  <2>4. \A t \in Threads : pc[t].at \in {"idle", "malloc", "copied", "align"}
    BY <1>1 DEF Calls
  <2> QED BY <1>1, <2>1, <2>2, <2>3, <2>4 DEF TypeOK
<1>5. /\ Chunks \ FreeChunks = DOMAIN blocks \cup Pending \cup Guards
      /\ DOMAIN blocks \cap Pending = {} /\ DOMAIN blocks \cap Guards = {}
  BY <1>1, FreeChunksAre, GuardsAre DEF Owned, New, Pending
<1> QED BY <1>3, <1>4, <1>5 DEF BlocksBacked

(* A block a caller has is an allocated chunk of its own and as large as   *)
(* asked for, and nothing else is allocated but the guards and what a call *)
(* under way holds: between the two sections of mm_realloc() and           *)
(* mm_memalign(), too, no block is handed out twice, lost or cut short.    *)
THEOREM Backed == Spec => []BlocksBacked
BY HeapConsistent, InvBacked, PTL

LEMMA InvFit == Inv => BestFit
<1> SUFFICES ASSUME Inv, NEW bytes \in Sizes
             PROVE  LET need == ChunkSize(bytes)
                        fit == {a \in FreeChunks : heap.mem[a].size >= need}
                        found == Search(heap, need)
                    IN IF fit = {} THEN found = NULL
                       ELSE found \in fit /\ \A a \in fit : heap.mem[found].size <= heap.mem[a].size
  BY DEF BestFit
<1> DEFINE m == heap.mem
           need == ChunkSize(bytes)
           fit == {a \in FreeChunks : m[a].size >= need}
           found == Search(heap, need)
<1>1. need \in Nat
  BY SizesAssumption, ChunkSizeIs
<1>2. /\ Listed(m, heap.bins, Unalloc(m)) /\ Unalloc(m) \subseteq Nat
      /\ \A x \in Unalloc(m) : m[x].size \in Nat
  <2>1. Good(heap)
    BY HoldsFacts DEF Inv
  <2> QED BY <2>1, GoodFacts
<1>3. fit = {a \in Unalloc(m) : m[a].size >= need}
  BY FreeChunksAre
<1> HIDE DEF need, fit
<1>4. \/ found = NULL /\ \A x \in Unalloc(m) : ~(m[x].size >= need)
      \/ /\ found \in Unalloc(m) /\ m[found].size >= need
         /\ \A x \in Unalloc(m) : m[x].size >= need => m[found].size <= m[x].size
  BY <1>1, <1>2, SearchIs
<1> HIDE DEF found
<1>5. IF fit = {} THEN found = NULL ELSE found \in fit /\ \A a \in fit : m[found].size <= m[a].size
  BY <1>3, <1>4
<1> QED BY <1>5 DEF need, fit, found

(* mm_malloc() finds the smallest free chunk that is large enough, and     *)
(* fails only if there is none, for every number of lists.                 *)
THEOREM Fit == Spec => []BestFit
BY HeapConsistent, InvFit, PTL

LEMMA InvMerged == Inv => Coalesced
<1> SUFFICES ASSUME Inv, ~raced, NEW a \in FreeChunks PROVE NextOf(heap, a) \notin FreeChunks
  BY DEF Coalesced
<1>1. Apart(heap.mem)
  BY HoldsFacts DEF Inv
<1> QED BY <1>1, FreeChunksAre DEF Apart, Behind, NextOf

(* No two free chunks lie side by side, except for the heads that          *)
(* mm_memalign() frees beside a chunk that was freed after it had given up *)
(* the semaphore.                                                          *)
THEOREM Merged == Spec => []Coalesced
BY HeapConsistent, InvMerged, PTL
=============================================================================

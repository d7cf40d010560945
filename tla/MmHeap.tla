------------------------------- MODULE MmHeap -------------------------------
(***************************************************************************)
(* The memory manager: mm_malloc(), mm_free(), mm_realloc() and            *)
(* mm_memalign() on a heap of several regions, called by several threads.  *)
(*                                                                         *)
(* Addresses and sizes are in bytes, and a chunk's address is that of its  *)
(* header.  The memory holds the headers only: one that is swallowed by a  *)
(* merge is dropped, and reading it would be an error of the evaluation.   *)
(* The semaphore of the heap makes each section between mm_takesemaphore() *)
(* and mm_givesemaphore() one step; mm_memalign() and mm_realloc() give it *)
(* up half-way.                                                            *)
(***************************************************************************)
EXTENDS Integers, Sequences, FiniteSets, SequencesExt, FiniteSetsExt

CONSTANTS
  Threads,       \* callers
  Regions,       \* the regions, as records of base address and size
  NNodes,        \* MM_NNODES
  Sizes,         \* bytes asked for
  Alignments     \* alignments asked of mm_memalign()

MM_MIN_CHUNK == 16
SIZEOF_MM_ALLOCNODE == 8
SIZEOF_MM_FREENODE == 16

ASSUME NNodesAssumption == NNodes \in Nat \ {0}
ASSUME RegionsAssumption ==
  /\ Regions # {} /\ Regions \subseteq [base : Nat, size : Nat]
  /\ \A r \in Regions : /\ r.base % MM_MIN_CHUNK = 0 /\ r.size % MM_MIN_CHUNK = 0
                         /\ r.size > MM_MIN_CHUNK
  /\ \A r, s \in Regions :
       r # s => r.base + r.size <= s.base \/ s.base + s.size <= r.base
ASSUME SizesAssumption == Sizes \subseteq Nat \ {0}
ASSUME AlignmentsAssumption ==
  /\ Alignments \subseteq Nat
  /\ \A al \in Alignments : al > MM_MIN_CHUNK /\ al % MM_MIN_CHUNK = 0

VARIABLES
  heap,      \* struct mm_heap_s: headers, free list and regions
  blocks,    \* what the callers have: chunk address -> bytes needed
  pc,        \* where each thread's call stands
  raced      \* mm_memalign() has given back memory beside a free chunk

vars == <<heap, blocks, pc, raced>>

NULL == -1
Bins == 0 .. NNodes - 1
Idle == [at |-> "idle", old |-> NULL, new |-> NULL, need |-> 0, align |-> 1]

MM_ALIGN_UP(a) == ((a + MM_MIN_CHUNK - 1) \div MM_MIN_CHUNK) * MM_MIN_CHUNK

ChunkSize(bytes) == MM_ALIGN_UP(bytes + SIZEOF_MM_ALLOCNODE)

Put(f, a, v) == [x \in DOMAIN f \union {a} |-> IF x = a THEN v ELSE f[x]]

Drop(f, a) == [x \in DOMAIN f \ {a} |-> f[x]]

(***************************************************************************)
(* The list of free chunks.                                                *)
(***************************************************************************)

(* mm_size2ndx(): how often the size can be halved, up to the last list. *)
mm_size2ndx(size) ==
  Cardinality({i \in 1 .. NNodes - 1 : 2^i \in 1 .. size \div MM_MIN_CHUNK})

Unlink(h, a) == [h EXCEPT !.bins = [i \in Bins |-> RemoveFirst(h.bins[i], a)]]

(* Mutant: a free chunk is put at the head of its list *)
AddAtHead(h, a) ==
  [h EXCEPT !.bins[mm_size2ndx(h.mem[a].size)] = <<a>> \o @]

(* mm_addfreechunk(): before the first chunk of the list that is not       *)
(* smaller.                                                                *)
mm_addfreechunk(h, a) ==
  LET ndx == mm_size2ndx(h.mem[a].size)
      list == h.bins[ndx]
      places == {k \in 1 .. Len(list) + 1 :
                   k <= Len(list) => h.mem[list[k]].size >= h.mem[a].size}
  IN [h EXCEPT !.bins[ndx] = InsertAt(list, Min(places), a)]

(* Where a list has a chunk that is large enough. *)
Fits(h, i, need) == {k \in DOMAIN h.bins[i] : h.mem[h.bins[i][k]].size >= need}

(* The search follows the lists from that of the size on. *)
Search(h, need) ==
  LET lists == {i \in Bins : i >= mm_size2ndx(need) /\ Fits(h, i, need) # {}}
      i == Min(lists)
  IN IF lists = {} THEN NULL ELSE h.bins[i][Min(Fits(h, i, need))]

(***************************************************************************)
(* The chunks.  Each operation below is made of these: a chunk is cut in   *)
(* two, or two are joined, and their neighbours are told.                  *)
(***************************************************************************)
Header(size, preceding, alloc) ==
  [size |-> size, preceding |-> preceding, alloc |-> alloc]

NextOf(h, a) == a + h.mem[a].size

PrevOf(h, a) == a - h.mem[a].preceding

FreeAt(h, a) == ~h.mem[a].alloc

(* Mutant: the chunk behind keeps the old size of its predecessor *)
CutForgetsNext(h, a, size, low, high) ==
  [h EXCEPT !.mem = [x \in DOMAIN h.mem \union {a + size} |->
     CASE x = a -> Header(size, h.mem[a].preceding, low)
       [] x = a + size -> Header(h.mem[a].size - size, size, high)
       [] OTHER -> h.mem[x]]]

(* Chunk a keeps so many bytes, the rest becomes a chunk of its own; low   *)
(* and high say which of the two is allocated.                             *)
Cut(h, a, size, low, high) ==
  LET rest == h.mem[a].size - size
  IN [h EXCEPT !.mem = [x \in DOMAIN h.mem \union {a + size} |->
        CASE x = a -> Header(size, h.mem[a].preceding, low)
          [] x = a + size -> Header(rest, size, high)
          [] x = NextOf(h, a) -> Header(h.mem[x].size, rest, h.mem[x].alloc)
          [] OTHER -> h.mem[x]]]

(* Chunk b, next to a, becomes part of it. *)
Join(h, a, b) ==
  LET size == h.mem[a].size + h.mem[b].size
  IN [h EXCEPT !.mem = [x \in DOMAIN h.mem \ {b} |->
        CASE x = a -> Header(size, h.mem[a].preceding, TRUE)
          [] x = NextOf(h, b) -> Header(h.mem[x].size, size, h.mem[x].alloc)
          [] OTHER -> h.mem[x]]]

(* The allocated chunk takes over the free one behind it or before it. *)
TakeNext(h, a) == Join(Unlink(h, NextOf(h, a)), a, NextOf(h, a))

TakePrev(h, a) == Join(Unlink(h, PrevOf(h, a)), PrevOf(h, a), a)

(* The head or the tail of an allocated chunk becomes a free chunk. *)
CutTail(h, a, size) == mm_addfreechunk(Cut(h, a, size, TRUE, FALSE), a + size)

CutHead(h, a, size) == mm_addfreechunk(Cut(h, a, size, FALSE, TRUE), a)

(* The rest of a chunk that is larger than needed, unless it is too small. *)
Split(h, a, need) ==
  IF h.mem[a].size - need >= SIZEOF_MM_FREENODE THEN CutTail(h, a, need) ELSE h

Claim(h, a) == [Unlink(h, a) EXCEPT !.mem[a].alloc = TRUE]

Release(h, a) == mm_addfreechunk([h EXCEPT !.mem[a].alloc = FALSE], a)

(* mm_malloc(): [h |-> the heap, a |-> the chunk or NULL]. *)
mm_malloc(h, need) ==
  LET a == Search(h, need)
  IN IF a = NULL THEN [h |-> h, a |-> NULL]
     ELSE [h |-> Split(Claim(h, a), a, need), a |-> a]

MergeNext(h, a) == IF FreeAt(h, NextOf(h, a)) THEN TakeNext(h, a) ELSE h

(* Mutant: a free chunk below is not merged *)
FreeNoPrev(h, a) == Release(MergeNext(h, a), a)

mm_free(h, a) ==
  LET h1 == MergeNext(h, a)
      prev == PrevOf(h1, a)
  IN IF FreeAt(h1, prev) THEN Release(TakePrev(h1, a), prev) ELSE Release(h1, a)

(* The end of an allocated chunk is given back, together with a free chunk *)
(* behind it.                                                              *)
mm_shrinkchunk(h, a, size) ==
  IF FreeAt(h, NextOf(h, a)) THEN CutTail(TakeNext(h, a), a, size) ELSE Split(h, a, size)

(* How much of the free neighbours mm_realloc() takes. *)
Take(h, a, need) ==
  LET next == NextOf(h, a)
      prev == PrevOf(h, a)
      nextsize == IF FreeAt(h, next) THEN h.mem[next].size ELSE 0
      prevsize == IF FreeAt(h, prev) THEN h.mem[prev].size ELSE 0
      needed == need - h.mem[a].size
      prevfirst == prevsize > 0 /\ (nextsize >= prevsize \/ nextsize < 1)
  IN [fits |-> nextsize + prevsize >= needed,
      prev |-> IF prevfirst THEN (IF needed > prevsize THEN prevsize ELSE needed)
               ELSE IF needed > nextsize THEN needed - nextsize ELSE 0,
      next |-> IF prevfirst THEN (IF needed > prevsize THEN needed - prevsize ELSE 0)
               ELSE IF needed > nextsize THEN nextsize ELSE needed]

(* Mutant: the rest of the chunk below stays in the list of its old size *)
GrowDownInPlace(h, a, take) ==
  LET prev == PrevOf(h, a)
      left == h.mem[prev].size - take
  IN IF left > 0 THEN Cut(Join(h, prev, a), prev, left, FALSE, TRUE) ELSE TakePrev(h, a)

(* The chunk grows down into the free chunk before it, which goes back to  *)
(* the list of its new size.                                               *)
GrowDown(h, a, take) ==
  LET prev == PrevOf(h, a)
      left == h.mem[prev].size - take
  IN IF left > 0 THEN CutHead(TakePrev(h, a), prev, left) ELSE TakePrev(h, a)

(* The chunk grows up into the free chunk behind it. *)
GrowUp(h, a, take) ==
  IF take < h.mem[NextOf(h, a)].size
    THEN CutTail(TakeNext(h, a), a, h.mem[a].size + take) ELSE TakeNext(h, a)

Grow(h, a, take) ==
  LET h1 == IF take.prev > 0 THEN GrowDown(h, a, take.prev) ELSE h
  IN IF take.next > 0 THEN GrowUp(h1, a - take.prev, take.next) ELSE h1

(* Where a block that has grown begins. *)
NewMem(a, take) == a - take.prev

(* The second part of mm_memalign(): the head of the raw chunk becomes a   *)
(* free chunk, what is left behind the aligned block is given back.  If    *)
(* the head is too small for a free chunk, the next alignment point is     *)
(* used.                                                                   *)
Aligned(raw, align) ==
  LET rawchunk == raw + SIZEOF_MM_ALLOCNODE
      a == ((rawchunk + align - 1) \div align) * align - SIZEOF_MM_ALLOCNODE
  IN IF a # raw /\ a - raw < SIZEOF_MM_FREENODE THEN a + align ELSE a

AlignChunk(h, raw, align, need) ==
  LET a == Aligned(raw, align)
      h1 == IF a = raw THEN h ELSE CutHead(h, raw, a - raw)
  IN IF h1.mem[a].size - SIZEOF_MM_ALLOCNODE > need THEN mm_shrinkchunk(h1, a, need) ELSE h1

EndGuard(r) == r.base + r.size - SIZEOF_MM_ALLOCNODE

(* mm_addregion(): a free chunk between two guards. *)
mm_addregion(h, r) ==
  LET node == r.base + SIZEOF_MM_ALLOCNODE
      size == r.size - 2 * SIZEOF_MM_ALLOCNODE
      mem == [a \in DOMAIN h.mem \union {r.base, node, EndGuard(r)} |->
                CASE a = r.base -> Header(SIZEOF_MM_ALLOCNODE, 0, TRUE)
                  [] a = node -> Header(size, SIZEOF_MM_ALLOCNODE, FALSE)
                  [] a = EndGuard(r) -> Header(SIZEOF_MM_ALLOCNODE, size, TRUE)
                  [] OTHER -> h.mem[a]]
  IN mm_addfreechunk([mem |-> mem, bins |-> h.bins, regions |-> h.regions \union {r}], node)

(* What mm_initialize() sets up before it adds the first region. *)
EmptyHeap ==
  [mem |-> [a \in {} |-> Header(0, 0, TRUE)], bins |-> [i \in Bins |-> <<>>],
   regions |-> {}]

(***************************************************************************)
(* The calls.                                                              *)
(***************************************************************************)
(* Blocks that no call under way works on. *)
Available == DOMAIN blocks \ {pc[t].old : t \in Threads}

Malloc(t) ==
  \E bytes \in Sizes :
    LET need == ChunkSize(bytes)
        m == mm_malloc(heap, need)
    IN /\ pc[t] = Idle
       /\ m.a # NULL
       /\ heap' = m.h
       /\ blocks' = Put(blocks, m.a, need)
       /\ UNCHANGED <<pc, raced>>

Free(t) ==
  \E a \in Available :
    /\ pc[t] = Idle
    /\ heap' = mm_free(heap, a)
    /\ blocks' = Drop(blocks, a)
    /\ UNCHANGED <<pc, raced>>

(* mm_realloc() in place: the block shrinks, or grows into its neighbours. *)
Realloc(t) ==
  \E a \in Available, bytes \in Sizes :
    LET need == ChunkSize(bytes)
        take == Take(heap, a, need)
    IN /\ pc[t] = Idle
       /\ IF need <= heap.mem[a].size
            THEN /\ heap' = IF need < heap.mem[a].size
                              THEN mm_shrinkchunk(heap, a, need) ELSE heap
                 /\ blocks' = Put(blocks, a, need)
            ELSE /\ take.fits
                 /\ heap' = Grow(heap, a, take)
                 /\ blocks' = Put(Drop(blocks, a), NewMem(a, take), need)
       /\ UNCHANGED <<pc, raced>>

(* It cannot grow: the semaphore is given up, a new chunk is allocated,    *)
(* and then the old one is freed.                                          *)
ReallocBegin(t) ==
  \E a \in Available, bytes \in Sizes :
    LET need == ChunkSize(bytes)
    IN /\ pc[t] = Idle
       /\ need > heap.mem[a].size
       /\ ~Take(heap, a, need).fits
       /\ pc' = [pc EXCEPT ![t] = [Idle EXCEPT !.at = "malloc", !.old = a, !.need = need]]
       /\ UNCHANGED <<heap, blocks, raced>>

ReallocMalloc(t) ==
  LET m == mm_malloc(heap, pc[t].need)
  IN /\ pc[t].at = "malloc"
     /\ heap' = m.h
     /\ pc' = [pc EXCEPT ![t] = IF m.a = NULL THEN Idle
                                ELSE [@ EXCEPT !.at = "copied", !.new = m.a]]
     /\ UNCHANGED <<blocks, raced>>

(* Mutant: the old block is not freed after the copy *)
ReallocFreeLeaks(t) ==
  /\ pc[t].at = "copied"
  /\ heap' = heap
  /\ blocks' = Put(Drop(blocks, pc[t].old), pc[t].new, pc[t].need)
  /\ pc' = [pc EXCEPT ![t] = Idle]
  /\ UNCHANGED raced

ReallocFree(t) ==
  /\ pc[t].at = "copied"
  /\ heap' = mm_free(heap, pc[t].old)
  /\ blocks' = Put(Drop(blocks, pc[t].old), pc[t].new, pc[t].need)
  /\ pc' = [pc EXCEPT ![t] = Idle]
  /\ UNCHANGED raced

(* mm_memalign() asks for twice the alignment more than it needs. *)
Memalign(t) ==
  \E bytes \in Sizes, align \in Alignments :
    LET size == MM_ALIGN_UP(bytes)
        m == mm_malloc(heap, ChunkSize(size + 2 * align))
    IN /\ pc[t] = Idle
       /\ m.a # NULL
       /\ heap' = m.h
       /\ pc' = [pc EXCEPT ![t] = [Idle EXCEPT !.at = "align", !.new = m.a,
                                   !.need = ChunkSize(size), !.align = align]]
       /\ UNCHANGED <<blocks, raced>>

MemalignEnd(t) ==
  LET p == pc[t]
      a == Aligned(p.new, p.align)
  IN /\ p.at = "align"
     /\ heap' = AlignChunk(heap, p.new, p.align, p.need)
     /\ blocks' = Put(blocks, a, p.need)
     /\ raced' = (raced \/ (a # p.new /\ FreeAt(heap, PrevOf(heap, p.new))))
     /\ pc' = [pc EXCEPT ![t] = Idle]

(* The other regions are added while the system comes up, when no other    *)
(* thread runs.                                                            *)
AddRegion ==
  \E r \in Regions \ heap.regions :
    /\ \A t \in Threads : pc[t] = Idle
    /\ heap' = mm_addregion(heap, r)
    /\ UNCHANGED <<blocks, pc, raced>>

Init ==
  /\ \E r \in Regions : heap = mm_addregion(EmptyHeap, r)
  /\ blocks = [a \in {} |-> 0]
  /\ pc = [t \in Threads |-> Idle]
  /\ raced = FALSE

Next ==
  \/ AddRegion
  \/ \E t \in Threads :
       \/ Malloc(t) \/ Free(t) \/ Realloc(t) \/ Memalign(t) \/ MemalignEnd(t)
       \/ ReallocBegin(t) \/ ReallocMalloc(t) \/ ReallocFree(t)

Spec == Init /\ [][Next]_vars

(***************************************************************************)
(* What the memory manager promises.                                       *)
(***************************************************************************)
Guards == UNION {{r.base, EndGuard(r)} : r \in heap.regions}

Chunks == DOMAIN heap.mem

FreeChunks == {a \in Chunks : ~heap.mem[a].alloc}

(* What calls under way have allocated and not yet handed out. *)
Pending == {pc[t].new : t \in Threads} \ {NULL}

(* The variables keep their types, and a chunk has a place for its header. *)
TypeOK ==
  /\ \A a \in Chunks : heap.mem[a] \in [size : Nat \ {0}, preceding : Nat, alloc : BOOLEAN]
  /\ DOMAIN heap.bins = Bins /\ heap.regions \subseteq Regions
  /\ DOMAIN blocks \subseteq Chunks
  /\ \A a \in DOMAIN blocks : blocks[a] \in Nat \ {0}
  /\ \A t \in Threads : pc[t].at \in {"idle", "malloc", "copied", "align"}
  /\ raced \in BOOLEAN

(* The chunks of every region lie end to end between its guards and each   *)
(* knows the size of the one before it, through all splits, merges and     *)
(* moves: mm_free() finds both neighbours by these two numbers alone.      *)
ChunksTile ==
  /\ Guards \subseteq Chunks /\ \A g \in Guards : heap.mem[g].alloc
  /\ \A a \in Chunks : \E r \in heap.regions :
       /\ r.base <= a /\ a <= EndGuard(r)
       /\ a # EndGuard(r) =>
            /\ NextOf(heap, a) \in Chunks
            /\ heap.mem[NextOf(heap, a)].preceding = heap.mem[a].size
            /\ \A b \in Chunks : ~(a < b /\ b < NextOf(heap, a))

(* The free list holds every free chunk once, in the list of its size and  *)
(* in the order of size, also when a chunk changes its size in place.      *)
FreeListExact ==
  LET size(a) == heap.mem[a].size
  IN /\ UNION {ToSet(heap.bins[i]) : i \in Bins} = FreeChunks
     /\ \A i \in Bins : \A j, k \in DOMAIN heap.bins[i] :
          j < k => /\ heap.bins[i][j] # heap.bins[i][k]
                   /\ size(heap.bins[i][j]) <= size(heap.bins[i][k])
     /\ \A i \in Bins : \A a \in ToSet(heap.bins[i]) :
          /\ mm_size2ndx(size(a)) = i
          /\ \A j \in i + 1 .. NNodes - 1 : \A b \in ToSet(heap.bins[j]) : size(a) < size(b)

(* The state is well-formed, every block a caller has is an allocated      *)
(* chunk of its own, as large as asked for, and every allocated chunk      *)
(* belongs to a caller, to a call under way or to the guards: nothing is   *)
(* handed out twice, nothing leaks.                                        *)
BlocksBacked ==
  /\ TypeOK
  /\ \A a \in DOMAIN blocks : heap.mem[a].alloc /\ heap.mem[a].size >= blocks[a]
  /\ Chunks \ FreeChunks = DOMAIN blocks \union Pending \union Guards
  /\ DOMAIN blocks \intersect Pending = {} /\ DOMAIN blocks \intersect Guards = {}

(* The search finds the smallest free chunk that is large enough, whatever *)
(* list it starts in, and fails only if there is none.                     *)
BestFit ==
  \A bytes \in Sizes :
    LET need == ChunkSize(bytes)
        fit == {a \in FreeChunks : heap.mem[a].size >= need}
        found == Search(heap, need)
    IN IF fit = {} THEN found = NULL
       ELSE found \in fit /\ \A a \in fit : heap.mem[found].size <= heap.mem[a].size

(* No two free chunks lie side by side, so that memory that is free is     *)
(* found when it is asked for; but mm_memalign(), which gives up the       *)
(* semaphore before it frees the head of its chunk, does not merge it with *)
(* a chunk that was freed meanwhile.                                       *)
Coalesced ==
  ~raced => \A a \in FreeChunks : NextOf(heap, a) \notin FreeChunks

=============================================================================

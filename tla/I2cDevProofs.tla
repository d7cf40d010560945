---------------------------- MODULE I2cDevProofs ----------------------------
(***************************************************************************)
(* Proofs about I2cDev, for any number of threads and descriptors: the     *)
(* reference counts of the inode and of the driver instance are exact on   *)
(* every path, and both live as long as somebody refers to them.           *)
(***************************************************************************)
EXTENDS I2cDev, FiniteSetTheorems, NaturalsInduction, WellFoundedInduction, TLAPS

(* The points at which a call is about to fill, to close or to replace a   *)
(* descriptor                                                              *)
Filling == {"o_drv", "o_undo"}
ClosingAt == {"c_lock", "c_drv", "c_rel"}
Replacing == {"d_lock", "d_close", "d_rel", "d_ref", "d_open", "d_undo"}

(* ... and those at which it has the semaphore of the list *)
Listed == {"c_drv", "c_rel", "d_close", "d_rel", "d_ref", "d_open", "d_undo"}

(* The descriptor a call has to itself, and the one dup() or dup2() copies *)
Owned(t) ==
  IF pc[t] \in Filling \cup ClosingAt THEN {arg[t]}
  ELSE IF pc[t] \in Replacing THEN {arg2[t]} ELSE {}

Source(t) == IF pc[t] \in Replacing \cup {"p_ref"} THEN {arg[t]} ELSE {}

(* How the descriptors of a call stand at each of its points *)
FdInvOf(t) ==
  /\ pc[t] \in Listed => fl_sem = t
  /\ pc[t] \in Filling => arg[t] \in files \ (live \cup opened)
  /\ pc[t] \in ClosingAt => arg[t] \in live
  /\ pc[t] = "c_rel" => arg[t] \notin opened
  /\ pc[t] \in {"d_lock", "d_close", "d_rel"} => arg2[t] \in live
  /\ pc[t] \in {"d_rel", "d_ref", "d_open", "d_undo"} => arg2[t] \notin opened
  /\ pc[t] = "d_ref" => arg2[t] \in Fds \ files
  /\ pc[t] \in {"d_open", "d_undo"} => arg2[t] \in files
  /\ pc[t] = "d_open" => arg2[t] \notin live
  /\ pc[t] = "p_alloc" => dups > 0
  /\ Source(t) \subseteq live /\ Source(t) \cap Owned(t) = {}

FdInv == \A t \in Threads : FdInvOf(t)

(* No two calls have the same descriptor to themselves, and none copies    *)
(* one that another is closing                                             *)
ApartFrom(t, u) == Owned(t) \cap Owned(u) = {} /\ Source(t) \cap Owned(u) = {}

Apart == \A t, u \in Threads : t # u => ApartFrom(t, u)

(* The re-entrant semaphore of the tree is taken twice only by a thread    *)
(* that an earlier unlink() left with it, and only in unlink()             *)
TreeInv ==
  /\ \A t \in Threads : pc[t] \in {"u_drv", "u_rm"} => tree.holder = t
  /\ tree.count = 2 => pc[tree.holder] \in {"u_drv", "u_rm", "stray"}

InodeInv ==
  ~misused => /\ inode.crefs = References
              /\ inode.freed <=> ~inode.linked /\ References = 0

(* Without dup(), every descriptor of the application has been opened and  *)
(* not yet closed by the driver                                            *)
Closed(fd) == \E t \in Threads : fd \in Owned(t) /\ pc[t] \in {"c_rel", "d_rel", "d_undo"}

DriverInv == DriverCounted /\ (dups = 0 => \A fd \in live \ opened : Closed(fd))

Inv == TypeOK /\ FdInv /\ Apart /\ TreeInv /\ InodeInv /\ DriverInv
-----------------------------------------------------------------------------
(* A step of t leaves the calls of the others alone, and the descriptors   *)
(* outside of N                                                            *)
Others(t) ==
  \A u \in Threads \ {t} : pc'[u] = pc[u] /\ arg'[u] = arg[u] /\ arg2'[u] = arg2[u]

Elsewhere(N) ==
  \A x : x \notin N => /\ x \in files' <=> x \in files
                       /\ x \in live' <=> x \in live
                       /\ x \in opened' <=> x \in opened

LEMMA FdStep ==
  ASSUME FdInv, Apart, NEW t \in Threads, NEW N, Others(t), Elsewhere(N),
         \A u \in Threads \ {t} : N \cap Owned(u) = {} /\ N \cap Source(u) = {},
         \A u \in Threads \ {t} : Source(t)' \cap Owned(u) = {},
         Owned(t)' \subseteq N, FdInvOf(t)',
         fl_sem' = fl_sem \/ fl_sem \in {NoThread, t},
         dups' = dups \/ dups' > 0
  PROVE  FdInv' /\ Apart'
<1>1. ASSUME NEW u \in Threads \ {t} PROVE Owned(u)' = Owned(u) /\ Source(u)' = Source(u)
  BY <1>1 DEF Others, Owned, Source
<1>2. ASSUME NEW u \in Threads \ {t} PROVE FdInvOf(u)'
  <2>1. /\ FdInvOf(u) /\ Owned(u)' = Owned(u) /\ Source(u)' = Source(u)
        /\ pc'[u] = pc[u] /\ arg'[u] = arg[u] /\ arg2'[u] = arg2[u]
    BY <1>1, <1>2 DEF FdInv, Others
  <2>2. \A x \in Owned(u) \cup Source(u) : /\ x \in files' <=> x \in files
                                           /\ x \in live' <=> x \in live
                                           /\ x \in opened' <=> x \in opened
    BY <1>2 DEF Elsewhere
  <2>3. u # t /\ u \in Threads /\ NoThread \notin Threads
    BY ThreadsAssumption
  <2>4. pc[u] \in Listed => fl_sem' = u
    BY <2>1, <2>3 DEF FdInvOf
  <2>5. Source(u)' \subseteq live'
    BY <2>1, <2>2 DEF FdInvOf
  <2>6. CASE pc[u] \in Filling \cup ClosingAt
    <3>1. arg[u] \in Owned(u)
      BY <2>6 DEF Owned
    <3> QED BY <2>1, <2>2, <2>4, <2>5, <2>6, <3>1
          DEF FdInvOf, Filling, ClosingAt, Replacing, Listed
  <2>7. CASE pc[u] \in Replacing
    <3>1. arg2[u] \in Owned(u)
      BY <2>7 DEF Owned, Replacing, Filling, ClosingAt
    <3> QED BY <2>1, <2>2, <2>4, <2>5, <2>7, <3>1
          DEF FdInvOf, Filling, ClosingAt, Replacing, Listed
  <2>8. CASE pc[u] \notin Filling \cup ClosingAt \cup Replacing
    BY <2>1, <2>4, <2>5, <2>8
       DEF FdInvOf, Filling, ClosingAt, Replacing, Listed
  <2> QED BY <2>6, <2>7, <2>8
<1>3. ASSUME NEW u \in Threads, NEW v \in Threads, u # v PROVE ApartFrom(u, v)'
  <2>1. CASE u # t /\ v # t
    BY <1>1, <1>3, <2>1 DEF Apart, ApartFrom
  <2>2. CASE u = t
    BY <1>1, <1>3, <2>2 DEF ApartFrom
  <2>3. CASE v = t
    BY <1>1, <1>3, <2>3 DEF ApartFrom
  <2> QED BY <2>1, <2>2, <2>3
<1> QED BY <1>2, <1>3 DEF FdInv, Apart

(* The step takes no descriptor that the call did not have already *)
LEMMA FdOwnStep ==
  ASSUME FdInv, Apart, NEW t \in Threads, Others(t), Elsewhere(Owned(t)),
         Owned(t)' \subseteq Owned(t), Source(t)' \subseteq Source(t), FdInvOf(t)',
         fl_sem' = fl_sem \/ fl_sem \in {NoThread, t}, dups' = dups \/ dups' > 0
  PROVE  FdInv' /\ Apart'
<1> DEFINE N == Owned(t)
<1>1. \A u \in Threads \ {t} : N \cap Owned(u) = {} /\ N \cap Source(u) = {}
  BY DEF Apart, ApartFrom
<1>2. \A u \in Threads \ {t} : Source(t)' \cap Owned(u) = {}
  BY DEF Apart, ApartFrom
<1>3. Elsewhere(N) /\ Owned(t)' \subseteq N
  OBVIOUS
<1> HIDE DEF N
<1> QED BY <1>1, <1>2, <1>3, FdStep
(* What every step needs to know of the call it belongs to *)
Known(t) ==
  /\ pc \in [Threads -> Points]
  /\ arg \in [Threads -> Fds \union {NoFd}] /\ arg2 \in [Threads -> Fds \union {NoFd}]
  /\ live \subseteq files /\ opened \subseteq files /\ files \subseteq Fds
  /\ FdInvOf(t) /\ t # NoThread /\ dups \in Nat

LEMMA Knowing == ASSUME Inv, NEW t \in Threads PROVE Known(t)
BY ThreadsAssumption DEF Inv, TypeOK, FdInv, Known

(* Steps that change no descriptor *)
Quiet(t) ==
  \/ OpenFind(t) \/ OpenInterrupted(t) \/ Release(t) \/ CloseLock(t)
  \/ DupRef(t) \/ Dup2Lock(t) \/ Dup2OpenInterrupted(t) \/ IoctlTake(t)
  \/ IoctlInterrupted(t) \/ IoctlDone(t) \/ UnlinkFind(t) \/ UnlinkLock(t)
  \/ UnlinkDriver(t) \/ UnlinkInterrupted(t) \/ UnlinkRemove(t) \/ Misuse(t)

LEMMA QuietFds ==
  ASSUME FdInv, Apart, NEW t \in Threads, Known(t), Quiet(t)
  PROVE  FdInv' /\ Apart'
<1> USE DEF Known, Goto, kernel, ghosts, Owned, Source, Filling, ClosingAt, Replacing, Listed,
            Points
<1> SUFFICES /\ Others(t) /\ Elsewhere(Owned(t)) /\ FdInvOf(t)'
             /\ Owned(t)' \subseteq Owned(t) /\ Source(t)' \subseteq Source(t)
             /\ fl_sem' = fl_sem \/ fl_sem \in {NoThread, t}
             /\ dups' = dups \/ dups' > 0
  BY FdOwnStep
<1> USE DEF OpenFind, OpenInterrupted, Release, CloseLock, DupRef, Dup2Lock,
            Dup2OpenInterrupted, IoctlTake, IoctlInterrupted, IoctlDone, UnlinkFind,
            UnlinkLock, UnlinkDriver, UnlinkInterrupted, UnlinkRemove, Misuse
<1>1. Others(t) /\ UNCHANGED <<files, live, opened>>
  BY DEF Quiet, Others
<1>2. FdInvOf(t)' /\ Owned(t)' \subseteq Owned(t) /\ Source(t)' \subseteq Source(t)
  BY <1>1 DEF Quiet, FdInvOf
<1>3. (fl_sem' = fl_sem \/ fl_sem \in {NoThread, t}) /\ (dups' = dups \/ dups' > 0)
  BY DEF Quiet
<1> QED BY <1>1, <1>2, <1>3 DEF Elsewhere
(* Steps that change only the descriptor the call has to itself *)
Busy(t) ==
  \/ OpenDriver(t) \/ OpenUndo(t) \/ CloseDriver(t) \/ CloseInterrupted(t)
  \/ CloseRelease(t) \/ Dup2Close(t) \/ Dup2CloseInterrupted(t) \/ Dup2Release(t)
  \/ Dup2Ref(t) \/ Dup2Open(t) \/ Dup2Undo(t)

LEMMA BusyFds ==
  ASSUME FdInv, Apart, NEW t \in Threads, Known(t), Busy(t)
  PROVE  FdInv' /\ Apart'
<1> USE DEF Known, Goto, kernel, ghosts, Owned, Source, Filling, ClosingAt, Replacing, Listed,
            Points
<1> SUFFICES /\ Others(t) /\ Elsewhere(Owned(t)) /\ FdInvOf(t)'
             /\ Owned(t)' \subseteq Owned(t) /\ Source(t)' \subseteq Source(t)
             /\ fl_sem' = fl_sem \/ fl_sem \in {NoThread, t}
             /\ dups' = dups \/ dups' > 0
  BY FdOwnStep
<1> USE DEF OpenDriver, OpenUndo, CloseDriver, CloseInterrupted, CloseRelease, Dup2Close,
            Dup2CloseInterrupted, Dup2Release, Dup2Ref, Dup2Open, Dup2Undo,
            i2cdrvr_open, i2cdrvr_close
<1>1. Others(t)
  BY DEF Busy, Others
<1>2. Elsewhere(Owned(t))
  BY DEF Busy, Elsewhere
<1>3. FdInvOf(t)' /\ Owned(t)' \subseteq Owned(t) /\ Source(t)' \subseteq Source(t)
  BY DEF Busy, FdInvOf
<1>4. (fl_sem' = fl_sem \/ fl_sem \in {NoThread, t}) /\ (dups' = dups \/ dups' > 0)
  BY DEF Busy, FdInvOf
<1> QED BY <1>1, <1>2, <1>3, <1>4

(* The calls begin: a descriptor to be closed or replaced is in no use, a  *)
(* descriptor to be copied is not being closed                             *)
LEMMA CallFds ==
  ASSUME FdInv, Apart, NEW t \in Threads, Known(t), Call(t)
  PROVE  FdInv' /\ Apart'
<1> USE DEF Known, Goto, kernel, ghosts, Begin
<1>1. pc[t] = "idle" /\ Others(t) /\ UNCHANGED <<files, live, opened, fl_sem, dups>>
  BY DEF Call, Open, Close, Dup, Dup2, Ioctl, Unlink, Others
<1>2. ASSUME NEW fd \in live, ~Closing(fd), NEW u \in Threads PROVE fd \notin Owned(u)
  <2>1. FdInvOf(u)
    BY DEF FdInv
  <2>2. CASE pc[u] \in Filling
    BY <2>1, <2>2, <1>2 DEF FdInvOf, Owned, Filling
  <2>3. CASE pc[u] \notin Filling
    BY <1>2, <2>3 DEF Closing, Owned, Filling, ClosingAt, Replacing
  <2> QED BY <2>2, <2>3
<1>3. ASSUME NEW fd, ~InUse(fd), NEW u \in Threads PROVE fd \notin Owned(u) /\ fd \notin Source(u)
  BY <1>3 DEF InUse, Owned, Source, Filling, ClosingAt, Replacing
<1>4. PICK N : /\ \A u \in Threads \ {t} : /\ N \cap Owned(u) = {} /\ N \cap Source(u) = {}
                                           /\ Source(t)' \cap Owned(u) = {}
               /\ Owned(t)' \subseteq N /\ FdInvOf(t)'
  <2>1. CASE Open(t) \/ Unlink(t) \/ Ioctl(t)
    <3>1. Owned(t)' = {} /\ Source(t)' = {}
      BY <2>1 DEF Open, Unlink, Ioctl, Owned, Source, Filling, ClosingAt, Replacing
    <3>2. FdInvOf(t)'
      BY <1>1, <2>1, <3>1 DEF Open, Unlink, Ioctl, FdInvOf, Filling, ClosingAt, Listed
    <3> QED BY <3>1, <3>2
  <2>2. CASE Close(t)
    <3>1. PICK fd \in live : ~InUse(fd) /\ Begin(t, "c_lock", fd, NoFd)
      BY <2>2 DEF Close
    <3>2. Owned(t)' = {fd} /\ Source(t)' = {}
      BY <3>1 DEF Owned, Source, Filling, ClosingAt, Replacing
    <3>3. FdInvOf(t)'
      BY <1>1, <3>1, <3>2 DEF FdInvOf, Filling, ClosingAt, Listed
    <3> QED BY <1>3, <3>1, <3>2, <3>3
  <2>3. CASE Dup(t)
    <3>1. PICK fd \in live : ~Closing(fd) /\ Begin(t, "p_ref", fd, fd)
      BY <2>3 DEF Dup
    <3>2. Owned(t)' = {} /\ Source(t)' = {fd}
      BY <3>1 DEF Owned, Source, Filling, ClosingAt, Replacing
    <3>3. FdInvOf(t)'
      BY <1>1, <3>1, <3>2 DEF FdInvOf, Filling, ClosingAt, Listed
    <3> QED BY <1>2, <3>1, <3>2, <3>3
  <2>4. CASE Dup2(t)
    <3>1. PICK fd1 \in live, fd2 \in live :
            fd1 # fd2 /\ ~Closing(fd1) /\ ~InUse(fd2) /\ Begin(t, "d_lock", fd1, fd2)
      BY <2>4 DEF Dup2
    <3>2. Owned(t)' = {fd2} /\ Source(t)' = {fd1}
      BY <3>1 DEF Owned, Source, Filling, ClosingAt, Replacing
    <3>3. FdInvOf(t)'
      BY <1>1, <3>1, <3>2 DEF FdInvOf, Filling, ClosingAt, Listed
    <3> QED BY <1>2, <1>3, <3>1, <3>2, <3>3
  <2> QED BY <2>1, <2>2, <2>3, <2>4 DEF Call
<1> QED BY <1>1, <1>4, FdStep DEF Elsewhere

(* The lowest free descriptor *)
LEMMA FreeFd ==
  ASSUME Fds \ files # {}
  PROVE  Min(Fds \ files) \in Fds \ files
<1> DEFINE S == Fds \ files
<1>0. S \in SUBSET Nat
  BY BoundsAssumption DEF Fds
<1>1. \E x \in S : \A y \in S : ~(<<y, x>> \in OpToRel(<, Nat))
  BY <1>0, WFMin, NatLessThanWellFounded, Zenon
<1>2. \A x, y \in Nat : y < x => <<y, x>> \in OpToRel(<, Nat)
  BY DEF OpToRel
<1>3. \E x \in S : \A y \in S : x <= y
  <2>1. PICK x \in S : \A y \in S : ~(<<y, x>> \in OpToRel(<, Nat))
    BY <1>1, Zenon
  <2> HIDE DEF S
  <2>2. \A y \in S : ~(y < x)
    BY <1>0, <1>2, <2>1
  <2> QED BY <1>0, <2>2
<1> QED BY <1>3 DEF Min

LEMMA AllocateFds ==
  ASSUME FdInv, Apart, NEW t \in Threads, Known(t), OpenAllocate(t) \/ DupAllocate(t)
  PROVE  FdInv' /\ Apart'
<1> USE DEF Known, Goto, ghosts, Owned, Source, Filling, ClosingAt, Replacing, Listed, Points
<1>1. Others(t) /\ fl_sem = NoThread /\ UNCHANGED <<fl_sem, dups, opened>>
  BY DEF OpenAllocate, DupAllocate, Allocate, Others
<1>2. CASE Fds \ files = {}
  <2>1. UNCHANGED <<files, live>> /\ pc' = [pc EXCEPT ![t] = "release"]
    BY <1>2 DEF OpenAllocate, DupAllocate, Allocate
  <2>2. FdInvOf(t)' /\ Owned(t)' = {} /\ Source(t)' = {}
    BY <1>1, <2>1 DEF FdInvOf
  <2> QED BY <1>1, <2>1, <2>2, FdOwnStep DEF Elsewhere
<1>3. CASE Fds \ files # {}
  <2>1. PICK fd \in Fds \ files : files' = files \union {fd} /\ arg' = [arg EXCEPT ![t] = fd]
    BY <1>3, FreeFd DEF OpenAllocate, DupAllocate, Allocate
  <2>2. ASSUME NEW u \in Threads \ {t} PROVE {fd} \cap Owned(u) = {} /\ {fd} \cap Source(u) = {}
    <3>1. FdInvOf(u) /\ u # NoThread
      BY ThreadsAssumption DEF FdInv
    <3> QED BY <1>1, <2>1, <3>1 DEF FdInvOf
  <2>3. Elsewhere({fd})
    BY <1>1, <2>1 DEF OpenAllocate, DupAllocate, Elsewhere
  <2>4. FdInvOf(t)' /\ Owned(t)' \subseteq {fd} /\ Source(t)' = {}
    BY <1>1, <1>3, <2>1 DEF OpenAllocate, DupAllocate, Allocate, FdInvOf
  <2> QED BY <1>1, <2>2, <2>3, <2>4, FdStep
<1> QED BY <1>2, <1>3

LEMMA NextIs ==
  ASSUME Next
  PROVE  \E t \in Threads :
           Call(t) \/ Quiet(t) \/ Busy(t) \/ OpenAllocate(t) \/ DupAllocate(t)
BY DEF Next, Work, Signal, Quiet, Busy

LEMMA FdNext ==
  ASSUME Inv, Next
  PROVE  FdInv' /\ Apart'
BY NextIs, Knowing, CallFds, QuietFds, BusyFds, AllocateFds DEF Inv
-----------------------------------------------------------------------------
(* Types, and the semaphore of the tree *)
InodeType == [crefs : Nat, linked : BOOLEAN, freed : BOOLEAN]
PrivType == [crefs : Int, unlinked : BOOLEAN, freed : BOOLEAN]

LEMMA ReleaseEffect ==
  ASSUME inode \in InodeType, inode' = Released(inode)
  PROVE  /\ inode' \in InodeType
         /\ inode'.crefs = IF inode.crefs > 0 THEN inode.crefs - 1 ELSE inode.crefs
         /\ inode'.linked <=> inode.linked
         /\ inode'.freed <=> inode.crefs <= 1 /\ ~inode.linked
<1> DEFINE c == IF inode.crefs > 0 THEN inode.crefs - 1 ELSE inode.crefs
           f == inode.crefs <= 1 /\ ~inode.linked
<1>1. c \in Nat /\ f \in BOOLEAN
  BY DEF InodeType
<1>2. inode' = [inode EXCEPT !.crefs = c, !.freed = f]
  BY DEF Released
<1>3. inode'.freed <=> f
  <2> HIDE DEF c, f
  <2> QED BY <1>1, <1>2 DEF InodeType
<1>4. inode' \in InodeType /\ inode'.crefs = c /\ inode'.linked = inode.linked
  <2> HIDE DEF c, f
  <2> QED BY <1>1, <1>2 DEF InodeType
<1> QED BY <1>3, <1>4

LEMMA AddrefEffect ==
  ASSUME inode \in InodeType, inode' = [inode EXCEPT !.crefs = @ + 1]
  PROVE  /\ inode' \in InodeType /\ inode'.crefs = inode.crefs + 1
         /\ inode'.linked <=> inode.linked
         /\ inode'.freed <=> inode.freed
BY DEF InodeType

LEMMA RemoveEffect ==
  ASSUME inode \in InodeType, inode' = [inode EXCEPT !.linked = FALSE]
  PROVE  /\ inode' \in InodeType /\ inode'.crefs = inode.crefs /\ ~inode'.linked
         /\ inode'.freed <=> inode.freed
BY DEF InodeType

LEMMA InodeTypeNext ==
  ASSUME inode \in InodeType, Next
  PROVE  inode' \in InodeType
<1> SUFFICES \/ inode' = Released(inode) \/ inode' = inode
             \/ inode' = [inode EXCEPT !.crefs = @ + 1]
             \/ inode' = [inode EXCEPT !.linked = FALSE]
  BY ReleaseEffect, AddrefEffect, RemoveEffect
<1>1. PICK t \in Threads : Call(t) \/ Quiet(t) \/ Busy(t) \/ OpenAllocate(t) \/ DupAllocate(t)
  BY NextIs
<1>2. CASE Call(t) \/ OpenAllocate(t) \/ DupAllocate(t)
  BY <1>2 DEF Call, Open, Close, Dup, Dup2, Ioctl, Unlink, Begin, kernel, OpenAllocate,
              DupAllocate
<1>3. CASE Quiet(t)
  BY <1>3 DEF Quiet, kernel, OpenFind, OpenInterrupted, Release, CloseLock, DupRef, Dup2Lock,
              Dup2OpenInterrupted, IoctlTake, IoctlInterrupted, IoctlDone, UnlinkFind,
              UnlinkLock, UnlinkDriver, UnlinkInterrupted, UnlinkRemove, Misuse,
              inode_addref, inode_release
<1>4. CASE Busy(t)
  BY <1>4 DEF Busy, kernel, OpenDriver, OpenUndo, CloseDriver, CloseInterrupted, CloseRelease,
              Dup2Close, Dup2CloseInterrupted, Dup2Release, Dup2Ref, Dup2Open, Dup2Undo,
              inode_addref, inode_release
<1> QED BY <1>1, <1>2, <1>3, <1>4

(* The driver instance *)
LEMMA PrivEffect ==
  ASSUME priv \in PrivType
  PROVE  /\ priv' = [priv EXCEPT !.crefs = @ + 1] =>
              /\ priv' \in PrivType /\ priv'.crefs = priv.crefs + 1
              /\ priv'.unlinked <=> priv.unlinked
              /\ priv'.freed <=> priv.freed
         /\ priv' = [priv EXCEPT !.crefs = @ - 1, !.freed = priv.crefs <= 1 /\ priv.unlinked] =>
              /\ priv' \in PrivType /\ priv'.crefs = priv.crefs - 1
              /\ priv'.unlinked <=> priv.unlinked
              /\ priv'.freed <=> priv.crefs <= 1 /\ priv.unlinked
         /\ i2cdrvr_unlink =>
              /\ priv' \in PrivType /\ priv'.crefs = priv.crefs
              /\ priv'.freed <=> priv.freed \/ priv.crefs <= 0
<1> DEFINE f == priv.crefs <= 1 /\ priv.unlinked
<1>0. f \in BOOLEAN
  BY DEF PrivType
<1>1. ASSUME priv' = [priv EXCEPT !.crefs = @ + 1]
      PROVE  /\ priv' \in PrivType /\ priv'.crefs = priv.crefs + 1
             /\ priv'.unlinked <=> priv.unlinked
             /\ priv'.freed <=> priv.freed
  BY <1>1 DEF PrivType
<1>2. ASSUME priv' = [priv EXCEPT !.crefs = @ - 1, !.freed = f]
      PROVE  /\ priv' \in PrivType /\ priv'.crefs = priv.crefs - 1
             /\ priv'.unlinked <=> priv.unlinked
             /\ priv'.freed <=> f
  <2> DEFINE c == priv.crefs - 1
  <2>0. c \in Int /\ priv' = [priv EXCEPT !.crefs = c, !.freed = f]
    BY <1>2 DEF PrivType
  <2> HIDE DEF f, c
  <2>1. priv' \in PrivType /\ priv'.crefs = c /\ priv'.unlinked = priv.unlinked
    BY <1>0, <2>0 DEF PrivType
  <2>2. priv'.freed = f
    BY <2>0 DEF PrivType
  <2> QED BY <2>1, <2>2 DEF c
<1>3. ASSUME i2cdrvr_unlink
      PROVE  /\ priv' \in PrivType /\ priv'.crefs = priv.crefs
             /\ priv'.freed <=> priv.freed \/ priv.crefs <= 0
  <2>1. CASE priv.crefs <= 0
    BY <1>3, <2>1 DEF PrivType, i2cdrvr_unlink
  <2>2. CASE ~(priv.crefs <= 0)
    BY <1>3, <2>2 DEF PrivType, i2cdrvr_unlink
  <2> QED BY <2>1, <2>2
<1> QED BY <1>1, <1>2, <1>3

LEMMA PrivTypeNext ==
  ASSUME priv \in PrivType, Next
  PROVE  priv' \in PrivType
<1> SUFFICES \/ priv' = priv \/ i2cdrvr_unlink \/ priv' = [priv EXCEPT !.crefs = @ + 1]
             \/ priv' = [priv EXCEPT !.crefs = @ - 1, !.freed = priv.crefs <= 1 /\ priv.unlinked]
  BY PrivEffect
<1>1. PICK t \in Threads : Call(t) \/ Quiet(t) \/ Busy(t) \/ OpenAllocate(t) \/ DupAllocate(t)
  BY NextIs
<1>2. CASE Call(t) \/ OpenAllocate(t) \/ DupAllocate(t)
  BY <1>2 DEF Call, Open, Close, Dup, Dup2, Ioctl, Unlink, Begin, kernel, OpenAllocate,
              DupAllocate
<1>3. CASE Quiet(t)
  BY <1>3 DEF Quiet, kernel, OpenFind, OpenInterrupted, Release, CloseLock, DupRef, Dup2Lock,
              Dup2OpenInterrupted, IoctlTake, IoctlInterrupted, IoctlDone, UnlinkFind,
              UnlinkLock, UnlinkDriver, UnlinkInterrupted, UnlinkRemove, Misuse
<1>4. CASE Busy(t)
  BY <1>4 DEF Busy, kernel, OpenDriver, OpenUndo, CloseDriver, CloseInterrupted, CloseRelease,
              Dup2Close, Dup2CloseInterrupted, Dup2Release, Dup2Ref, Dup2Open, Dup2Undo,
              i2cdrvr_open, i2cdrvr_close
<1> QED BY <1>1, <1>2, <1>3, <1>4

(* The descriptors and the calls *)
LEMMA FdTypes ==
  ASSUME Inv, Next
  PROVE  /\ files' \subseteq Fds /\ opened' \subseteq files' /\ live' \subseteq files'
         /\ pc' \in [Threads -> Points]
         /\ {arg', arg2'} \subseteq [Threads -> Fds \union {NoFd}]
         /\ {fl_sem', exclsem'} \subseteq Threads \union {NoThread}
         /\ lost' \in 0 .. MaxLost /\ dups' \in Nat /\ misused' \in BOOLEAN
<1>1. PICK t \in Threads : Call(t) \/ Quiet(t) \/ Busy(t) \/ OpenAllocate(t) \/ DupAllocate(t)
  BY NextIs
<1>2. /\ Known(t) /\ {fl_sem, exclsem} \subseteq Threads \union {NoThread}
      /\ lost \in 0 .. MaxLost /\ misused \in BOOLEAN /\ MaxLost \in Nat
  BY Knowing, BoundsAssumption DEF Inv, TypeOK
<1> USE DEF Known, Goto, kernel, ghosts, Points
<1>3. CASE Call(t)
  BY <1>2, <1>3 DEF Call, Open, Close, Dup, Dup2, Ioctl, Unlink, Begin
<1>4. CASE OpenAllocate(t) \/ DupAllocate(t)
  BY <1>2, <1>4, FreeFd DEF OpenAllocate, DupAllocate, Allocate
<1>5. CASE Quiet(t)
  <2> USE DEF Quiet, OpenFind, OpenInterrupted, Release, CloseLock, DupRef, Dup2Lock,
              Dup2OpenInterrupted, IoctlTake, IoctlInterrupted, IoctlDone, UnlinkFind,
              UnlinkLock, UnlinkDriver, UnlinkInterrupted, UnlinkRemove, Misuse
  <2>1. UNCHANGED <<files, opened, live, arg, arg2, lost>> /\ pc' \in [Threads -> Points]
    BY <1>2, <1>5
  <2>2. {fl_sem', exclsem'} \subseteq Threads \union {NoThread}
    BY <1>2, <1>5
  <2>3. dups' = dups \/ dups' = dups + 1
    BY <1>2, <1>5
  <2>4. misused' = misused \/ misused' = TRUE
    BY <1>5
  <2>5. dups' \in Nat
    BY <1>2, <2>3
  <2>6. misused' \in BOOLEAN
    BY <1>2, <2>4, Zenon
  <2> QED BY <1>2, <2>1, <2>2, <2>5, <2>6
<1>6. CASE Busy(t)
  <2> USE DEF Busy, OpenDriver, OpenUndo, CloseDriver, CloseInterrupted, CloseRelease, Dup2Close,
              Dup2CloseInterrupted, Dup2Release, Dup2Ref, Dup2Open, Dup2Undo,
              i2cdrvr_open, i2cdrvr_close
  <2>1. arg[t] \in Fds \/ pc[t] \notin Filling \cup ClosingAt
    BY <1>2 DEF FdInvOf
  <2>2. files' \subseteq Fds /\ opened' \subseteq files' /\ live' \subseteq files'
    BY <1>2, <1>6, <2>1 DEF FdInvOf, Filling, ClosingAt
  <2>3. /\ pc' \in [Threads -> Points] /\ {arg', arg2'} \subseteq [Threads -> Fds \union {NoFd}]
        /\ {fl_sem', exclsem'} \subseteq Threads \union {NoThread}
        /\ lost' \in 0 .. MaxLost /\ dups' \in Nat /\ misused' \in BOOLEAN
    BY <1>2, <1>6
  <2> QED BY <2>2, <2>3
<1> QED BY <1>1, <1>3, <1>4, <1>5, <1>6
LEMMA OthersStay ==
  ASSUME NEW t \in Threads, Call(t) \/ Quiet(t) \/ Busy(t) \/ OpenAllocate(t) \/ DupAllocate(t),
         Known(t)
  PROVE  Others(t)
<1> USE DEF Known, Goto, kernel, ghosts, Others
<1>1. CASE Call(t)
  BY <1>1 DEF Call, Open, Close, Dup, Dup2, Ioctl, Unlink, Begin
<1>2. CASE OpenAllocate(t) \/ DupAllocate(t)
  BY <1>2 DEF OpenAllocate, DupAllocate, Allocate
<1>3. CASE Quiet(t)
  BY <1>3 DEF Quiet, OpenFind, OpenInterrupted, Release, CloseLock, DupRef, Dup2Lock,
              Dup2OpenInterrupted, IoctlTake, IoctlInterrupted, IoctlDone, UnlinkFind,
              UnlinkLock, UnlinkDriver, UnlinkInterrupted, UnlinkRemove, Misuse
<1>4. CASE Busy(t)
  BY <1>4 DEF Busy, OpenDriver, OpenUndo, CloseDriver, CloseInterrupted, CloseRelease,
              Dup2Close, Dup2CloseInterrupted, Dup2Release, Dup2Ref, Dup2Open, Dup2Undo
<1> QED BY <1>1, <1>2, <1>3, <1>4

TreeType ==
  /\ tree \in [holder : Threads \union {NoThread}, count : 0 .. 2]
  /\ tree.count = 0 <=> tree.holder = NoThread

LEMMA TreeNext ==
  ASSUME Inv, Next
  PROVE  TreeType' /\ TreeInv'
<1>1. PICK t \in Threads : Call(t) \/ Quiet(t) \/ Busy(t) \/ OpenAllocate(t) \/ DupAllocate(t)
  BY NextIs
<1>2. Known(t) /\ TreeType /\ TreeInv
  BY Knowing DEF Inv, TypeOK, TreeType
<1>3. Others(t)
  BY <1>1, <1>2, OthersStay
<1> USE DEF Known, Goto, kernel, ghosts
<1>4. CASE UnlinkLock(t)
  <2>1. /\ pc[t] = "u_lock" /\ pc'[t] = "u_drv" /\ tree.holder \in {NoThread, t}
        /\ tree' = [holder |-> t, count |-> tree.count + 1]
    BY <1>2, <1>4 DEF UnlinkLock, inode_semtake, CanTake
  <2>2. tree.count \in {0, 1}
    BY <1>2, <2>1 DEF TreeType, TreeInv
  <2>3. tree'.holder = t /\ tree'.count \in {1, 2} /\ TreeType'
    BY <1>2, <2>1, <2>2 DEF TreeType
  <2>4. \A u \in Threads \ {t} : pc[u] \notin {"u_drv", "u_rm"}
    BY <1>2, <2>1, ThreadsAssumption DEF TreeInv
  <2> QED BY <1>3, <2>1, <2>3, <2>4 DEF TreeInv, Others
<1>5. CASE UnlinkRemove(t)
  <2>1. /\ pc[t] = "u_rm" /\ pc'[t] = "release" /\ tree.holder = t
        /\ tree' = IF tree.count > 1 THEN [tree EXCEPT !.count = @ - 1]
                   ELSE [holder |-> NoThread, count |-> 0]
    BY <1>2, <1>5 DEF UnlinkRemove, inode_semgive, TreeInv
  <2>2. tree.count \in {1, 2}
    BY <1>2, <2>1 DEF TreeType
  <2>3. TreeType' /\ tree'.count # 2
    <3>1. CASE tree.count = 2
      <4>1. tree' = [tree EXCEPT !.count = 1]
        BY <2>1, <3>1
      <4> QED BY <1>2, <2>1, <4>1 DEF TreeType
    <3>2. CASE tree.count = 1
      <4>1. tree' = [holder |-> NoThread, count |-> 0]
        BY <2>1, <3>2
      <4> QED BY <4>1 DEF TreeType
    <3> QED BY <2>2, <3>1, <3>2
  <2>4. \A u \in Threads \ {t} : pc[u] \notin {"u_drv", "u_rm"}
    BY <1>2, <2>1 DEF TreeInv
  <2> QED BY <1>3, <2>1, <2>3, <2>4 DEF TreeInv, Others
<1>6. CASE ~UnlinkLock(t) /\ ~UnlinkRemove(t)
  <2>1. /\ tree' = tree
        /\ pc'[t] \in {"u_drv", "u_rm"} => pc[t] = "u_drv"
        /\ pc[t] = "u_drv" => pc'[t] \in {"u_drv", "u_rm", "stray"} \/ tree.count = 1
        /\ pc[t] \notin {"u_rm", "stray"}
    <3>1. CASE Call(t)
      BY <1>2, <3>1 DEF Call, Open, Close, Dup, Dup2, Ioctl, Unlink, Begin
    <3>2. CASE OpenAllocate(t) \/ DupAllocate(t)
      BY <1>2, <3>2 DEF OpenAllocate, DupAllocate, Allocate
    <3>3. CASE Quiet(t)
      BY <1>2, <1>6, <3>3
         DEF Quiet, OpenFind, OpenInterrupted, Release, CloseLock, DupRef, Dup2Lock,
             Dup2OpenInterrupted, IoctlTake, IoctlInterrupted, IoctlDone, UnlinkFind,
             UnlinkDriver, UnlinkInterrupted, Misuse
    <3>4. CASE Busy(t)
      BY <1>2, <3>4
         DEF Busy, OpenDriver, OpenUndo, CloseDriver, CloseInterrupted, CloseRelease,
             Dup2Close, Dup2CloseInterrupted, Dup2Release, Dup2Ref, Dup2Open, Dup2Undo
    <3> QED BY <1>1, <3>1, <3>2, <3>3, <3>4
  <2>2. TreeType'
    BY <1>2, <2>1 DEF TreeType
  <2>3. tree.count = 2 => tree.holder \in Threads
    BY <1>2 DEF TreeType
  <2> QED BY <1>2, <1>3, <2>1, <2>2, <2>3 DEF TreeInv, Others
<1> QED BY <1>4, <1>5, <1>6

LEMMA TypeNext ==
  ASSUME Inv, Next
  PROVE  TypeOK'
<1>1. inode' \in InodeType /\ priv' \in PrivType
  BY InodeTypeNext, PrivTypeNext DEF Inv, TypeOK, InodeType, PrivType
<1> QED BY <1>1, FdTypes, TreeNext DEF TypeOK, TreeType, InodeType, PrivType

-----------------------------------------------------------------------------
(* The references to the inode *)
LEMMA Finite ==
  ASSUME Inv
  PROVE  /\ IsFiniteSet(files) /\ Cardinality(files) \in Nat
         /\ IsFiniteSet(opened) /\ Cardinality(opened) \in Nat
         /\ IsFiniteSet(Holding) /\ Cardinality(Holding) \in Nat
<1>1. IsFiniteSet(Fds)
  BY BoundsAssumption, FS_Interval DEF Fds
<1>2. files \in SUBSET Fds /\ opened \in SUBSET Fds
  BY DEF Inv, TypeOK
<1>3. Holding \in SUBSET Threads
  BY DEF Holding
<1>4. IsFiniteSet(files) /\ IsFiniteSet(opened)
  BY <1>1, <1>2, FS_Subset
<1>5. IsFiniteSet(Holding)
  BY <1>3, ThreadsAssumption, FS_Subset
<1> QED BY <1>4, <1>5, FS_CardinalityType

LEMMA CardAdd ==
  ASSUME NEW S, IsFiniteSet(S), NEW x, x \notin S
  PROVE  Cardinality(S \cup {x}) = Cardinality(S) + 1
BY FS_AddElement

LEMMA CardRemove ==
  ASSUME NEW S, IsFiniteSet(S), NEW x \in S
  PROVE  /\ Cardinality(S \ {x}) = Cardinality(S) - 1 /\ Cardinality(S) \in Nat
         /\ Cardinality(S) > 0
<1>1. Cardinality(S) \in Nat
  BY FS_CardinalityType
<1>2. Cardinality(S) # 0
  BY FS_EmptySet
<1>3. Cardinality(S \ {x}) = Cardinality(S) - 1
  BY FS_RemoveElement
<1> QED BY <1>1, <1>2, <1>3

(* The call of t begins to hold a reference, or stops *)
LEMMA HoldStep ==
  ASSUME Inv, NEW t \in Threads, Others(t)
  PROVE  /\ (t \in Holding' <=> t \in Holding) => Holding' = Holding
         /\ t \notin Holding /\ t \in Holding' => Cardinality(Holding') = Cardinality(Holding) + 1
         /\ t \in Holding /\ t \notin Holding' => Cardinality(Holding') = Cardinality(Holding) - 1
         /\ t \in Holding => Cardinality(Holding) > 0
<1>0. \A u \in Threads \ {t} : u \in Holding' <=> u \in Holding
  BY DEF Others, Holding
<1>1. Holding \subseteq Threads /\ Holding' \subseteq Threads
  BY DEF Holding
<1>2. IsFiniteSet(Holding)
  BY Finite
<1>3. (t \in Holding' <=> t \in Holding) => Holding' = Holding
  BY <1>0, <1>1
<1>4. ASSUME t \notin Holding, t \in Holding' PROVE Cardinality(Holding') = Cardinality(Holding) + 1
  <2>1. Holding' = Holding \cup {t}
    BY <1>0, <1>1, <1>4
  <2> QED BY <1>2, <1>4, <2>1, CardAdd
<1>5. ASSUME t \in Holding, t \notin Holding' PROVE Cardinality(Holding') = Cardinality(Holding) - 1
  <2>1. Holding' = Holding \ {t}
    BY <1>0, <1>1, <1>5
  <2> QED BY <1>2, <1>5, <2>1, CardRemove
<1>6. t \in Holding => Cardinality(Holding) > 0
  BY <1>2, CardRemove
<1> QED BY <1>3, <1>4, <1>5, <1>6
(* What a step does to the inode, and to the number of references *)
SameInode == inode' = inode /\ References' = References
AnotherInode ==
  /\ inode' = [inode EXCEPT !.crefs = @ + 1] /\ References' = References + 1
  /\ inode.linked \/ References > 0
OneLessInode == inode' = Released(inode) /\ References' = References - 1 /\ References > 0
UnlinkedInode ==
  inode' = [inode EXCEPT !.linked = FALSE] /\ References' = References /\ References > 0

LEMMA InodeStep ==
  ASSUME Inv, \/ misused'
              \/ /\ misused' = misused
                 /\ SameInode \/ AnotherInode \/ OneLessInode \/ UnlinkedInode
  PROVE  InodeInv'
<1>0. References \in Nat
  BY Finite DEF References
<1>1. InodeInv /\ inode \in InodeType
  BY DEF Inv, TypeOK, InodeType
<1> SUFFICES ASSUME ~misused', ~misused
             PROVE  /\ inode'.crefs = References'
                    /\ inode'.freed <=> ~inode'.linked /\ References' = 0
  BY DEF InodeInv
<1>2. CASE SameInode
  BY <1>1, <1>2 DEF SameInode, InodeInv
<1>3. CASE AnotherInode
  BY <1>0, <1>1, <1>3, AddrefEffect DEF AnotherInode, InodeInv
<1>4. CASE OneLessInode
  BY <1>0, <1>1, <1>4, ReleaseEffect DEF OneLessInode, InodeInv
<1>5. CASE UnlinkedInode
  BY <1>0, <1>1, <1>5, RemoveEffect DEF UnlinkedInode, InodeInv
<1> QED BY <1>2, <1>3, <1>4, <1>5

(* The three ways in which the number of references changes: a call begins *)
(* or stops to hold one, and a descriptor comes or goes                    *)
LEMMA RefStep ==
  ASSUME Inv, NEW t \in Threads, Others(t)
  PROVE  /\ files' = files =>
              /\ (t \in Holding' <=> t \in Holding) => References' = References
              /\ t \notin Holding /\ t \in Holding' => References' = References + 1
              /\ t \in Holding /\ t \notin Holding' => References' = References - 1
         /\ \A x : files' = files \cup {x} /\ x \notin files =>
              /\ (t \in Holding' <=> t \in Holding) => References' = References + 1
              /\ t \in Holding /\ t \notin Holding' => References' = References
         /\ \A x \in files : files' = files \ {x} =>
              /\ (t \in Holding' <=> t \in Holding) => References' = References - 1
              /\ t \notin Holding /\ t \in Holding' => References' = References
         /\ t \in Holding \/ files # {} => References > 0
<1> DEFINE f == Cardinality(files) h == Cardinality(Holding)
           g == Cardinality(files') k == Cardinality(Holding')
<1>1. f \in Nat /\ h \in Nat /\ IsFiniteSet(files)
  BY Finite
<1>2. /\ (t \in Holding' <=> t \in Holding) => k = h
      /\ t \notin Holding /\ t \in Holding' => k = h + 1
      /\ t \in Holding /\ t \notin Holding' => k = h - 1
      /\ t \in Holding => h > 0
  BY HoldStep
<1>3. ASSUME NEW x, files' = files \cup {x}, x \notin files PROVE g = f + 1
  BY <1>1, <1>3, CardAdd
<1>4. ASSUME NEW x \in files, files' = files \ {x} PROVE g = f - 1
  BY <1>1, <1>4, CardRemove
<1>5. files # {} => f > 0
  BY <1>1, CardRemove
<1>6. files' = files => g = f
  OBVIOUS
<1>7. References = f + h /\ References' = g + k
  BY DEF References
<1> HIDE DEF f, g, h, k
<1> QED BY <1>1, <1>2, <1>3, <1>4, <1>5, <1>6, <1>7

LEMMA InodeNext ==
  ASSUME Inv, Next
  PROVE  InodeInv'
<1>1. PICK t \in Threads : Call(t) \/ Quiet(t) \/ Busy(t) \/ OpenAllocate(t) \/ DupAllocate(t)
  BY NextIs
<1>2. Known(t)
  BY Knowing
<1>3. Others(t)
  BY <1>1, <1>2, OthersStay
<1>r. References \in Nat
  BY Finite DEF References
<1> USE DEF Known, Goto, kernel, ghosts
<1>4. CASE Call(t)
  <2>1. UNCHANGED <<inode, files, misused>> /\ (t \in Holding' <=> t \in Holding)
    BY <1>2, <1>4 DEF Call, Open, Close, Dup, Dup2, Ioctl, Unlink, Begin, Holding
  <2> QED BY <1>3, <2>1, RefStep, InodeStep DEF SameInode
<1>5. CASE OpenAllocate(t) \/ DupAllocate(t)
  <2>1. /\ UNCHANGED <<inode, misused>> /\ t \in Holding
        /\ \/ files' = files /\ t \in Holding'
           \/ t \notin Holding' /\ \E x : files' = files \cup {x} /\ x \notin files
    BY <1>2, <1>5, FreeFd DEF OpenAllocate, DupAllocate, Allocate, Holding
  <2> QED BY <1>3, <2>1, RefStep, InodeStep DEF SameInode
<1>6. CASE OpenFind(t) \/ UnlinkFind(t)
  <2>1. misused' = misused /\ files' = files /\ t \notin Holding
    BY <1>6 DEF OpenFind, UnlinkFind, Holding
  <2>2. CASE inode.linked
    <3>1. inode' = [inode EXCEPT !.crefs = @ + 1] /\ t \in Holding'
      BY <1>2, <1>6, <2>2 DEF OpenFind, UnlinkFind, inode_addref, Holding
    <3> QED BY <1>3, <2>1, <2>2, <3>1, RefStep, InodeStep DEF AnotherInode
  <2>3. CASE ~inode.linked
    <3>1. inode' = inode /\ t \notin Holding'
      BY <1>2, <1>6, <2>3 DEF OpenFind, UnlinkFind, Holding
    <3> QED BY <1>3, <2>1, <3>1, RefStep, InodeStep DEF SameInode
  <2> QED BY <2>2, <2>3
<1>7. CASE DupRef(t)
  <2>1. /\ misused' = misused /\ files' = files /\ t \notin Holding /\ t \in Holding'
        /\ inode' = [inode EXCEPT !.crefs = @ + 1]
    BY <1>2, <1>7 DEF DupRef, inode_addref, Holding
  <2>2. files # {}
    BY <1>2, <1>7 DEF DupRef, FdInvOf, Source
  <2> QED BY <1>3, <2>1, <2>2, RefStep, InodeStep DEF AnotherInode
<1>8. CASE Dup2Ref(t)
  <2>1. /\ misused' = misused /\ files' = files \cup {arg2[t]} /\ (t \in Holding' <=> t \in Holding)
        /\ inode' = [inode EXCEPT !.crefs = @ + 1]
    BY <1>2, <1>8 DEF Dup2Ref, inode_addref, Holding
  <2>2. files # {} /\ arg2[t] \notin files
    BY <1>2, <1>8 DEF Dup2Ref, FdInvOf, Source, Replacing
  <2> QED BY <1>3, <2>1, <2>2, RefStep, InodeStep DEF AnotherInode
<1>9. CASE Release(t)
  <2>1. /\ misused' = misused /\ files' = files /\ t \in Holding /\ t \notin Holding'
        /\ inode' = Released(inode)
    BY <1>2, <1>9 DEF Release, inode_release, Holding
  <2> QED BY <1>3, <2>1, RefStep, InodeStep DEF OneLessInode
<1>10. CASE CloseRelease(t)
  <2>1. /\ misused' = misused /\ files' = files \ {arg[t]} /\ (t \in Holding' <=> t \in Holding)
        /\ inode' = Released(inode) /\ arg[t] \in files
    BY <1>2, <1>10 DEF CloseRelease, inode_release, Holding, FdInvOf, ClosingAt
  <2> QED BY <1>3, <2>1, RefStep, InodeStep DEF OneLessInode
<1>11. CASE Dup2Release(t) \/ Dup2Undo(t)
  <2>1. /\ misused' = misused /\ files' = files \ {arg2[t]} /\ (t \in Holding' <=> t \in Holding)
        /\ inode' = Released(inode) /\ arg2[t] \in files
    BY <1>2, <1>11 DEF Dup2Release, Dup2Undo, inode_release, Holding, FdInvOf
  <2> QED BY <1>3, <2>1, RefStep, InodeStep DEF OneLessInode
<1>12. CASE OpenUndo(t)
  <2>1. /\ misused' = misused /\ files' = files \ {arg[t]} /\ t \notin Holding /\ t \in Holding'
        /\ inode' = inode /\ arg[t] \in files
    BY <1>2, <1>12 DEF OpenUndo, Holding, FdInvOf, Filling
  <2> QED BY <1>3, <2>1, RefStep, InodeStep DEF SameInode
<1>13. CASE UnlinkRemove(t)
  <2>1. /\ misused' = misused /\ files' = files /\ t \in Holding /\ t \in Holding'
        /\ inode' = [inode EXCEPT !.linked = FALSE]
    BY <1>2, <1>13 DEF UnlinkRemove, Holding
  <2> QED BY <1>3, <2>1, RefStep, InodeStep DEF UnlinkedInode
<1>14. CASE Misuse(t)
  BY <1>14, InodeStep DEF Misuse
<1>15. CASE OpenInterrupted(t) \/ CloseLock(t) \/ Dup2Lock(t) \/ Dup2OpenInterrupted(t)
            \/ IoctlTake(t) \/ IoctlInterrupted(t) \/ IoctlDone(t) \/ UnlinkLock(t)
            \/ UnlinkDriver(t) \/ UnlinkInterrupted(t) \/ OpenDriver(t) \/ CloseDriver(t)
            \/ CloseInterrupted(t) \/ Dup2Close(t) \/ Dup2CloseInterrupted(t) \/ Dup2Open(t)
  <2>1. UNCHANGED <<inode, files, misused>> /\ (t \in Holding' <=> t \in Holding)
    BY <1>2, <1>15
       DEF OpenInterrupted, CloseLock, Dup2Lock, Dup2OpenInterrupted, IoctlTake, Holding,
           IoctlInterrupted, IoctlDone, UnlinkLock, UnlinkDriver, UnlinkInterrupted,
           OpenDriver, CloseDriver, CloseInterrupted, Dup2Close, Dup2CloseInterrupted, Dup2Open
  <2> QED BY <1>3, <2>1, RefStep, InodeStep DEF SameInode
<1> QED BY <1>1, <1>4, <1>5, <1>6, <1>7, <1>8, <1>9, <1>10, <1>11, <1>12, <1>13, <1>14, <1>15
        DEF Quiet, Busy

-----------------------------------------------------------------------------
(* The driver's count *)
LEMMA DriverCountStep ==
  ASSUME Inv, NEW x,
         dups' = 0 =>
           /\ dups = 0
           /\ \/ UNCHANGED <<priv, opened, lost>>
              \/ /\ ~priv.freed /\ x \notin opened /\ opened' = opened \cup {x} /\ lost' = lost
                 /\ priv' = [priv EXCEPT !.crefs = @ + 1]
              \/ /\ ~priv.freed /\ x \in opened /\ opened' = opened \ {x} /\ lost' = lost
                 /\ priv' = [priv EXCEPT !.crefs = @ - 1,
                                         !.freed = priv.crefs <= 1 /\ priv.unlinked]
              \/ /\ ~priv.freed /\ x \in opened /\ opened' = opened \ {x} /\ lost' = lost + 1
                 /\ priv' = priv
              \/ ~priv.freed /\ i2cdrvr_unlink /\ UNCHANGED <<opened, lost>>
  PROVE  DriverCounted'
<1> SUFFICES ASSUME dups' = 0
             PROVE  IF priv'.freed THEN opened' = {} ELSE priv'.crefs = Cardinality(opened') + lost'
  BY DEF DriverCounted
<1>1. /\ priv \in PrivType /\ lost \in Nat /\ IsFiniteSet(opened) /\ Cardinality(opened) \in Nat
      /\ IF priv.freed THEN opened = {} ELSE priv.crefs = Cardinality(opened) + lost
  BY Finite, BoundsAssumption DEF Inv, TypeOK, PrivType, DriverInv, DriverCounted
<1>2. CASE UNCHANGED <<priv, opened, lost>>
  BY <1>1, <1>2
<1>3. CASE /\ ~priv.freed /\ x \notin opened /\ opened' = opened \cup {x} /\ lost' = lost
           /\ priv' = [priv EXCEPT !.crefs = @ + 1]
  <2>1. Cardinality(opened') = Cardinality(opened) + 1
    BY <1>1, <1>3, CardAdd
  <2> QED BY <1>1, <1>3, <2>1, PrivEffect
<1>4. ASSUME x \in opened, opened' = opened \ {x}
      PROVE  /\ Cardinality(opened') = Cardinality(opened) - 1 /\ Cardinality(opened) > 0
             /\ Cardinality(opened') = 0 => opened' = {}
  <2>1. Cardinality(opened') = Cardinality(opened) - 1 /\ Cardinality(opened) > 0
    BY <1>1, <1>4, CardRemove
  <2>2. IsFiniteSet(opened')
    BY <1>1, <1>4, FS_RemoveElement
  <2> QED BY <2>1, <2>2, FS_EmptySet
<1>5. CASE /\ ~priv.freed /\ x \in opened /\ opened' = opened \ {x} /\ lost' = lost
           /\ priv' = [priv EXCEPT !.crefs = @ - 1,
                                   !.freed = priv.crefs <= 1 /\ priv.unlinked]
  BY <1>1, <1>4, <1>5, PrivEffect DEF PrivType
<1>6. CASE /\ ~priv.freed /\ x \in opened /\ opened' = opened \ {x} /\ lost' = lost + 1
           /\ priv' = priv
  BY <1>1, <1>4, <1>6 DEF PrivType
<1>7. CASE ~priv.freed /\ i2cdrvr_unlink /\ UNCHANGED <<opened, lost>>
  <2>1. priv'.crefs = priv.crefs /\ (priv'.freed <=> priv.freed \/ priv.crefs <= 0)
    BY <1>1, <1>7, PrivEffect
  <2>2. CASE priv.crefs <= 0
    <3>1. Cardinality(opened) = 0
      BY <1>1, <1>7, <2>2 DEF PrivType
    <3> QED BY <1>1, <1>7, <2>1, <2>2, <3>1, FS_EmptySet
  <2>3. CASE ~(priv.crefs <= 0)
    BY <1>1, <1>7, <2>1, <2>3
  <2> QED BY <2>2, <2>3
<1> QED BY <1>2, <1>3, <1>5, <1>6, <1>7
(* A descriptor that another call is closing is still being closed, one    *)
(* that t closes is not live any more when t has gone on                   *)
LEMMA ClosedStays ==
  ASSUME NEW t \in Threads, Others(t), NEW fd, Closed(fd),
         pc[t] \notin {"c_rel", "d_rel", "d_undo"} \/ fd \notin Owned(t)
  PROVE  Closed(fd)'
<1>1. PICK u \in Threads : fd \in Owned(u) /\ pc[u] \in {"c_rel", "d_rel", "d_undo"}
  BY DEF Closed
<1>2. u # t
  BY <1>1
<1>3. Owned(u)' = Owned(u) /\ pc'[u] = pc[u]
  BY <1>2 DEF Others, Owned
<1> QED BY <1>1, <1>3 DEF Closed

(* Without dup(), the descriptor that a call closes has been opened *)
LEMMA ClosesOpened ==
  ASSUME Inv, NEW t \in Threads, dups = 0, NEW fd \in Owned(t) \cap live,
         pc[t] \in {"c_lock", "c_drv", "d_lock", "d_close"}
  PROVE  fd \in opened
<1> SUFFICES ASSUME fd \notin opened PROVE FALSE
  OBVIOUS
<1>1. PICK u \in Threads : fd \in Owned(u) /\ pc[u] \in {"c_rel", "d_rel", "d_undo"}
  BY DEF Inv, DriverInv, Closed
<1> QED BY <1>1 DEF Inv, Apart, ApartFrom

LEMMA DriverNext ==
  ASSUME Inv, Next
  PROVE  DriverInv'
<1>1. PICK t \in Threads : Call(t) \/ Quiet(t) \/ Busy(t) \/ OpenAllocate(t) \/ DupAllocate(t)
  BY NextIs
<1>2. Known(t)
  BY Knowing
<1>3. Others(t)
  BY <1>1, <1>2, OthersStay
<1>4. dups = 0 => \A fd \in live \ opened : Closed(fd)
  BY DEF Inv, DriverInv
<1> USE DEF Known, Goto, kernel, ghosts
<1>5. CASE Call(t)
  <2>1. UNCHANGED <<priv, opened, lost, live, dups>> /\ pc[t] = "idle"
    BY <1>5 DEF Call, Open, Close, Dup, Dup2, Ioctl, Unlink, Begin
  <2>2. DriverCounted'
    BY <2>1, DriverCountStep
  <2> QED BY <1>3, <1>4, <2>1, <2>2, ClosedStays DEF DriverInv
<1>6. CASE OpenAllocate(t)
  <2>1. UNCHANGED <<priv, opened, lost, live, dups>> /\ pc[t] = "o_alloc"
    BY <1>6 DEF OpenAllocate
  <2>2. DriverCounted'
    BY <2>1, DriverCountStep
  <2> QED BY <1>3, <1>4, <2>1, <2>2, ClosedStays DEF DriverInv
<1>7. CASE DupAllocate(t) \/ DupRef(t)
  <2>1. dups' # 0
    BY <1>2, <1>7 DEF DupAllocate, DupRef, FdInvOf
  <2> QED BY <2>1, DriverCountStep DEF DriverInv
<1>8. CASE UnlinkDriver(t)
  <2>1. UNCHANGED <<opened, lost, live, dups>> /\ ~priv.freed /\ i2cdrvr_unlink /\ pc[t] = "u_drv"
    BY <1>8 DEF UnlinkDriver, i2cdrvr_unlink, DriverReady
  <2>2. DriverCounted'
    BY <2>1, DriverCountStep
  <2> QED BY <1>3, <1>4, <2>1, <2>2, ClosedStays DEF DriverInv
<1>9. CASE Quiet(t) /\ ~DupRef(t) /\ ~UnlinkDriver(t)
  <2>1. /\ UNCHANGED <<priv, opened, lost, live, dups>>
        /\ pc[t] \notin {"c_rel", "d_rel", "d_undo"}
    BY <1>9 DEF Quiet, OpenFind, OpenInterrupted, Release, CloseLock, Dup2Lock,
                Dup2OpenInterrupted, IoctlTake, IoctlInterrupted, IoctlDone, UnlinkFind,
                UnlinkLock, UnlinkInterrupted, UnlinkRemove, Misuse
  <2>2. DriverCounted'
    BY <2>1, DriverCountStep
  <2> QED BY <1>3, <1>4, <2>1, <2>2, ClosedStays DEF DriverInv
<1>10. CASE OpenUndo(t) \/ Dup2Ref(t)
  <2>1. /\ UNCHANGED <<priv, opened, lost, live, dups>>
        /\ pc[t] \notin {"c_rel", "d_rel", "d_undo"}
    BY <1>10 DEF OpenUndo, Dup2Ref
  <2>2. DriverCounted'
    BY <2>1, DriverCountStep
  <2> QED BY <1>3, <1>4, <2>1, <2>2, ClosedStays DEF DriverInv
<1>11. CASE OpenDriver(t) \/ Dup2Open(t)
  <2>1. PICK x : /\ ~priv.freed /\ x \notin opened /\ opened' = opened \cup {x} /\ lost' = lost
                 /\ live' = live \cup {x} /\ priv' = [priv EXCEPT !.crefs = @ + 1]
                 /\ dups' = dups /\ pc[t] \notin {"c_rel", "d_rel", "d_undo"}
    BY <1>2, <1>11 DEF OpenDriver, Dup2Open, i2cdrvr_open, DriverReady, FdInvOf, Filling
  <2>2. DriverCounted'
    BY <2>1, DriverCountStep
  <2> QED BY <1>3, <1>4, <2>1, <2>2, ClosedStays DEF DriverInv
<1>12. CASE CloseDriver(t) \/ Dup2Close(t) \/ CloseInterrupted(t) \/ Dup2CloseInterrupted(t)
  <2>1. PICK x \in Owned(t) :
          /\ x \in live /\ x \in Owned(t)' /\ opened' = opened \ {x} /\ live' = live
          /\ ~priv.freed /\ dups' = dups /\ pc'[t] \in {"c_rel", "d_rel", "d_undo"}
          /\ pc[t] \in {"c_drv", "d_close"}
          /\ \/ /\ lost' = lost
                /\ priv' = [priv EXCEPT !.crefs = @ - 1,
                                        !.freed = priv.crefs <= 1 /\ priv.unlinked]
             \/ lost' = lost + 1 /\ priv' = priv
    <3>1. CASE CloseDriver(t) \/ CloseInterrupted(t)
      <4>1. arg[t] \in Owned(t) /\ arg[t] \in Owned(t)' /\ arg[t] \in live
        BY <1>2, <3>1
           DEF CloseDriver, CloseInterrupted, Owned, FdInvOf, ClosingAt, Filling
      <4> QED BY <1>2, <3>1, <4>1
            DEF CloseDriver, CloseInterrupted, i2cdrvr_close, DriverReady, Interrupted
    <3>2. CASE Dup2Close(t) \/ Dup2CloseInterrupted(t)
      <4>1. arg2[t] \in Owned(t) /\ arg2[t] \in Owned(t)' /\ arg2[t] \in live
        BY <1>2, <3>2
           DEF Dup2Close, Dup2CloseInterrupted, Owned, FdInvOf, ClosingAt, Filling, Replacing
      <4> QED BY <1>2, <3>2, <4>1
            DEF Dup2Close, Dup2CloseInterrupted, i2cdrvr_close, DriverReady, Interrupted
    <3> QED BY <1>12, <3>1, <3>2
  <2>2. dups = 0 => x \in opened
    BY <2>1, ClosesOpened
  <2>3. DriverCounted'
    BY <2>1, <2>2, DriverCountStep
  <2>4. Closed(x)'
    BY <2>1 DEF Closed
  <2> QED BY <1>3, <1>4, <2>1, <2>3, <2>4, ClosedStays DEF DriverInv
<1>13. CASE CloseRelease(t) \/ Dup2Release(t) \/ Dup2Undo(t)
  <2>1. UNCHANGED <<priv, opened, lost, dups>> /\ live' = live \ Owned(t)
    BY <1>13 DEF CloseRelease, Dup2Release, Dup2Undo, Owned, ClosingAt, Filling, Replacing
  <2>2. DriverCounted'
    BY <2>1, DriverCountStep
  <2> QED BY <1>3, <1>4, <2>1, <2>2, ClosedStays DEF DriverInv
<1> QED BY <1>1, <1>5, <1>6, <1>7, <1>8, <1>9, <1>10, <1>11, <1>12, <1>13 DEF Quiet, Busy

-----------------------------------------------------------------------------
LEMMA InvInit == Init => Inv
<1> SUFFICES ASSUME Init PROVE Inv
  OBVIOUS
<1> USE ThreadsAssumption, BoundsAssumption DEF Init
<1>1. TypeOK
  <2>1. /\ inode \in [crefs : Nat, linked : BOOLEAN, freed : BOOLEAN]
        /\ priv \in [crefs : Int, unlinked : BOOLEAN, freed : BOOLEAN]
    OBVIOUS
  <2>2. /\ tree \in [holder : Threads \union {NoThread}, count : 0 .. 2]
        /\ tree.count = 0 <=> tree.holder = NoThread
    OBVIOUS
  <2>3. /\ files \subseteq Fds /\ opened \subseteq files /\ live \subseteq files
        /\ {fl_sem, exclsem} \subseteq Threads \union {NoThread}
        /\ pc \in [Threads -> Points]
        /\ {arg, arg2} \subseteq [Threads -> Fds \union {NoFd}]
    BY DEF Points
  <2>4. lost = 0 /\ dups = 0 /\ MaxLost \in Nat
    OBVIOUS
  <2>5. misused \in BOOLEAN
    OBVIOUS
  <2>6. lost \in 0 .. MaxLost /\ dups \in Nat
    BY <2>4
  <2> QED BY <2>1, <2>2, <2>3, <2>5, <2>6 DEF TypeOK
<1>2. \A t \in Threads : pc[t] = "idle" /\ Owned(t) = {} /\ Source(t) = {}
  BY DEF Owned, Source, Filling, ClosingAt, Replacing
<1>3. FdInv /\ Apart
  BY <1>2 DEF FdInv, FdInvOf, Apart, ApartFrom, Listed, Filling, ClosingAt
<1>4. TreeInv
  BY <1>2 DEF TreeInv
<1>5. Holding = {} /\ files = {} /\ opened = {}
  BY DEF Holding
<1>6. References = 0 /\ Cardinality(opened) = 0
  BY <1>5, FS_EmptySet DEF References
<1>7. InodeInv
  BY <1>6 DEF InodeInv
<1>8. DriverInv
  BY <1>6 DEF DriverInv, DriverCounted
<1> QED BY <1>1, <1>3, <1>4, <1>7, <1>8 DEF Inv

LEMMA InvNext == Inv /\ [Next]_vars => Inv'
<1> SUFFICES ASSUME Inv, [Next]_vars PROVE Inv'
  OBVIOUS
<1>1. CASE Next
  BY <1>1, TypeNext, FdNext, TreeNext, InodeNext, DriverNext DEF Inv
<1>2. CASE UNCHANGED vars
  BY <1>2 DEF vars, Inv, TypeOK, FdInv, FdInvOf, Apart, ApartFrom, Owned, Source, TreeInv,
              InodeInv, References, Holding, DriverInv, DriverCounted, Closed
<1> QED BY <1>1, <1>2

LEMMA InvAlways == Spec => []Inv
BY InvInit, InvNext, PTL DEF Spec

(* Whatever calls fail, are interrupted or overlap, i_crefs is the number  *)
(* of the descriptors and the calls that refer to the inode: no reference  *)
(* leaks and none is given back twice, as long as no freed driver instance *)
(* has been used                                                           *)
THEOREM InodeReferences == Spec => []InodeCounted
<1>1. Inv => InodeCounted
  BY DEF Inv, InodeInv, InodeCounted
<1> QED BY <1>1, InvAlways, PTL

(* An unlinked inode is freed with its last reference, not before and not  *)
(* later                                                                   *)
THEOREM InodeFreed == Spec => []InodeLifetime
<1>1. Inv => InodeLifetime
  BY DEF Inv, InodeInv, InodeLifetime
<1> QED BY <1>1, InvAlways, PTL

(* Without dup() the driver counts the descriptors it has opened and the   *)
(* closes that signals took from it, and its instance is not freed under   *)
(* an open descriptor                                                      *)
THEOREM DriverReferences == Spec => []DriverCounted
<1>1. Inv => DriverCounted
  BY DEF Inv, DriverInv
<1> QED BY <1>1, InvAlways, PTL
=============================================================================

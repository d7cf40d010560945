------------------------------- MODULE I2cDev -------------------------------
(***************************************************************************)
(* The I2C character device seen from the file system: the descriptors of  *)
(* one task, the inode of /dev/i2cN with its reference count, and the      *)
(* driver instance with its own, kept by open(), close(), dup(), dup2(),   *)
(* ioctl() and unlink() of several threads.                                *)
(*                                                                         *)
(* Three semaphores guard this state: fl_sem of the descriptor list, the   *)
(* re-entrant g_inode_sem of the inode tree, and exclsem of the driver.    *)
(* The first two are waited for until they are had; a signal ends the wait *)
(* for the third with -EINTR.  A critical section in which nothing waits   *)
(* is one step, guarded by its semaphore being free.                       *)
(***************************************************************************)
EXTENDS Integers, FiniteSets, FiniteSetsExt

CONSTANTS
  Threads,      \* threads of the task
  NFiles,       \* CONFIG_NFILE_DESCRIPTORS
  MaxLost,      \* bound: closes that a signal ends
  MaxDups       \* bound: calls of dup()

NoThread == "none"
NoFd == -1

ASSUME ThreadsAssumption == IsFiniteSet(Threads) /\ NoThread \notin Threads
ASSUME BoundsAssumption == NFiles \in Nat \ {0} /\ MaxLost \in Nat /\ MaxDups \in Nat

Fds == 0 .. NFiles - 1

VARIABLES
  inode,     \* struct inode: i_crefs, in the tree or deleted, freed
  tree,      \* g_inode_sem: holder and count
  files,     \* fl_files: the descriptors that refer to the inode
  fl_sem,    \* the holder of the list's semaphore
  priv,      \* struct i2c_driver_s: crefs, unlinked, freed
  exclsem,   \* the holder of the driver's semaphore
  pc, arg,   \* the point each call has reached, and its descriptor
  arg2,      \* the second descriptor of dup2()
  opened,    \* descriptors for which the driver's open() has been called
  live,      \* descriptors the application has been given
  lost,      \* closes the driver did not count
  dups,      \* calls of dup()
  misused    \* a call has used the driver instance after it was freed

vars == <<inode, tree, files, fl_sem, priv, exclsem, pc, arg, arg2, opened,
          live, lost, dups, misused>>

kernel == <<inode, tree, files, fl_sem, priv, exclsem>>
ghosts == <<opened, live, lost, dups, misused>>

Goto(t, l) == pc' = [pc EXCEPT ![t] = l]

(* The application closes no descriptor that one of its calls uses, and    *)
(* uses none that is being closed.                                         *)
InUse(fd) == \E u \in Threads : pc[u] # "idle" /\ fd \in {arg[u], arg2[u]}

Closing(fd) ==
  \E u \in Threads :
    \/ arg[u] = fd /\ pc[u] \in {"c_lock", "c_drv", "c_rel"}
    \/ arg2[u] = fd /\ pc[u] \in {"d_lock", "d_close", "d_rel", "d_ref",
                                  "d_open", "d_undo"}

(***************************************************************************)
(* The inode tree.                                                         *)
(***************************************************************************)
CanTake(t) == tree.holder \in {NoThread, t}

inode_semtake(t) ==
  /\ CanTake(t)
  /\ tree' = [holder |-> t, count |-> tree.count + 1]

inode_semgive(t) ==
  tree' = IF tree.count > 1 THEN [tree EXCEPT !.count = @ - 1]
          ELSE [holder |-> NoThread, count |-> 0]

(* Mutant: the inode is freed with its last reference, in the tree or not *)
ReleasedAlways(i) ==
  [i EXCEPT !.crefs = IF @ > 0 THEN @ - 1 ELSE @, !.freed = i.crefs <= 1]

(* The inode after inode_release(): a deleted inode goes with its last     *)
(* reference.                                                              *)
Released(i) ==
  [i EXCEPT !.crefs = IF @ > 0 THEN @ - 1 ELSE @,
            !.freed = i.crefs <= 1 /\ ~i.linked]

inode_release(t) == CanTake(t) /\ inode' = Released(inode)

inode_addref(t) == CanTake(t) /\ inode' = [inode EXCEPT !.crefs = @ + 1]

(***************************************************************************)
(* The driver.  DriverReady is the end of nxsem_wait() on exclsem,         *)
(* Interrupted its failure.                                                *)
(***************************************************************************)
DriverReady == ~priv.freed /\ exclsem = NoThread

Interrupted == ~priv.freed /\ exclsem # NoThread

i2cdrvr_open(fd) ==
  /\ DriverReady
  /\ priv' = [priv EXCEPT !.crefs = @ + 1]
  /\ opened' = opened \union {fd}

(* Mutant: the instance of an unlinked device is freed by any close *)
CloseFreesEarly(fd) ==
  /\ DriverReady
  /\ priv' = [priv EXCEPT !.crefs = @ - 1, !.freed = priv.unlinked]
  /\ opened' = opened \ {fd}

(* The last close of an unlinked device frees the instance. *)
i2cdrvr_close(fd) ==
  /\ DriverReady
  /\ priv' = [priv EXCEPT !.crefs = @ - 1,
                          !.freed = priv.crefs <= 1 /\ priv.unlinked]
  /\ opened' = opened \ {fd}

i2cdrvr_unlink ==
  /\ DriverReady
  /\ priv' = IF priv.crefs <= 0 THEN [priv EXCEPT !.freed = TRUE]
             ELSE [priv EXCEPT !.unlinked = TRUE]

(***************************************************************************)
(* open()                                                                  *)
(***************************************************************************)
Begin(t, l, fd, fd2) ==
  /\ pc[t] = "idle"
  /\ Goto(t, l)
  /\ arg' = [arg EXCEPT ![t] = fd]
  /\ arg2' = [arg2 EXCEPT ![t] = fd2]
  /\ UNCHANGED <<kernel, ghosts>>

Open(t) == Begin(t, "o_find", NoFd, NoFd)

(* inode_find() *)
OpenFind(t) ==
  /\ pc[t] = "o_find"
  /\ IF inode.linked
       THEN inode_addref(t) /\ Goto(t, "o_alloc")
       ELSE CanTake(t) /\ inode' = inode /\ Goto(t, "idle")
  /\ UNCHANGED <<tree, files, fl_sem, priv, exclsem, arg, arg2, ghosts>>

(* files_allocate(): the lowest free descriptor. *)
Allocate(t, found, full) ==
  /\ fl_sem = NoThread
  /\ IF Fds \ files # {}
       THEN LET fd == Min(Fds \ files)
            IN /\ files' = files \union {fd}
               /\ arg' = [arg EXCEPT ![t] = fd]
               /\ Goto(t, found)
       ELSE files' = files /\ arg' = arg /\ Goto(t, full)

(* Mutant: the reference to the inode is kept when no descriptor is free *)
AllocateLeaks(t) ==
  /\ pc[t] = "o_alloc"
  /\ Allocate(t, "o_drv", "idle")
  /\ UNCHANGED <<inode, tree, fl_sem, priv, exclsem, arg2, ghosts>>

OpenAllocate(t) ==
  /\ pc[t] = "o_alloc"
  /\ Allocate(t, "o_drv", "release")
  /\ UNCHANGED <<inode, tree, fl_sem, priv, exclsem, arg2, ghosts>>

OpenDriver(t) ==
  /\ pc[t] = "o_drv"
  /\ i2cdrvr_open(arg[t])
  /\ live' = live \union {arg[t]}
  /\ Goto(t, "idle")
  /\ UNCHANGED <<inode, tree, files, fl_sem, exclsem, arg, arg2, lost, dups, misused>>

OpenInterrupted(t) ==
  /\ pc[t] = "o_drv" /\ Interrupted
  /\ Goto(t, "o_undo")
  /\ UNCHANGED <<kernel, arg, arg2, ghosts>>

(* files_release() *)
OpenUndo(t) ==
  /\ pc[t] = "o_undo" /\ fl_sem = NoThread
  /\ files' = files \ {arg[t]}
  /\ Goto(t, "release")
  /\ UNCHANGED <<inode, tree, fl_sem, priv, exclsem, arg, arg2, ghosts>>

(* The reference of the call itself is given back. *)
Release(t) ==
  /\ pc[t] = "release"
  /\ inode_release(t)
  /\ Goto(t, "idle")
  /\ UNCHANGED <<tree, files, fl_sem, priv, exclsem, arg, arg2, ghosts>>

(***************************************************************************)
(* close()                                                                 *)
(***************************************************************************)
Close(t) ==
  \E fd \in live :
    /\ ~InUse(fd)
    /\ Begin(t, "c_lock", fd, NoFd)

CloseLock(t) ==
  /\ pc[t] = "c_lock" /\ fl_sem = NoThread
  /\ fl_sem' = t
  /\ Goto(t, "c_drv")
  /\ UNCHANGED <<inode, tree, files, priv, exclsem, arg, arg2, ghosts>>

CloseDriver(t) ==
  /\ pc[t] = "c_drv"
  /\ i2cdrvr_close(arg[t])
  /\ Goto(t, "c_rel")
  /\ UNCHANGED <<inode, tree, files, fl_sem, exclsem, arg, arg2, live, lost,
                 dups, misused>>

(* A signal ends the driver's close(): the descriptor goes all the same. *)
CloseInterrupted(t) ==
  /\ pc[t] = "c_drv" /\ Interrupted /\ lost < MaxLost
  /\ lost' = lost + 1
  /\ opened' = opened \ {arg[t]}
  /\ Goto(t, "c_rel")
  /\ UNCHANGED <<kernel, arg, arg2, live, dups, misused>>

CloseRelease(t) ==
  /\ pc[t] = "c_rel"
  /\ inode_release(t)
  /\ files' = files \ {arg[t]}
  /\ live' = live \ {arg[t]}
  /\ fl_sem' = NoThread
  /\ Goto(t, "idle")
  /\ UNCHANGED <<tree, priv, exclsem, arg, arg2, opened, lost, dups, misused>>

(***************************************************************************)
(* dup() and dup2()                                                        *)
(***************************************************************************)
Dup(t) ==
  \E fd \in live :
    /\ ~Closing(fd) /\ dups < MaxDups
    /\ Begin(t, "p_ref", fd, fd)

DupRef(t) ==
  /\ pc[t] = "p_ref"
  /\ inode_addref(t)
  /\ dups' = dups + 1
  /\ Goto(t, "p_alloc")
  /\ UNCHANGED <<tree, files, fl_sem, priv, exclsem, arg, arg2, opened, live,
                 lost, misused>>

(* The driver is not told of the new descriptor. *)
DupAllocate(t) ==
  /\ pc[t] = "p_alloc"
  /\ Allocate(t, "idle", "release")
  /\ live' = live \union (files' \ files)
  /\ UNCHANGED <<inode, tree, fl_sem, priv, exclsem, arg2, opened, lost, dups,
                 misused>>

(* The second descriptor is one of the application's: a free number might  *)
(* be taken by an open() under way.                                        *)
Dup2(t) ==
  \E fd1 \in live : \E fd2 \in live \ {fd1} :
    /\ ~Closing(fd1) /\ ~InUse(fd2)
    /\ Begin(t, "d_lock", fd1, fd2)

Dup2Lock(t) ==
  /\ pc[t] = "d_lock" /\ fl_sem = NoThread
  /\ fl_sem' = t
  /\ Goto(t, IF arg2[t] \in files THEN "d_close" ELSE "d_ref")
  /\ UNCHANGED <<inode, tree, files, priv, exclsem, arg, arg2, ghosts>>

Dup2Close(t) ==
  /\ pc[t] = "d_close"
  /\ i2cdrvr_close(arg2[t])
  /\ Goto(t, "d_rel")
  /\ UNCHANGED <<inode, tree, files, fl_sem, exclsem, arg, arg2, live, lost,
                 dups, misused>>

(* dup2() gives up, but the second descriptor has been closed. *)
Dup2CloseInterrupted(t) ==
  /\ pc[t] = "d_close" /\ Interrupted /\ lost < MaxLost
  /\ lost' = lost + 1
  /\ opened' = opened \ {arg2[t]}
  /\ Goto(t, "d_undo")
  /\ UNCHANGED <<kernel, arg, arg2, live, dups, misused>>

Dup2Release(t) ==
  /\ pc[t] = "d_rel"
  /\ inode_release(t)
  /\ files' = files \ {arg2[t]}
  /\ live' = live \ {arg2[t]}
  /\ Goto(t, "d_ref")
  /\ UNCHANGED <<tree, fl_sem, priv, exclsem, arg, arg2, opened, lost, dups, misused>>

(* inode_addref(), and the file structure is cloned. *)
Dup2Ref(t) ==
  /\ pc[t] = "d_ref"
  /\ inode_addref(t)
  /\ files' = files \union {arg2[t]}
  /\ Goto(t, "d_open")
  /\ UNCHANGED <<tree, fl_sem, priv, exclsem, arg, arg2, ghosts>>

Dup2Open(t) ==
  /\ pc[t] = "d_open"
  /\ i2cdrvr_open(arg2[t])
  /\ live' = live \union {arg2[t]}
  /\ fl_sem' = NoThread
  /\ Goto(t, "idle")
  /\ UNCHANGED <<inode, tree, files, exclsem, arg, arg2, lost, dups, misused>>

Dup2OpenInterrupted(t) ==
  /\ pc[t] = "d_open" /\ Interrupted
  /\ Goto(t, "d_undo")
  /\ UNCHANGED <<kernel, arg, arg2, ghosts>>

(* Mutant: the failed dup2() leaves the list's semaphore taken *)
UndoKeepsLock(t) ==
  /\ pc[t] = "d_undo"
  /\ inode_release(t)
  /\ files' = files \ {arg2[t]}
  /\ live' = live \ {arg2[t]}
  /\ Goto(t, "idle")
  /\ UNCHANGED <<tree, fl_sem, priv, exclsem, arg, arg2, opened, lost, dups, misused>>

Dup2Undo(t) ==
  /\ pc[t] = "d_undo"
  /\ inode_release(t)
  /\ files' = files \ {arg2[t]}
  /\ live' = live \ {arg2[t]}
  /\ fl_sem' = NoThread
  /\ Goto(t, "idle")
  /\ UNCHANGED <<tree, priv, exclsem, arg, arg2, opened, lost, dups, misused>>

(***************************************************************************)
(* ioctl(): the bus transfer is done with exclsem held.                    *)
(***************************************************************************)
Ioctl(t) ==
  \E fd \in live :
    /\ ~Closing(fd)
    /\ Begin(t, "i_drv", fd, NoFd)

IoctlTake(t) ==
  /\ pc[t] = "i_drv" /\ DriverReady
  /\ exclsem' = t
  /\ Goto(t, "i_busy")
  /\ UNCHANGED <<inode, tree, files, fl_sem, priv, arg, arg2, ghosts>>

IoctlInterrupted(t) ==
  /\ pc[t] = "i_drv" /\ Interrupted
  /\ Goto(t, "idle")
  /\ UNCHANGED <<kernel, arg, arg2, ghosts>>

IoctlDone(t) ==
  /\ pc[t] = "i_busy"
  /\ exclsem' = NoThread
  /\ Goto(t, "idle")
  /\ UNCHANGED <<inode, tree, files, fl_sem, priv, arg, arg2, ghosts>>

(***************************************************************************)
(* unlink()                                                                *)
(***************************************************************************)
Unlink(t) == Begin(t, "u_find", NoFd, NoFd)

UnlinkFind(t) ==
  /\ pc[t] = "u_find"
  /\ IF inode.linked
       THEN inode_addref(t) /\ Goto(t, "u_lock")
       ELSE CanTake(t) /\ inode' = inode /\ Goto(t, "idle")
  /\ UNCHANGED <<tree, files, fl_sem, priv, exclsem, arg, arg2, ghosts>>

UnlinkLock(t) ==
  /\ pc[t] = "u_lock"
  /\ inode_semtake(t)
  /\ Goto(t, "u_drv")
  /\ UNCHANGED <<inode, files, fl_sem, priv, exclsem, arg, arg2, ghosts>>

UnlinkDriver(t) ==
  /\ pc[t] = "u_drv"
  /\ i2cdrvr_unlink
  /\ Goto(t, "u_rm")
  /\ UNCHANGED <<inode, tree, files, fl_sem, exclsem, arg, arg2, ghosts>>

(* The driver's failure is returned without inode_semgive().  The bound on *)
(* the count keeps a thread from doing so over and over.                   *)
UnlinkInterrupted(t) ==
  /\ pc[t] = "u_drv" /\ Interrupted /\ tree.count = 1
  /\ Goto(t, "release")
  /\ UNCHANGED <<kernel, arg, arg2, ghosts>>

(* inode_remove(): the inode leaves the tree and is marked deleted; the    *)
(* reference of the call keeps it.                                         *)
UnlinkRemove(t) ==
  /\ pc[t] = "u_rm"
  /\ inode' = [inode EXCEPT !.linked = FALSE]
  /\ inode_semgive(t)
  /\ Goto(t, "release")
  /\ UNCHANGED <<files, fl_sem, priv, exclsem, arg, arg2, ghosts>>

(* A call goes to an instance that has been freed: what happens from here  *)
(* on is undefined, and the model does not go on for this thread.          *)
Misuse(t) ==
  /\ pc[t] \in {"o_drv", "c_drv", "d_close", "d_open", "i_drv", "u_drv"}
  /\ priv.freed
  /\ misused' = TRUE
  /\ Goto(t, "stray")
  /\ UNCHANGED <<kernel, arg, arg2, opened, live, lost, dups>>

(***************************************************************************)
(* i2c_register() has run.                                                 *)
(***************************************************************************)
Init ==
  /\ inode = [crefs |-> 0, linked |-> TRUE, freed |-> FALSE]
  /\ tree = [holder |-> NoThread, count |-> 0]
  /\ files = {}
  /\ fl_sem = NoThread
  /\ priv = [crefs |-> 0, unlinked |-> FALSE, freed |-> FALSE]
  /\ exclsem = NoThread
  /\ pc = [t \in Threads |-> "idle"]
  /\ arg = [t \in Threads |-> NoFd]
  /\ arg2 = [t \in Threads |-> NoFd]
  /\ opened = {}
  /\ live = {}
  /\ lost = 0
  /\ dups = 0
  /\ misused = FALSE

Call(t) == Open(t) \/ Close(t) \/ Dup(t) \/ Dup2(t) \/ Ioctl(t) \/ Unlink(t)

Work(t) ==
  \/ OpenFind(t) \/ OpenAllocate(t) \/ OpenDriver(t) \/ OpenUndo(t) \/ Release(t)
  \/ CloseLock(t) \/ CloseDriver(t) \/ CloseRelease(t)
  \/ DupRef(t) \/ DupAllocate(t)
  \/ Dup2Lock(t) \/ Dup2Close(t) \/ Dup2Release(t) \/ Dup2Ref(t) \/ Dup2Open(t)
  \/ Dup2Undo(t)
  \/ IoctlTake(t) \/ IoctlDone(t)
  \/ UnlinkFind(t) \/ UnlinkLock(t) \/ UnlinkDriver(t) \/ UnlinkRemove(t)

Signal(t) ==
  \/ OpenInterrupted(t) \/ CloseInterrupted(t) \/ Dup2CloseInterrupted(t)
  \/ Dup2OpenInterrupted(t) \/ IoctlInterrupted(t) \/ UnlinkInterrupted(t)

Next == \E t \in Threads : Call(t) \/ Work(t) \/ Signal(t) \/ Misuse(t)

Spec == Init /\ [][Next]_vars

(* Every thread runs again and again, and a semaphore that is posted again *)
(* and again is had in the end: its queue is in the order of priority and  *)
(* arrival (module NxSem).                                                 *)
FairSpec == Spec /\ \A t \in Threads : SF_vars(Work(t) \/ Misuse(t))

(***************************************************************************)
(* What the device and the file system promise.                            *)
(***************************************************************************)
Points ==
  {"idle", "o_find", "o_alloc", "o_drv", "o_undo", "release", "c_lock", "c_drv",
   "c_rel", "p_ref", "p_alloc", "d_lock", "d_close", "d_rel", "d_ref", "d_open",
   "d_undo", "i_drv", "i_busy", "u_find", "u_lock", "u_drv", "u_rm", "stray"}

(* The variables keep their types, the descriptors the application has are *)
(* in the list, and the tree's semaphore is counted for its holder only    *)
(* (fs_inode.c, fs_files.c).                                               *)
TypeOK ==
  /\ inode \in [crefs : Nat, linked : BOOLEAN, freed : BOOLEAN]
  /\ tree \in [holder : Threads \union {NoThread}, count : 0 .. 2]
  /\ tree.count = 0 <=> tree.holder = NoThread
  /\ files \subseteq Fds /\ opened \subseteq files /\ live \subseteq files
  /\ {fl_sem, exclsem} \subseteq Threads \union {NoThread}
  /\ priv \in [crefs : Int, unlinked : BOOLEAN, freed : BOOLEAN]
  /\ pc \in [Threads -> Points]
  /\ {arg, arg2} \subseteq [Threads -> Fds \union {NoFd}]
  /\ lost \in 0 .. MaxLost /\ dups \in Nat
  /\ misused \in BOOLEAN

(* The calls that hold a reference to the inode of their own: found and    *)
(* not yet handed to a descriptor or given back.                           *)
Holding ==
  {t \in Threads : pc[t] \in {"o_alloc", "release", "p_alloc", "u_lock", "u_drv", "u_rm"}}

References == Cardinality(files) + Cardinality(Holding)

(* The state is well-formed, the tree's semaphore has a holder exactly     *)
(* while it is counted, and every reference to the inode is counted and    *)
(* every counted one will be given back: whatever calls fail, are          *)
(* interrupted or overlap, i_crefs is the number of descriptors and of     *)
(* calls under way that hold the inode.                                    *)
InodeCounted == TypeOK /\ (~misused => inode.crefs = References)

(* The inode is freed with its last reference after unlink(), not before   *)
(* and not later.                                                          *)
InodeLifetime ==
  ~misused => (inode.freed <=> ~inode.linked /\ References = 0)

(* While no descriptor comes from dup(), the driver's count is the number  *)
(* of descriptors it has opened and of closes that a signal took from it,  *)
(* and the instance is not freed under an open descriptor.                 *)
DriverCounted ==
  dups = 0 => IF priv.freed THEN opened = {}
              ELSE priv.crefs = Cardinality(opened) + lost

(* No call stays in the file system for ever, although fl_sem is held over *)
(* the waits for the tree and the driver, and the tree's semaphore over    *)
(* the wait for the driver: unless an interrupted unlink() has kept the    *)
(* tree or freed memory has been used.                                     *)
CallReturns ==
  \A t \in Threads :
    pc[t] # "idle" ~>
      \/ pc[t] = "idle" \/ misused
      \/ tree.holder # NoThread /\ pc[tree.holder] \notin {"u_drv", "u_rm"}
=============================================================================

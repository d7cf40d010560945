# Chewie: TLA+ models and proofs

Chewie is a flight controller application (`src/apps/chewie`) on a NuttX
system (`src/nuttx`, `src/apps`) for an STM32F405 board, configured by
`src/nuttx/configs/xingtong-pyboard/nsh/defconfig`: one CPU, no priority
inheritance, no cancellation points, watchdogs and both work queues on, eight
descriptors per task. It drives four motors with PWM pulses and reads an
inertial sensor over I2C.

The models cover the path from the motor driver down to the timer registers,
the path from the IMU driver down to the bytes on the I2C bus, and the kernel
services both depend on: semaphores, watchdog timers, work queues, file
descriptors and the heap. The rest of the repository is generic NuttX that the
flight controller does not call.

## Inventory

| Component | State | Operations | Interacts with |
|---|---|---|---|
| chewie application, `chewie_main.c` | none of its own | `test_motor()`; IMU loop in the other build | motor driver, IMU driver |
| Motor driver, `drivers/motor/drv_motor.c` | requested duties, clamped duties, descriptor numbers | init, ESC calibration, update, deinit | PWM wrapper |
| PWM wrapper, `drivers/pwm_out/drv_pwm_out.c` | none | open, set, start, stop, close | PWM device by descriptor |
| IMU driver, `drivers/imu/JY901B` | last readings, I2C instance | init, update, deinit | I2C library |
| I2C library, `lib/i2c/lib_i2c.c` | one descriptor, in the heap | init, read, deinit | I2C character driver, heap |
| PWM upper half, `drivers/pwm/pwm.c` | `crefs`, `started`, `info`, `exclsem` | open, close, ioctl | timer, semaphores, file system |
| PWM lower half, `stm32_pwm.c` | timer registers, `priv->frequency` | setup, shutdown, start, stop | RCC, pins |
| I2C character driver, `drivers/i2c/i2c_driver.c` | `crefs`, `unlinked`, `exclsem` | open, close, ioctl, unlink | bus driver, file system |
| I2C bus driver, `stm32f40xxx_i2c.c` | messages and pointers in work, `intstate`, `status`, `sem_excl`, `sem_isr` | transfer, reset, interrupt routine | semaphores, watchdog, interrupts |
| File descriptors, `fs/inode`, `fs/vfs` | list of struct file with `fl_sem`, inode tree with its semaphore, inode references | open, close, ioctl, dup, dup2, unlink | drivers |
| Semaphores, `sched/semaphore` | signed counter, list of waiting tasks | wait, trywait, timedwait, tickwait, post, reset | scheduler, watchdogs, signals, task deletion |
| Watchdogs, `sched/wdog` | list of timers by differences, pool | create, start, cancel, delete, tick | semaphores, timer interrupt |
| Work queues, `sched/wqueue` | queue of work, worker threads | queue, cancel, signal, process | signals, clock |
| Heap, `mm/mm_heap` | chunks with sizes and flags, free list | malloc, free, realloc, memalign | all |
| Signals, tasks, scheduler | TCBs and their lists | dispatch, restart, delete, priority | semaphores |
| Board bring-up, `configs/xingtong-pyboard/src` | none | registers the devices | drivers |

What is hard about it:

* Concurrency. Threads of a task share descriptors, and `ioctl()` looks a file
  up without a lock, so a driver call may come while another thread closes the
  file. Interrupt routines and watchdogs run between any two steps that are not
  in a critical section.
* Interrupted waits. Every lock a driver takes is a semaphore wait, and a
  signal ends it with `EINTR`. Some drivers retry, some return.
* Late events. A post, a timeout and a signal may all come before the task they
  wake runs again. Which of them counts is decided by flags that were set
  before the sleep. An I2C interrupt that is served late finds the status bits
  of two events at once.
* Hidden hardware state. Resetting the timer clears configuration that another
  function wrote; a gated peripheral ignores writes; the I2C controller takes
  acknowledge, stop and start requests ahead of the byte they are for.
* Partial failure. The motor driver makes three calls to come up and two to go
  down, and any of them may fail; so do the halves of open, dup2 and unlink.
* Implicit structure. The list of timers holds differences, the heap finds
  neighbours by sizes that were written when they were split off.

What makes the components correct:

* PWM device: the reference count equals the references held; the timer is
  clocked while somebody has it open and off after that; pulses have the
  characteristics last asked for; the operations look atomic; calls return.
* Motor driver: the throttle never leaves its limits; references balance; the
  motors are off when the driver is down; the output is what was asked for.
* I2C bus: one client at a time; the interrupt routine never works on buffers of
  a call that has returned; OK means done; errors are reported; a hung bus does
  not hang the caller. On the wire: one combined transfer per list of messages,
  every byte once, the last byte read not acknowledged, the bus released.
* I2C device: inode and driver count their references exactly; inode and
  instance are freed with the last one; no call hangs on the three semaphores.
* Semaphores: units are neither lost nor handed out twice; the highest priority
  gets the unit; a timed wait ends.
* Timers: each runs in its tick and in no other; a deleted one never runs.
* Work queues: work is queued once, no wake-up is lost, queued work is run.
* Heap: chunks tile the regions, the free list is exact, blocks neither overlap
  nor leak, free neighbours are merged.

## Modules

| Module | Models | Used by |
|---|---|---|
| `Stm32Pwm` | the timer methods as functions on the registers they leave | `PwmOps` |
| `PwmOps` | each PWM device operation as a function on the device state | `PwmDev`, `PwmUpper`, `Motor` |
| `PwmDev` | abstract specification: the operations are atomic | refined by `PwmUpper` |
| `PwmUpper` | `pwm.c` with threads, `exclsem`, shared files and signals | `PwmUpperProofs` |
| `Motor` | `drv_motor.c` over `drv_pwm_out.c` over the atomic device | `MotorProofs` |
| `I2cTransfer` | transfer, reset, the wait and the finish of the interrupt routine | `I2cTransferProofs` |
| `I2cIsr` | the byte machine of the interrupt routine against controller and slave | `I2cTransferProofs` |
| `I2cDev` | the I2C device: descriptors, inode, driver instance, their three semaphores | `I2cDevProofs` |
| `SemAbs` | abstract specification: a counting semaphore with priorities | refined by `NxSem` |
| `NxSem` | `sched/semaphore` with the signed counter and the waiting list | `NxSemProofs` |
| `WdogAbs` | abstract specification: timers with a remaining time each | refined by `Wdog` |
| `Wdog` | `sched/wdog`: the list of differences, the pool, the timer interrupt | `WdogProofs` |
| `WorkQueue` | `sched/wqueue`: queueing, cancelling, signals and worker threads | `WorkQueueProofs` |
| `MmHeap` | `mm/mm_heap`: chunks, free list, allocation, release, resizing, alignment | `Imu`, `MmHeapProofs` |
| `Imu` | IMU driver over I2C library, its instance in the heap | |

`MC...` modules are what TLC runs; constants get their values in the `.cfg`
files. An operator introduced by a comment that begins "Mutant:" is a plausible
mistake in a definition that follows it. No specification uses it: putting it
in the place of that definition makes a property fail, which shows that the
property depends on the code.

### PWM: Stm32Pwm, PwmOps, PwmDev, PwmUpper

A timer is a record: clock gate, PWM mode of the channels, counter enable, the
frequency and duty the registers were programmed with, and the driver's own
copy of the frequency. `TimerStart` skips reprogramming when the frequency is
unchanged, as `pwm_start()` does; `TimerStop` is the RCC reset, which clears
the mode configuration as well; writes to a timer without a clock are lost.
Frequencies and duties stay abstract.

In `PwmUpper` a thread enters the driver (`Enter...`), takes `exclsem` or blocks,
carries its operation out in one or two steps, and leaves with `Unlock`, which
hands the semaphore to a blocked thread if there is one. The two steps of an
operation are the two writes of the source between which the structure is
inconsistent (`tim` and `crefs` in open, `crefs` and `tim` in close, `info` and
`tim` in set, `tim` and `started` in start and stop). Those pairs are what the
lock is for. `Interrupt` is a signal that ends the wait: the call
returns, and the file system frees the descriptor of an open or a close in any
case. `interrupted` is a ghost variable that counts the references lost in this
way. `pwm_read()` and `pwm_write()` change nothing and are left out.

### Motor

One thread runs the driver and makes one call on the device per step, with
the outcomes success, `EINTR` and `EBADF`. Other tasks open, close and control
the same device between any two of these steps. The device operations are
atomic here, which `PwmUpper` justifies. The four channels are treated alike in
every loop of the driver, so one duty stands for them. `foreign`, `sole` and
`dropped` are ghost variables: who last changed the output, whether another
task has controlled it since a fresh init, and whether the last update failed.

### I2cTransfer

`stm32_i2c_sem_waitdone()` runs with interrupts masked except where it sleeps,
so the code between two sleeps is one step (`WaitEnter`, `Resume`). While the
thread sleeps, or is ready and has not run yet, the interrupt routine (`Isr`),
the watchdog (`Timeout`) and a signal (`Signal`) may come in any order. An
interrupt that the controller raised while the thread had them masked is taken
when the mask is lifted (`LateIsr`). The byte-level work of the routine is
abstracted to the number of interrupts that the messages still need; each of
them may move a byte, finish, fail with an error bit or, when `Spurious`, arrive in a
state the routine does not know. `Reset` leaves the controller initialised or,
when a slave does not let go of the bus, off; an interrupt needs a controller
that is on. `outcome` is a ghost variable that records what really happened to
the messages; `broken` is the outcome of an interrupt in an unknown state,
which the routine ends without an error bit.

### I2cIsr

One run of `stm32_i2c_isr_process()` is one step, a function of the status
register and the driver's structure: `Latch` the status, `SwitchMessage` when
a message is due, one branch of the routine (`SendAddress`, `AddressNacked`,
`AddressAckedRead`, `WriteEnd`, `WriteByte`, `ReadByte`, `EmptyCall`,
`UnknownState`), then `CheckErrors` and `Shutdown`. The branches are compiled as the
board's configuration selects them: interrupts, no DMA, no polling. The
controller and the slave are an automaton of their own, marked external: data
and shift register, the bits ADDR, SB, TXE, RXNE, BTF and AF, the requests ACK,
POS, START and STOP, and the clock stretching that holds the bus while the
driver is late. It moves between any two runs of the routine, so every latency of the
interrupt is covered. What was on the bus is kept in `wire`. There is one master
on the board's bus: arbitration loss and bus errors are left out.

### I2cDev

The descriptor list, one inode and one driver instance, used by threads of one
task. `fl_sem` and the re-entrant `g_inode_sem` are waited for until they are had;
a signal ends the wait for `exclsem`, with what each caller makes of that
(`OpenInterrupted`, `CloseInterrupted`, `Dup2CloseInterrupted`,
`Dup2OpenInterrupted`, `IoctlInterrupted`, `UnlinkInterrupted`). A section in
which nothing waits is one step; the points between the steps are those at which
the code gives a semaphore up or waits for one. `opened`, `live`, `lost` and
`dups` are ghost variables. A call that reaches the driver after its instance
was freed goes to `Misuse` and stops there; nothing is claimed of what freed
memory does. The application is assumed not to close a descriptor that one of
its own calls uses, and not to give `dup2()` a descriptor that it does not own.

### SemAbs, NxSem

`NxSem` has the signed counter of `sem_t`, the state, `waitsem`, `pterrno`,
watchdog and priority of each TCB, and the one prioritized list of all tasks
that wait. A critical section is a step. A woken task is READY until `Resume`
runs, so a timeout or a signal may still find its watchdog or its TCB.
`nxsem_timedwait()` and `nxsem_tickwait()` differ in when they cancel the
watchdog and are told apart by the kind of the call. Restart and deletion of
tasks are included because they end waits too. `SemAbs` has a natural number
of units, a set of waiting tasks per semaphore and the standing of each call;
the refinement mapping takes the positive part of the counter for the units.
The scheduler is replaced by arbitrary interleaving, which allows every
schedule the kernel could choose and more.

### WdogAbs, Wdog

Each operation of `sched/wdog` is one critical section and one step;
`wd_expiration()` is a loop of steps, one per timer that is due, and between
them the function of the timer may create, start, cancel and delete timers,
its own included. Timers come from the pool, of which `IntReserve` are kept for
interrupts, from the heap, or are static. The refinement mapping gives each
timer the sum of the lags up to its place (`Due`), which is what `wd_gettime()`
computes. A delay of `INT32_MAX` is excluded by an assumption, because the code
adds one to it; so is a reserve as large as the pool, which `wdog.h:68` refuses
to compile.

### WorkQueue

A scan of the queue runs in one critical section up to the point where it calls
a work function or sleeps, and is one step. `work_queue()` is three: enqueue,
find a thread that is not busy (`PickThread`), signal it (`KillThread`); workers
run between them. A woken thread is `ready`, and not yet marked busy, until it
runs. Thread 0 sleeps until the next work is due, the others until a signal.
Times are differences, which is what the unsigned subtractions of the code
give for less than 2^32 ticks. The board has one thread per queue; the model
allows several, as the source does.

### MmHeap

Addresses and sizes are bytes, a chunk is known by the address of its header,
and the memory holds the headers only; one that a merge swallows is dropped, so
that a stale use of it would be an error of the evaluation. Every operation is
made of the same few steps on the chunks, as the code repeats them: `Cut` one in
two, `Join` two, and the forms of these with a neighbour (`TakeNext`, `TakePrev`)
or the free list (`CutTail`, `CutHead`, `Claim`, `Release`). The heap begins empty;
`AddRegion` adds the regions one by one, also between calls, as the board adds its second one
after the heap is up. What lies between
`mm_takesemaphore()` and `mm_givesemaphore()` is one step. `mm_realloc()` and
`mm_memalign()` give the semaphore up half-way and are several steps. `raced` is a
ghost variable for the one case in which that shows: `mm_memalign()` frees the
head of its chunk without looking at a neighbour that another thread freed
meanwhile. Contents of blocks, `mm_extend()` and `mm_mallinfo()` are left out.

### Imu

`chewie_main()` brings the IMU driver up while another thread uses the heap. The
library's instance is a block of the heap and its field `fd` has an address; if
that lies outside of the block, it is the field of the next header at that
place. The updates only read `fd` and are left out with the readings.

## Runs

| Run | What it checks |
|---|---|
| `pwm` | two threads, two shared descriptors: `CrefsAccounting`, `ClockFollowsReferences`, `OutputMatchesInfo`, that `PwmUpper` implements `PwmDev` (`AtomicDevice`), and that every call returns (`CallReturns`) |
| `motor` | `ThrottleBounded`, `ReferencesBalanced`, `MotorsOffWhenDown`, `OutputFollowsRequest` with other users of the device, interrupted calls and restarts |
| `i2c` | two threads transfer and reset on a bus that may hang: `BuffersOwned`, `OkMeansDone`, `ErrorsReported`, `TransferReturns` |
| `i2c_bytes` | transfers one after the other, interrupts served arbitrarily late, slaves that refuse: `WireCombined`, `ReadsExact`, `StateKnown`, `BusReleased`, `FaultsReported`, `TransferEnds` |
| `i2c_dev` | open, close, dup, dup2, ioctl and unlink of two threads with signals: `InodeCounted`, `InodeLifetime`, `DriverCounted`, `CallReturns` |
| `sem` | `CountIsWaiters`, `ListConsistent`, `NoStaleTimeout`, that `NxSem` implements `SemAbs` (`Semaphore`), and that timed waits return (`TimedWaitReturns`) |
| `wdog` | `ListsConsistent`, `ReserveKept`, that `Wdog` implements `WdogAbs` (`TimersExact`), and that the timer interrupt returns (`ExpirationEnds`) |
| `workqueue` | `QueueConsistent`, `NoOversleep`, and that queued work is run (`WorkRuns`) |
| `heap` | two threads fill and fragment two regions: `ChunksTile`, `FreeListExact`, `BlocksBacked`, `BestFit`, `Coalesced` |

Three runs state what a comment or an assertion of the source says and find
that the code does otherwise:

| Run | What is said | What the code does |
|---|---|---|
| `pwm_close_eintr` | `fs_close.c:67` | a close that a signal interrupts frees the descriptor and keeps the reference: no later close shuts the timer down |
| `sem_delete` | `sem_recover.c:89` | a task deleted while it waits has already lost its state when `nxsem_recover()` tests it: the counter stays too low and a later post is lost |
| `imu_heap` | `mm_free.c:94` | `lib_i2c_open()` allocates the size of a pointer for a structure of 16 bytes: the descriptor is stored into the size field of the chunk behind the block, and the chunks no longer tile the region |

A fourth disagreement, on the stop conditions between I2C messages, is shown by
the passing run `i2c_bytes`: `WireCombined` states what the code does, and an
assumption that TLC evaluates there for which lists `i2c_master.h:80` documents something else
(Observations).

Type invariants are proved for `PwmUpper` and `I2cTransfer`. In the other
modules `TypeOK` is a conjunct of the invariant about the structure of the
state (`ReferencesBalanced`, `ReadsExact`, `InodeCounted`, `ListConsistent`,
`ListsConsistent`, `QueueConsistent`, `BlocksBacked`).

### Observations

What reading and modelling the code showed and no run states:

* `stm32_pwm.c:4528`: stop is an RCC reset that takes the channels out of PWM
  mode, and only setup puts them back: open, start, stop, start leaves the
  counter running without pulses.
* `pwm.c:264`: `started` survives the last close, so the next client's START is
  skipped until somebody stops or sets the output.
* `drv_motor.c:139`, `:160`: `drv_motor_update()` returns 0 although the duty did
  not reach the device; the ESC calibration ignores it too. `drv_motor.c:196`:
  deinit after a failed init uses descriptor numbers that are already closed.
  `drv_pwm_deinit()` ends the output although its comment says it does not.
* `stm32f40xxx_i2c.c:1956`: the test before setting the bus error bit is the
  opposite of its comment, so an interrupt in an unknown state ends the
  transfer with OK. `StateKnown` shows that a bus without faults does not get
  there.
* `stm32f40xxx_i2c.c:677`: a signal, then the last interrupt before the thread
  runs: the completed transfer reports a timeout that never expired. `:643`:
  each signal restarts the full timeout.
* `stm32f40xxx_i2c.c:1677`, `:1541`, `:1888`: between two messages the routine always
  sends a repeated start condition, and a stop condition after the last one. `i2c_master.h:96`
  documents for two messages without NOSTOP "Two normal, separate messages with
  STOP on msg[n] then START on msg[n+1]", and `:87` no stop condition after a last
  message with NOSTOP. Drivers build both: `bmp280.c:217`, `:223`, `bmi160.c:308`, `:314`,
  `ina219.c:156`, `:161`, `ds3231.c:287` and more write a register and read or write it without
  NOSTOP; `i2c_set.c:214` sends a single message with it. The run `i2c_bytes` has such
  lists; `WireCombined` says what the code does with every list, and the assumption
  `Divergence` of `MCI2cIsr`, which TLC evaluates, that `Documented` says the same of the
  `Regular` lists and of no others.
* `stm32f40xxx_i2c.c:1677`: after a write, a next message whose flags are
  neither zero nor READ is not started, so a write followed by a write with
  NOSTOP waits for its timeout, although the rules at `i2c_master.h:80` allow such
  lists; `TransferEnds` holds for all others (`Startable`). `:1411`: a list
  that addresses two slaves, `:1425`: an empty message, and `:1545`: a read of one byte
  followed by another message are not handled as single messages are. No
  driver of the repository builds lists of these four kinds. A NACK of a data byte ends
  the transfer without a stop condition. A bus reset that gives up leaves the
  controller off, so later transfers time out.
* `fs_dupfd.c:92`, `i2c_driver.c:343`: `dup()` does not call the driver, so the
  driver counts one reference for two descriptors and both closes drop one:
  after unlink the instance is freed under the other descriptor.
  `fs_unlink.c:183`: an unlink that a signal interrupts keeps the tree's
  semaphore. An open or a second unlink that waits for `exclsem` while the last
  close frees the instance uses freed memory. `dup2()` onto a number that a
  concurrent `open()` has just been given closes that file.
* `sem_timedwait.c:213`, `sem_tickwait.c:177`: `wd_delete()` and `waitdog = NULL` run with
  interrupts enabled. A restart or deletion of the task between the two makes
  `wd_recover()` (`wd_recover.c:84`) delete the timer a second time: one of the pool is
  then twice in the free list, one of the heap freed twice. `NxSem` has one
  timer per task and takes the two for one step.
* `wd_start.c:276`: a delay of `INT32_MAX` overflows. `kwork_process.c`: the sleep
  in microseconds is a 32-bit product. Two pieces of work queued at once may be
  signalled to the same worker thread; another finds the second later.
* `mm_malloc()` adds the header to the size without a test for overflow.
* `lib_i2c.c:80`: `lib_i2c_read()`, which no code calls, lets the bus write into
  its own argument. `drv_imu_jy901b.c:103`: `_init()` passes NULL to
  `lib_i2c_deinit()` after a failure, which then closes the number it finds at
  address 8, a code address that is no descriptor.

### Bounds

* `pwm`: `CrefLimit` stands for the 256 values of the `uint8_t` count. 3 (2 live
  references) with two descriptors and one lost close reaches the limit and the
  refusal with `EMFILE`. Two threads, so that one is in the driver while the other
  competes or is interrupted; two descriptors so that a close may or may not be
  the last; two frequencies so that both branches of `pwm_start()` happen.
  `MaxInterrupted` bounds the lost references. The safety properties and the
  refinement are proved for any numbers.
* `motor`: the requests lie below, inside, at the edge of and above the
  throttle range 2..5; two other users, two signals, so that a failed call and
  a failed close can both happen in one life of the driver.
* `i2c`: `Steps` = 2 has a first and a last interrupt; two threads let a stale
  post meet a transfer of another thread; two signals in one wait. The safety
  properties are proved for any numbers. The number of signals must be finite
  for `TransferReturns`: each signal restarts the full timeout, so a steady
  stream of them postpones it for ever.
* `i2c_bytes`: reads of 1 to 6 bytes, since the routine treats 1, 2, 3, 4 and
  more differently and 6 has two bytes of the general case; writes of 1 to 4;
  lists of one and two messages with and without NOSTOP and NOSTART in the
  combinations that the repository's drivers build, to one slave, the lists of three
  and four messages of the clock drivers, and two lists with a message that is
  never started. Two slaves, empty messages and one-byte reads before another
  message are left out (Observations). A transfer starts with what the last one left in the registers.
* `i2c_dev`: two descriptors and two threads, so that the list is full, the
  last close and unlink overlap, and both threads wait on each other's
  semaphores; one close that a signal takes from the driver, one `dup()`.
  `UnlinkInterrupted` is bounded to once per tree semaphore held, because each one
  leaves the count higher.
* `sem`: two tasks, two semaphores, two priorities. One list holds the
  waiters of both semaphores, so two semaphores are needed to see a post skip a
  waiter of another one; a third task multiplies the states beyond a run of a
  few minutes. `MaxCount` stands for `SEM_VALUE_MAX`. `DeleteWaiting` is FALSE
  in `sem`: deleting a task that waits breaks the counter, as `sem_delete`
  shows, so tasks are deleted there only when they are not waiting. Restart of
  waiting tasks, which does recover the count, is included.
* `wdog`: four timers, of which two in the pool with one reserved; delays 0, 1
  and 3, so that timers are due together, before and behind each other.
* `workqueue`: two pieces of work, two callers, one or two threads, delays up to
  2 ticks, so that a delay runs out during a pass.
* `heap`: two regions, added in either order: one of eight granules of 16 bytes,
  in which an aligned block fits behind another, and one of three; sizes of one
  and of several granules; three size classes, so that the search starts in a
  list without a fit.

Symmetry is used in `heap` among threads, where no temporal property is checked.

Deadlock is checked in every run but `i2c_dev`, in which a thread that uses freed
memory stops, and others may wait for it.

### Fairness

* PWM: weak fairness of a thread inside the driver, because it never blocks
  while it holds `exclsem`. Strong fairness of being handed `exclsem`, because
  `nxsem_post()` wakes waiters of equal priority in the order they came. A
  thread of lower priority could starve; `CallReturns` is about equal
  priorities. Nothing makes a thread call the driver.
* I2C transfers: weak fairness of threads that can run, of the watchdog (the
  system timer ticks) and of a latched interrupt (the mask is lifted), strong
  fairness of `sem_excl` as above. Nothing at all is assumed of the bus.
* I2C bytes: weak fairness of the controller and of a pending interrupt. This
  is the bus that moves; the one that hangs is the matter of `i2c`.
* I2C device: strong fairness of each thread's steps, because the waits for
  the three semaphores are queues as above. Signals are not fair.
* Semaphores: weak fairness of tasks that can run and of the watchdog. No post
  is assumed, so only timed waits are claimed to return.
* Watchdogs: weak fairness of the interrupt handler's loop; the functions it
  calls return.
* Work queues: weak fairness of the threads, of a caller inside `work_queue()`,
  of the tick, and of work functions, which return.

## Proofs

`PwmUpperProofs` proves about `PwmUpper`, for all threads, files, frequencies,
duties and limits: `TypeCorrect`, `Exclusion`, `ReferenceCount`, `ClockGating`
(from `Powered` and `PoweredOff`), `OutputCorrect` and `Atomicity`. None of the
properties is inductive alone. The argument has two layers:

* `Inv1` = `TypeOK` and `SemInv`: the waiters of `exclsem` are exactly the blocked
  threads, a unit in the semaphore means that no thread is inside, a missing
  unit is with exactly one thread. Mutual exclusion follows, and with it that at
  most one operation is between its two steps.
* `Inv2` = `RefInv`, `PowerInv`, `OutputInv`, given `Inv1`. `RefInv` relates each open
  and close in progress to the life of its own file and counts the reference
  that the last close has already taken from `crefs` but not yet from the file;
  without it the count is off by one in the middle of a close. `PowerInv` makes
  the clock equivalent to a reference that exists, is being made or is being taken away.
  `OutputInv` connects the counter, `started`, the driver's copy of the frequency
  and `info`; the copy is needed because `pwm_start()` decides with it whether to
  reprogram the timer.
* `Atomicity` maps the state to `Completed`, in which an operation between its
  two steps counts as done. Each first step is then one step of `PwmDev` and
  each second step, entry, interrupt and failed open changes nothing.

`I2cTransferProofs` proves about `I2cTransfer`: `TypeCorrect`, `Exclusion`,
`Ownership`, `Reporting` and `Completion`, for any number of threads, interrupts
and signals and with or without interrupts in unknown states. The inductive
invariant has five parts: the type, `LockInv` (`sem_excl` is taken while somebody
holds the bus), `OwnerInv` (the buffers belong to the thread in its transfer,
interrupts are enabled only while it sleeps or is ready), `HandshakeInv` (a
sleeping thread has announced itself and finds no stale post; DONE means
finished) and `OutcomeInv` (the error status and the remaining work agree with
what happened). `HandshakeInv` is why a post left over from a transfer that timed
out cannot end the next one.

The second part of `I2cTransferProofs` is about the byte machine, `I2cIsr`, for
every set of message lists, messages of any length and any latency of the
interrupt: `BytesKnown` (`StateKnown`), `BytesReleased` (`BusReleased`), `BytesReported`
(`FaultsReported`) and `BytesExact` (`ReadsExact`). None of the four is inductive: what one
run of the routine does depends on what it finds in the controller, and that on
what earlier runs wrote there. `BytesInv` lists the eight phases in which the two
can be together, `Rest`, `Starting`, `Started`, `Addressing`, `Addressed`, `Writing`,
`Reading` and `Refused`, with the status bits, the requests and the counters of
each. The hardest is `Reading`: `Unread`, the bytes received and not yet stored, ties the
count of bytes on the wire to `dcnt` and to the place in the buffer, `Single` and
`Several` say when ACK, POS and STOP are set, and together they give that the
controller refuses exactly the last byte. The lemmas on the operators (`PutDrIs`,
`WriteByteIs`, `ReadTwoIs` and others) say what one branch does to the structure and to the
registers; each action then leads from its phase to the next one. The theorems
assume what `ListsAssumption` says of the lists: no message is empty, only a write
is continued without a start condition, and by a write, and a single byte is read only as the
last message. All lists that the repository's drivers build are such; what
happens with others is under Observations.

`BytesOnWire` (`WireCombined`) is proved on top of that. `WireInv` says for each phase how
far the history of the wire has come in the combined transfer of the list:
after a start condition `Flat(msgs, cur - 1)`, all earlier messages, and then
`Sofar(msgs, cur, k)`, k bytes of the current one; while writing, the bytes still
in the shift and the data register are counted as sent (`Out`). The lemmas of
`BytesInv` say which bytes a run of the routine has put into the registers
(`WritesOn`), and `WireGrows` that one more token on the wire is one more token of the
combined transfer. `Combined` concatenates over the list; that it grows message by
message comes from an induction on a set of numbers (`Upto`), which needs no operator as
a parameter. The one hypothesis more is `OneSlave`: the routine sends the address of
the message behind the current one. `BytesDocumented` adds the hypothesis `Regular`, a
stop condition after the last message and nowhere else, under which this is what
`i2c_master.h` documents (`WireAsDocumented`); for other lists the documentation says
otherwise (Observations).

`MotorProofs` proves about `Motor`: `References`, `Throttle`, `Shutdown` and
`Output`, for every throttle range and set of requests and any number of other
openers and signals. The invariant adds to the types what the device and the
driver know of each other: `DeviceInv` (every reference of the device is the
driver's, another task's or lost to a signal; the timer is clocked exactly while
there is one), `PathInv` (where the driver stands tells whether its descriptor is
open), `ThrottleInv` (also what a later start would put out is within the limits,
not only what a running timer does) and `SoleInv` (how an init that nobody
disturbs gets from a timer in reset to the last requested duty).

`NxSemProofs` proves about `NxSem`, for every set of tasks, semaphores and
priorities: `Watchdogs` (`NoStaleTimeout`), `Counters` (`CountIsWaiters`),
`WaitingList` (`ListConsistent`) and `Implements`, that `NxSem` refines `SemAbs`. The last
three assume `~DeleteWaiting`: with tasks that are deleted while they wait they
are false, which run `sem_delete` shows. `Inv1` is about the list and the calls:
the list holds the blocked tasks, each once and in the order of priority, and
`CallInv` says for every stage of a call which state, watchdog and error number its
task can have. The latter is what makes a timeout that fires after the post, or a
signal after the timeout, harmless. `CountInv`, on top, makes the positive part of the
counter the free units and the negative part the number of waiters, of which
there are none while a unit is free. For the refinement each action is shown to
change the units, the waiters and the outcome of one semaphore and one task as one action of `SemAbs` does,
or nothing; a post must be shown to wake the waiter of highest priority of its
own semaphore out of the list of all.

`I2cDevProofs` proves about `I2cDev`, for any number of threads and descriptors:
`InodeReferences`, `InodeFreed` and `DriverReferences`. The counts are not inductive: one
has to know who owns a descriptor while it is half open or half closed.
`FdInv` gives every call, at each of its points, the descriptor it has to itself
and the one it copies from; `Apart` says that no two calls have the same one;
`TreeInv` that the tree's semaphore is taken twice only by a thread that an interrupted
unlink left with it. Then every step adds or removes exactly the reference that
it counts.

`WdogProofs` proves about `Wdog`, for every pool, heap, reserve and set of delays:
`Implements`, that `Wdog` refines `WdogAbs`; `Lists` (`ListsConsistent`) and `Reserve`
(`ReserveKept`). The heart are lemmas about lists of differences: the sums of lags
exist and are unique (`SumsExist`, `DueIs`), taking a timer out and passing its
lag on (`RemoveChain`) or putting one in and splitting the lag of the next
(`InsertChain`) changes no other timer's time, the tick takes one from every time
(`TickIs`). The induction over the list, which the library's theorems do not
offer to these provers, is done with the least element of a set of numbers
(`Upto`). The invariant bounds every time by the longest delay, without which the
inherited lag could leave its range, and says that no timer is due outside of
the interrupt, without which a tick could pass over one.

`WorkQueueProofs` proves about `WorkQueue`, for any number of works, callers, threads
and ticks: `Queued` (`QueueConsistent`) and `WakeUp` (`NoOversleep`). `NoOversleep` is not
inductive, since a caller that has picked another thread is no help to thread 0: `SleepInv`
lets a caller stand for a wake-up only while it still looks for a thread or has
found thread 0, and says that a sleeping thread 0 is not busy, so that the
search, which takes the first thread that is not busy, finds it.

`MmHeapProofs` proves about `MmHeap`, for any number of threads and free lists,
for all disjoint regions, sizes and alignments: `Tiled` (`ChunksTile`),
`FreeList` (`FreeListExact`), `Backed` (`BlocksBacked`), `Fit` (`BestFit`) and `Merged`
(`Coalesced`). They follow from one inductive invariant, `HeapConsistent`:

* `Tiles` describes the memory: every header but the last of a region has its
  successor where its size says, every one but the first has its predecessor
  where `preceding` says, and no header lies in between. `ChunksTile` alone speaks
  of successors only, and a merge with the chunk below needs the other
  direction.
* `Listed` describes the lists: each holds exactly the free chunks of its sizes,
  in the order of size and each once. The lists are handled by their positions:
  `RemoveFirstIs` and `InsertOrdered` say what the two list operations do to the
  order and to the members, for lists of any length.
* `Held`, `Owned`, `Distinct` and `Call` say who has which chunk: an allocated one is a
  block, a guard, or the new chunk of one call that has given up the semaphore
  half-way; the old block of such a call is in nobody else's hands; a chunk to be
  aligned is large enough for both alignment points and a free head.
* `Apart`, no two free neighbours, is kept as long as `raced` is false.

Each step on the chunks has its lemmas, which say that `Tiles` and `Listed` are kept and
which chunks change (`Same`: all others keep size and flag); each operation is
put together from them, and each action from an operation and the change of
owner. `Fit` needs that the list of a size is monotonic in the size, so that no
list before the one the search starts with can hold a fit.

The assumptions are the named `ASSUME`s of the modules: finite sets of threads,
tasks, files and timers, positive frequencies and duties, natural bounds,
`CrefLimit` > 1, names for "none" that are not members, errors distinct from the
other results, an armed throttle not above the others, a reserve smaller than the
pool, delays below `INT32_MAX`, regions that are aligned and do not overlap, and
alignments that are multiples of the granule and larger than it (`mm_memalign()`
hands smaller ones to `mm_malloc()`). Every run evaluates them for its constants.

Only model-checked: all liveness, since the prover does not treat fairness. Every
invariant of the passing runs is stated by a theorem.

## Not modelled

* PWM lower half: the arithmetic of prescaler, reload and compare values.
* Board bring-up: a fixed sequence of registrations.
* IMU readings and their conversion to floating point, which is out of TLC's
  reach; the descriptors of other tasks, path search, mount points and
  pseudo-file creation of the file system.
* Named semaphores, `nxsem_destroy()`, priority inheritance and SMP: not used or not
  configured. Signal queues and handlers: only the end they put to a wait
  matters here. Tickless operation and I2C DMA: not configured. The work notifier is
  configured (`CONFIG_WQUEUE_NOTIFIER`), but only the network and its I/O buffers use
  it, and those are not.
* Message queues, USB, SD card, RTC, serial, SPI and GPIO drivers, shell and
  example applications, network, graphics, audio, file systems, C library,
  other boards: not called by the flight controller. They are by far the most
  of the repository's lines.
* `modules/mod_attitude_control.h` and `modules/mod_sensor.h` are empty files.

## Plan

Models: `PwmMath`, the prescaler, reload and compare values with their widths,
against a reference definition; board bring-up, which devices exist after which
failures.

------------------------------- MODULE Motor --------------------------------
(***************************************************************************)
(* The motor driver of the flight controller,                              *)
(* src/apps/chewie/drivers/motor/drv_motor.c, over the PWM wrapper         *)
(* src/apps/chewie/drivers/pwm_out/drv_pwm_out.c and the PWM device of     *)
(* PwmOps, as the configuration builds it: four channels on one device.    *)
(* The four channels are treated alike, so one duty stands for them.       *)
(*                                                                         *)
(* One thread uses the driver the way test_motor() in                      *)
(* src/apps/chewie/chewie_main.c does, with any duties it likes.  Each     *)
(* open, ioctl and close is a step, atomic by PwmUpper, and between two of *)
(* them other tasks may use the same device.  While one of them is inside  *)
(* the PWM driver a call may block there, and a signal then ends it with   *)
(* EINTR.                                                                  *)
(***************************************************************************)
EXTENDS PwmOps, Integers

CONSTANTS
  ARMED, MIN, MAX,  \* CHEWIE_DRV_MOTOR_{ARMED,MIN,MAX}_THROTTLE_DUTY
  Requests,         \* what a client writes to g_motor_state.dutys
  Frequency,        \* CONFIG_CHEWIE_MOTOR_PWM_FREQUENCY
  MaxOthers,        \* bound on the references other tasks hold at a time
  MaxSignals        \* bound on the calls of the motor thread a signal ends

ASSUME ThrottleAssumption ==
  /\ {ARMED, MIN, MAX} \subseteq Nat
  /\ ARMED < MIN /\ MIN < MAX
  /\ ARMED .. MAX \subseteq Duties
ASSUME RequestsAssumption == Requests \subseteq Nat
ASSUME FrequencyAssumption == Frequency \in Freqs
ASSUME BoundsAssumption == MaxOthers \in Nat /\ MaxSignals \in Nat

VARIABLES
  dev,      \* the PWM device and its timer
  dutys,    \* g_motor_state.dutys
  duty,     \* the duty in _g_motors_state.pwms_info
  fd,       \* _g_motors_state.pwm_devs_fd holds a descriptor number (else -1)
  isOpen,   \* that number is an open descriptor of the device
  phase,    \* down, live (init returned 0) or failed (init returned -1)
  pc,       \* idle, or the next call the driver makes
  result,   \* what the last call to the driver returned
  others,   \* references held by other tasks
  lost,     \* references whose close gave up with EINTR
  foreign,  \* another task was the last to change the output
  sole,     \* no other task has controlled it since init opened a closed device
  signals,  \* calls that a signal has ended
  dropped   \* a drv_pwm_update_info() of drv_motor_update() failed, none since
            \* then has succeeded

vars == <<dev, dutys, duty, fd, isOpen, phase, pc, result, others, lost, foreign,
          sole, signals, dropped>>

TypeOK ==
  /\ dev \in Devs
  /\ dutys \in Requests \cup {ARMED, MIN, MAX}
  /\ duty \in Nat
  /\ fd \in BOOLEAN /\ isOpen \in BOOLEAN
  /\ phase \in {"down", "live", "failed"}
  /\ pc \in {"idle", "open", "set", "start", "errout", "push", "escmax", "escmin",
             "stop", "close"}
  /\ result \in {0, -1}
  /\ others \in 0 .. MaxOthers
  /\ lost \in 0 .. MaxSignals
  /\ foreign \in BOOLEAN /\ sole \in BOOLEAN
  /\ signals \in 0 .. MaxSignals
  /\ dropped \in BOOLEAN

Init ==
  /\ dev = NewDev
  /\ dutys = ARMED /\ duty = ARMED
  /\ fd = FALSE /\ isOpen = FALSE
  /\ phase = "down" /\ pc = "idle" /\ result = 0
  /\ others = 0 /\ lost = 0 /\ foreign = FALSE /\ sole = FALSE /\ signals = 0
  /\ dropped = FALSE

(* Mutant: the upper limit is forgotten *)
ClampLow(d) == IF d < ARMED THEN ARMED ELSE d

(* The range drv_motor_update() keeps a duty in *)
Clamp(d) == IF d > MAX THEN MAX ELSE IF d < ARMED THEN ARMED ELSE d

PwmInfo == [frequency |-> Frequency, duty |-> duty]

-----------------------------------------------------------------------------
(* Outcomes of a call on the descriptor number the driver remembers *)
IoctlDone(d) == isOpen /\ dev' = d /\ UNCHANGED signals

(* drv_pwm_update_info() that succeeds *)
SetDone == IoctlDone(DevSet(dev, PwmInfo)) /\ foreign' = FALSE

SignalEnds == signals < MaxSignals /\ signals' = signals + 1

IoctlFails ==
  /\ \/ isOpen /\ SignalEnds
     \/ ~isOpen /\ UNCHANGED signals       \* EBADF
  /\ UNCHANGED dev

(* close(): the descriptor is gone whatever pwm_close() says *)
CloseFd ==
  \/ /\ isOpen /\ dev' = DevClose(dev)
     /\ UNCHANGED <<lost, signals>>
  \/ /\ isOpen /\ SignalEnds
     /\ lost' = lost + 1
     /\ UNCHANGED dev
  \/ /\ ~isOpen                            \* EBADF
     /\ UNCHANGED <<dev, lost, signals>>

Return(r, p) == result' = r /\ phase' = p /\ pc' = "idle"

Goto(l) == pc' = l /\ UNCHANGED <<phase, result>>

-----------------------------------------------------------------------------
(* drv_motor_init(): initialise the state *)
MotorInit ==
  /\ pc = "idle" /\ phase = "down"
  /\ fd' = FALSE
  /\ duty' = ARMED /\ dutys' = ARMED
  /\ Goto("open")
  /\ UNCHANGED <<dev, isOpen, others, lost, foreign, signals, dropped, sole>>

(* drv_pwm_init() *)
InitOpen ==
  /\ pc = "open"
  /\ \/ /\ CanOpen(dev)
        /\ dev' = DevOpen(dev)
        /\ fd' = TRUE /\ isOpen' = TRUE
        /\ sole' = (dev.crefs = 0)
        /\ Goto("set")
        /\ UNCHANGED signals
     \/ /\ ~CanOpen(dev)
        /\ Goto("errout")
        /\ UNCHANGED <<dev, fd, isOpen, sole, signals>>
     \/ /\ SignalEnds
        /\ Goto("errout")
        /\ UNCHANGED <<dev, fd, isOpen, sole>>
  /\ UNCHANGED <<dutys, duty, others, lost, foreign, dropped>>

(* drv_pwm_update_info() in drv_motor_init() *)
InitSet ==
  /\ pc = "set"
  /\ \/ SetDone /\ dropped' = FALSE /\ Goto("start")
     \/ IoctlFails /\ Goto("errout") /\ UNCHANGED <<foreign, dropped>>
  /\ UNCHANGED <<dutys, duty, fd, isOpen, others, lost, sole>>

(* Mutant: the output is marked started before the timer is programmed *)
InitStartMarked ==
  /\ pc = "start"
  /\ \/ IoctlDone([dev EXCEPT !.started = TRUE]) /\ Return(0, "live")
     \/ IoctlFails /\ Goto("errout")
  /\ UNCHANGED <<dutys, duty, fd, isOpen, others, lost, foreign, dropped, sole>>

(* drv_pwm_start() in drv_motor_init() *)
InitStart ==
  /\ pc = "start"
  /\ \/ IoctlDone(DevStart(dev)) /\ Return(0, "live")
     \/ IoctlFails /\ Goto("errout")
  /\ UNCHANGED <<dutys, duty, fd, isOpen, others, lost, foreign, dropped, sole>>

(* Mutant: a failed initialisation leaves its descriptor open *)
InitErroutKeeps ==
  /\ pc = "errout"
  /\ Return(-1, "failed")
  /\ UNCHANGED <<dev, lost, signals, isOpen, dutys, duty, fd, others, foreign, dropped, sole>>

(* errout_with_dev: close what was opened; pwm_devs_fd keeps the number *)
InitErrout ==
  /\ pc = "errout"
  /\ IF fd THEN CloseFd ELSE UNCHANGED <<dev, lost, signals>>
  /\ isOpen' = FALSE
  /\ Return(-1, "failed")
  /\ UNCHANGED <<dutys, duty, fd, others, foreign, dropped, sole>>

(* A client stores a duty and calls drv_motor_update(): the copy with its  *)
(* limits                                                                  *)
MotorUpdate(r) ==
  /\ pc = "idle" /\ phase = "live"
  /\ dutys' = r
  /\ duty' = Clamp(r)
  /\ Goto("push")
  /\ UNCHANGED <<dev, fd, isOpen, others, lost, foreign, signals, dropped, sole>>

(* drv_pwm_update_info() in drv_motor_update(): the result is dropped *)
Push ==
  \/ SetDone /\ dropped' = FALSE
  \/ IoctlFails /\ dropped' = TRUE /\ UNCHANGED foreign

UpdatePush ==
  /\ pc = "push"
  /\ Push
  /\ Return(0, phase)
  /\ UNCHANGED <<dutys, duty, fd, isOpen, others, lost, sole>>

(* drv_motor_esc_init(): maximum throttle ... *)
EscInit ==
  /\ pc = "idle" /\ phase = "live"
  /\ dutys' = MAX
  /\ duty' = Clamp(MAX)
  /\ Goto("escmax")
  /\ UNCHANGED <<dev, fd, isOpen, others, lost, foreign, signals, dropped, sole>>

(* ... for three seconds, then minimum throttle *)
EscMax ==
  /\ pc = "escmax"
  /\ Push
  /\ dutys' = MIN
  /\ duty' = Clamp(MIN)
  /\ Goto("escmin")
  /\ UNCHANGED <<fd, isOpen, others, lost, sole>>

EscMin ==
  /\ pc = "escmin"
  /\ Push
  /\ Return(0, phase)
  /\ UNCHANGED <<dutys, duty, fd, isOpen, others, lost, sole>>

(* drv_motor_deinit(): test_motor() calls it after a failure too *)
MotorDeinit ==
  /\ pc = "idle" /\ phase \in {"live", "failed"}
  /\ Goto("stop")
  /\ UNCHANGED <<dev, dutys, duty, fd, isOpen, others, lost, foreign, signals, dropped, sole>>

DeinitStop ==
  /\ pc = "stop"
  /\ IoctlDone(DevStop(dev)) \/ IoctlFails
  /\ Goto("close")
  /\ UNCHANGED <<dutys, duty, fd, isOpen, others, lost, foreign, dropped, sole>>

(* drv_pwm_deinit() *)
DeinitClose ==
  /\ pc = "close"
  /\ CloseFd
  /\ isOpen' = FALSE
  /\ fd' = FALSE
  /\ Return(0, "down")
  /\ UNCHANGED <<dutys, duty, others, foreign, dropped, sole>>

-----------------------------------------------------------------------------
(* Another task opens or closes the device, or changes the output *)
OtherOpen ==
  /\ others < MaxOthers /\ CanOpen(dev)
  /\ dev' = DevOpen(dev) /\ others' = others + 1
  /\ UNCHANGED <<foreign, sole>>

OtherClose ==
  /\ others > 0
  /\ dev' = DevClose(dev) /\ others' = others - 1
  /\ UNCHANGED <<foreign, sole>>

OtherIoctl ==
  /\ others > 0
  /\ \/ \E i \in Infos : dev' = DevSet(dev, i)
     \/ dev' = DevStart(dev)
     \/ dev' = DevStop(dev)
  /\ foreign' = TRUE /\ sole' = FALSE
  /\ UNCHANGED others

Other ==
  /\ OtherOpen \/ OtherClose \/ OtherIoctl
  /\ UNCHANGED <<dutys, duty, fd, isOpen, phase, pc, result, lost, signals, dropped>>

Driver ==
  \/ MotorInit \/ InitOpen \/ InitSet \/ InitStart \/ InitErrout
  \/ \E r \in Requests : MotorUpdate(r)
  \/ UpdatePush
  \/ EscInit \/ EscMax \/ EscMin
  \/ MotorDeinit \/ DeinitStop \/ DeinitClose

Next == Driver \/ Other

Spec == Init /\ [][Next]_vars
-----------------------------------------------------------------------------
(* Whatever a client asks for, and whenever it is interrupted, the motors  *)
(* never see a throttle outside the armed and the maximum one              *)
ThrottleBounded ==
  (Pulsing(dev.tim) /\ ~foreign) =>
     ARMED <= dev.tim.ccr /\ dev.tim.ccr <= MAX

(* The state is well-formed, and no path through the driver leaks or drops *)
(* twice a reference to the PWM device: only a close that a signal ended   *)
(* is unaccounted for                                                      *)
ReferencesBalanced ==
  /\ TypeOK
  /\ dev.crefs = others + lost + (IF isOpen THEN 1 ELSE 0)

(* When drv_motor_init() has failed or drv_motor_deinit() has returned,    *)
(* the driver holds no descriptor, and motors that nobody else drives are  *)
(* stopped                                                                 *)
MotorsOffWhenDown ==
  (pc = "idle" /\ phase # "live") =>
     /\ ~isOpen
     /\ (others = 0 /\ lost = 0) => ~Pulsing(dev.tim)

(* As long as no other task controls the device, an initialised driver     *)
(* puts out what its client last asked for, also after a restart, and      *)
(* though others open and close the device; except after an update that    *)
(* was interrupted                                                         *)
OutputFollowsRequest ==
  (pc = "idle" /\ phase = "live" /\ sole /\ ~dropped) =>
     Pulsing(dev.tim) /\ dev.tim.ccr = Clamp(dutys)
=============================================================================

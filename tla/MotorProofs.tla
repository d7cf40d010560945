---------------------------- MODULE MotorProofs -----------------------------
(***************************************************************************)
(* Proofs about Motor: the reference count, the shutdown, the throttle     *)
(* limits and the requested output, for every throttle range, every set of *)
(* requests, and any number of other openers and of signals.               *)
(***************************************************************************)
EXTENDS Motor, TLAPS

(* Opening counts up by one below the wrap, which CanOpen() excludes, and  *)
(* sets up the timer for the first opener only                             *)
LEMMA OpenEffect ==
  ASSUME NEW d \in Devs, CanOpen(d)
  PROVE  /\ DevOpen(d) \in Devs
         /\ DevOpen(d).crefs = d.crefs + 1
         /\ DevOpen(d).started = d.started
         /\ DevOpen(d).info = d.info
         /\ DevOpen(d).tim = IF d.crefs = 0 THEN TimerSetup(d.tim) ELSE d.tim
<1>1. CrefLimit \in Nat /\ CrefLimit > 1 /\ d.crefs \in 0 .. CrefLimit - 1
  BY CrefLimitAssumption DEF Devs
<1>2. d.crefs + 1 # CrefLimit
  <2>1. SUFFICES ASSUME d.crefs + 1 = CrefLimit PROVE FALSE
    OBVIOUS
  <2>2. (d.crefs + 1) % CrefLimit = 0
    BY <1>1, <2>1
  <2> QED BY <2>2 DEF CanOpen, NextCref
<1>3. NextCref(d.crefs) = d.crefs + 1
  <2>1. (d.crefs + 1) % CrefLimit = d.crefs + 1
    BY <1>1, <1>2
  <2> QED BY <2>1 DEF NextCref
<1>4. TimerSetup(d.tim) \in Timers
  BY DEF Devs, Timers, TimerSetup
<1>5. NextCref(d.crefs) \in 0 .. CrefLimit - 1 /\ (NextCref(d.crefs) = 1 <=> d.crefs = 0)
  BY <1>1, <1>2, <1>3
<1>6. CASE d.crefs = 0
  BY <1>3, <1>4, <1>5, <1>6 DEF Devs, DevOpen
<1>7. CASE d.crefs # 0
  BY <1>3, <1>5, <1>7 DEF Devs, DevOpen
<1> QED BY <1>6, <1>7

(* pwm_stop() leaves nothing of the timer but its clock, and               *)
(* pwm_shutdown() not even that                                            *)
LEMMA StopEffect ==
  ASSUME NEW x \in Timers
  PROVE  /\ TimerStop(x) \in Timers /\ TimerShutdown(x) \in Timers
         /\ TimerStop(x).clk = x.clk /\ ~TimerStop(x).cen
         /\ TimerStop(x).frequency = 0
         /\ ~TimerShutdown(x).clk /\ ~TimerShutdown(x).cen
         /\ TimerShutdown(x).frequency = 0
<1>1. ResetTimer \in Timers /\ ~ResetTimer.cen /\ ResetTimer.frequency = 0
  BY DEF ResetTimer, Timers
<1>2. x.clk \in BOOLEAN
  BY DEF Timers
<1>3. /\ TimerStop(x) \in Timers /\ TimerStop(x).clk = x.clk /\ ~TimerStop(x).cen
      /\ TimerStop(x).frequency = 0
  BY <1>1, <1>2 DEF Timers, TimerStop
<1>4. /\ TimerShutdown(x) \in Timers /\ ~TimerShutdown(x).clk /\ ~TimerShutdown(x).cen
      /\ TimerShutdown(x).frequency = 0
  BY <1>3 DEF Timers, TimerShutdown
<1> QED BY <1>3, <1>4

(* Closing counts down, and the last reference shuts the timer down *)
LEMMA CloseEffect ==
  ASSUME NEW d \in Devs, d.crefs > 0
  PROVE  /\ DevClose(d) \in Devs
         /\ DevClose(d).crefs = d.crefs - 1
         /\ DevClose(d).started = d.started
         /\ DevClose(d).info = d.info
         /\ DevClose(d).tim = IF d.crefs = 1 THEN TimerShutdown(d.tim) ELSE d.tim
<1>1. CrefLimit \in Nat /\ d.crefs \in 0 .. CrefLimit - 1
  BY CrefLimitAssumption DEF Devs
<1>2. d.tim \in Timers /\ TimerShutdown(d.tim) \in Timers
  BY StopEffect DEF Devs
<1>3. CASE d.crefs > 1
  BY <1>1, <1>2, <1>3 DEF Devs, DevClose
<1>4. CASE d.crefs = 1
  <2>1. DevClose(d) = [d EXCEPT !.crefs = 0, !.tim = TimerShutdown(d.tim)]
    BY <1>4 DEF DevClose, Devs
  <2>2. 0 \in 0 .. CrefLimit - 1
    BY <1>1
  <2>3. /\ DevClose(d) \in Devs /\ DevClose(d).crefs = 0 /\ DevClose(d).started = d.started
        /\ DevClose(d).info = d.info /\ DevClose(d).tim = TimerShutdown(d.tim)
    BY <1>2, <2>1, <2>2 DEF Devs
  <2> QED BY <1>4, <2>3
<1> QED BY <1>1, <1>3, <1>4

(* pwm_start() with the clock on puts the duty on the pins, starts a       *)
(* counter whose frequency changes, and leaves mode and clock alone        *)
LEMMA StartEffect ==
  ASSUME NEW x \in Timers, NEW i \in Infos \cup {NoInfo}
  PROVE  /\ TimerStart(x, i) \in Timers
         /\ TimerStart(x, i).clk = x.clk /\ TimerStart(x, i).mode = x.mode
         /\ TimerStart(x, i).frequency = i.frequency
         /\ x.clk => /\ TimerStart(x, i).ccr = i.duty
                     /\ TimerStart(x, i).cen <=> (x.cen \/ i.frequency # x.frequency)
<1>1. i.frequency \in Freqs \cup {0} /\ i.duty \in Duties \cup {0}
  BY DEF Infos, NoInfo
<1>2. CASE i.frequency = x.frequency
  BY <1>1, <1>2 DEF Timers, TimerStart, TimerDuty
<1>3. CASE i.frequency # x.frequency
  BY <1>1, <1>3 DEF Timers, TimerStart, TimerRun
<1> QED BY <1>2, <1>3

(* PWMIOC_SETCHARACTERISTICS reaches the timer of a started output *)
LEMMA SetEffect ==
  ASSUME NEW d \in Devs, NEW i \in Infos
  PROVE  /\ DevSet(d, i) \in Devs
         /\ DevSet(d, i).crefs = d.crefs
         /\ DevSet(d, i).started = d.started
         /\ DevSet(d, i).info = i
         /\ DevSet(d, i).tim = IF d.started THEN TimerStart(d.tim, i) ELSE d.tim
<1>1. d.tim \in Timers /\ TimerStart(d.tim, i) \in Timers
  BY StartEffect DEF Devs
<1> QED BY <1>1 DEF Devs, DevSet

(* PWMIOC_START starts what is not started *)
LEMMA DevStartEffect ==
  ASSUME NEW d \in Devs
  PROVE  /\ DevStart(d) \in Devs
         /\ DevStart(d).crefs = d.crefs
         /\ DevStart(d).started
         /\ DevStart(d).info = d.info
         /\ DevStart(d).tim = IF d.started THEN d.tim ELSE TimerStart(d.tim, d.info)
<1>1. d.tim \in Timers /\ TimerStart(d.tim, d.info) \in Timers /\ d.started \in BOOLEAN
  BY StartEffect DEF Devs
<1>2. CASE d.started
  BY <1>2 DEF DevStart
<1>3. CASE ~d.started
  BY <1>1, <1>3 DEF Devs, DevStart
<1> QED BY <1>2, <1>3

(* PWMIOC_STOP stops what is started *)
LEMMA DevStopEffect ==
  ASSUME NEW d \in Devs
  PROVE  /\ DevStop(d) \in Devs
         /\ DevStop(d).crefs = d.crefs
         /\ ~DevStop(d).started
         /\ DevStop(d).info = d.info
         /\ DevStop(d).tim = IF d.started THEN TimerStop(d.tim) ELSE d.tim
<1>1. d.tim \in Timers /\ TimerStop(d.tim) \in Timers /\ d.started \in BOOLEAN
  BY StopEffect DEF Devs
<1>2. CASE d.started
  BY <1>1, <1>2 DEF Devs, DevStop
<1>3. CASE ~d.started
  BY <1>3 DEF DevStop
<1> QED BY <1>2, <1>3

(* The limits that drv_motor_update() applies *)
LEMMA ClampRange ==
  /\ \A r \in Nat : Clamp(r) \in ARMED .. MAX
  /\ Clamp(ARMED) = ARMED
BY ThrottleAssumption DEF Clamp
-----------------------------------------------------------------------------
(* The device: every reference is accounted for, the timer is clocked      *)
(* exactly while there is one, and an output that is not started has a     *)
(* timer in reset                                                          *)
DeviceInv ==
  /\ dev.crefs = others + lost + (IF isOpen THEN 1 ELSE 0)
  /\ lost <= signals
  /\ dev.tim.clk <=> dev.crefs > 0
  /\ dev.crefs = 0 => dev.tim.frequency = 0
  /\ ~dev.started => ~dev.tim.cen /\ dev.tim.frequency = 0

(* The driver: where it stands says whether its descriptor is open, and    *)
(* the duty it keeps is the request within its limits                      *)
PathInv ==
  /\ isOpen => fd
  /\ pc \in {"set", "start", "push", "escmax", "escmin"} => isOpen
  /\ pc = "open" => ~isOpen
  /\ pc \in {"open", "set", "start", "errout"} => phase = "down"
  /\ pc \in {"push", "escmax", "escmin"} => phase = "live"
  /\ pc \in {"idle", "stop", "close"} => (isOpen <=> phase = "live")
  /\ duty = Clamp(dutys)

(* What a counting timer puts out, and what a start would put out, is      *)
(* within the limits unless another task had the last word                 *)
ThrottleInv ==
  /\ pc = "start" => dev.info # NoInfo
  /\ ~foreign => /\ dev.info # NoInfo => dev.info.duty \in ARMED .. MAX
                 /\ dev.tim.cen => dev.tim.ccr \in ARMED .. MAX

Steady == phase = "live" /\ pc \in {"idle", "push", "escmax", "escmin"}

(* The way to an output that nobody else controls: a timer set up but not  *)
(* running, the characteristics in the device and on the pins if it was    *)
(* still started, then a running timer with the last duty                  *)
SoleInv ==
  sole =>
    /\ pc = "set" => dev.tim.mode /\ dev.tim.frequency = 0
    /\ pc = "start" => /\ dev.tim.mode /\ dev.info = PwmInfo
                       /\ dev.started => /\ dev.tim.cen /\ dev.tim.ccr = duty
                                         /\ dev.tim.frequency = Frequency
    /\ Steady => /\ dev.tim.mode /\ dev.tim.cen /\ dev.started
                 /\ dev.tim.frequency = Frequency
    /\ Steady /\ pc = "idle" /\ ~dropped => dev.tim.ccr = duty

Inv == TypeOK /\ DeviceInv /\ PathInv /\ ThrottleInv /\ SoleInv

LEMMA InvInit == Init => Inv
<1> SUFFICES ASSUME Init PROVE Inv
  OBVIOUS
<1>1. NewDev \in Devs
  <2>1. ResetTimer \in Timers /\ 0 \in 0 .. CrefLimit - 1
    BY CrefLimitAssumption DEF ResetTimer, Timers
  <2> QED BY <2>1 DEF NewDev, Devs
<1>2. TypeOK
  <2>1. /\ dev \in Devs /\ dutys \in Requests \cup {ARMED, MIN, MAX} /\ duty \in Nat
        /\ others \in 0 .. MaxOthers /\ lost \in 0 .. MaxSignals /\ signals \in 0 .. MaxSignals
    BY <1>1, ThrottleAssumption, BoundsAssumption DEF Init
  <2> QED BY <2>1 DEF Init, TypeOK
<1>3. DeviceInv
  BY DEF Init, DeviceInv, NewDev, ResetTimer
<1>4. PathInv
  BY ClampRange DEF Init, PathInv
<1>5. ThrottleInv /\ SoleInv
  BY DEF Init, ThrottleInv, SoleInv, NewDev, ResetTimer, Steady
<1> QED BY <1>2, <1>3, <1>4, <1>5 DEF Inv

(* What the driver hands down is well-formed and within the limits *)
LEMMA PwmInfoOk ==
  ASSUME Inv
  PROVE  /\ PwmInfo \in Infos /\ PwmInfo.duty = duty /\ PwmInfo.frequency = Frequency
         /\ duty \in ARMED .. MAX /\ Frequency # 0
<1>1. dutys \in Nat
  BY ThrottleAssumption, RequestsAssumption DEF Inv, TypeOK
<1>2. duty \in ARMED .. MAX
  BY <1>1, ClampRange DEF Inv, PathInv
<1>3. duty \in Duties /\ Frequency \in Freqs /\ Frequency # 0
  BY <1>2, ThrottleAssumption, FrequencyAssumption, FreqsAssumption
<1> QED BY <1>2, <1>3 DEF PwmInfo, Infos

(* drv_pwm_update_info() that succeeds *)
LEMMA SetDoneEffect ==
  ASSUME Inv, SetDone
  PROVE  /\ isOpen /\ dev' \in Devs /\ ~foreign' /\ signals' = signals
         /\ dev'.crefs = dev.crefs /\ dev'.started = dev.started /\ dev'.info = PwmInfo
         /\ dev'.tim.clk = dev.tim.clk /\ dev'.tim.mode = dev.tim.mode
         /\ ~dev.started => dev'.tim = dev.tim
         /\ dev.started => /\ dev'.tim.ccr = duty
                           /\ dev'.tim.frequency = Frequency
                           /\ dev'.tim.cen <=> (dev.tim.cen \/ Frequency # dev.tim.frequency)
<1>1. dev \in Devs /\ dev.tim \in Timers /\ dev.started \in BOOLEAN /\ isOpen
  BY DEF Inv, TypeOK, Devs, SetDone, IoctlDone
<1>2. dev.tim.clk
  <2>1. dev.crefs > 0
    BY <1>1 DEF Inv, TypeOK, DeviceInv
  <2> QED BY <2>1 DEF Inv, DeviceInv
<1>3. PwmInfo \in Infos /\ PwmInfo.duty = duty /\ PwmInfo.frequency = Frequency
  BY PwmInfoOk
<1>4. dev' = DevSet(dev, PwmInfo) /\ ~foreign' /\ signals' = signals
  BY DEF SetDone, IoctlDone
<1>5. CASE dev.started
  <2> DEFINE y == TimerStart(dev.tim, PwmInfo)
  <2>1. /\ dev'.tim = y /\ dev' \in Devs
        /\ dev'.crefs = dev.crefs /\ dev'.started = dev.started /\ dev'.info = PwmInfo
    <3>1. dev \in Devs /\ PwmInfo \in Infos /\ dev.started
      BY <1>1, <1>3, <1>5
    <3> DEFINE z == DevSet(dev, PwmInfo)
    <3>2. /\ z \in Devs /\ z.crefs = dev.crefs /\ z.started = dev.started
          /\ z.info = PwmInfo
          /\ z.tim = IF dev.started THEN TimerStart(dev.tim, PwmInfo) ELSE dev.tim
      <4>1. z \in Devs
        BY <3>1, SetEffect
      <4>2. z.crefs = dev.crefs
        BY <3>1, SetEffect
      <4>3. z.started = dev.started
        BY <3>1, SetEffect
      <4>4. z.info = PwmInfo
        BY <3>1, SetEffect
      <4>5. z.tim = IF dev.started THEN TimerStart(dev.tim, PwmInfo) ELSE dev.tim
        BY <3>1, SetEffect
      <4> QED BY <4>1, <4>2, <4>3, <4>4, <4>5
    <3>3. dev' = z
      BY <1>4
    <3> HIDE DEF z
    <3> QED BY <3>1, <3>2, <3>3
  <2>2. PwmInfo \in Infos \cup {NoInfo}
    BY <1>3
  <2>3. y.clk = dev.tim.clk /\ y.mode = dev.tim.mode /\ y.frequency = PwmInfo.frequency
    BY <1>1, <2>2, StartEffect
  <2>4. y.ccr = PwmInfo.duty
    BY <1>1, <1>2, <2>2, StartEffect
  <2>5. y.cen <=> (dev.tim.cen \/ PwmInfo.frequency # dev.tim.frequency)
    BY <1>1, <1>2, <2>2, StartEffect
  <2> HIDE DEF y
  <2> QED BY <1>1, <1>3, <1>4, <1>5, <2>1, <2>3, <2>4, <2>5
<1>6. CASE ~dev.started
  BY <1>1, <1>3, <1>4, <1>6, SetEffect
<1> QED BY <1>1, <1>5, <1>6

(* It leaves the device consistent and its output within the limits *)
LEMMA SetDonePreserves ==
  ASSUME Inv, SetDone, UNCHANGED <<isOpen, others, lost>>
  PROVE  DeviceInv' /\ ThrottleInv'
<1>1. /\ isOpen /\ dev' \in Devs /\ ~foreign' /\ signals' = signals
      /\ dev'.crefs = dev.crefs /\ dev'.started = dev.started /\ dev'.info = PwmInfo
      /\ dev'.tim.clk = dev.tim.clk
      /\ ~dev.started => dev'.tim = dev.tim
      /\ dev.started => dev'.tim.ccr = duty
  BY SetDoneEffect
<1>2. PwmInfo.duty = duty /\ duty \in ARMED .. MAX /\ PwmInfo # NoInfo
  <2>1. PwmInfo.frequency # NoInfo.frequency
    BY PwmInfoOk DEF NoInfo
  <2> QED BY <2>1, PwmInfoOk
<1>3. dev.crefs > 0
  BY <1>1 DEF Inv, TypeOK, DeviceInv
<1>4. DeviceInv'
  BY <1>1, <1>3 DEF Inv, DeviceInv
<1>5. ThrottleInv'
  BY <1>1, <1>2 DEF Inv, DeviceInv, ThrottleInv
<1> QED BY <1>4, <1>5

(* A call that fails leaves the device alone *)
LEMMA FailsEffect ==
  ASSUME Inv, IoctlFails
  PROVE  dev' = dev /\ signals' \in 0 .. MaxSignals /\ signals' >= signals
BY BoundsAssumption DEF Inv, TypeOK, IoctlFails, SignalEnds

(* A close gives the driver's reference back or loses it to a signal *)
LEMMA CloseFdPreserves ==
  ASSUME Inv, CloseFd, ~isOpen', UNCHANGED <<others, foreign>>, pc' # "start"
  PROVE  /\ dev' \in Devs /\ signals' \in 0 .. MaxSignals /\ lost' \in 0 .. MaxSignals
         /\ DeviceInv' /\ ThrottleInv'
<1>0. /\ dev \in Devs /\ dev.tim \in Timers /\ others \in Nat /\ lost \in Nat
      /\ signals \in 0 .. MaxSignals /\ dev.crefs \in Nat /\ MaxSignals \in Nat
      /\ isOpen \in BOOLEAN
  BY BoundsAssumption, CrefLimitAssumption DEF Inv, TypeOK, Devs
<1>1. CASE isOpen /\ dev' = DevClose(dev) /\ UNCHANGED <<lost, signals>>
  <2>1. dev.crefs > 0 /\ dev.crefs = others + lost + 1
    BY <1>0, <1>1 DEF Inv, DeviceInv
  <2>2. /\ dev' \in Devs /\ dev'.crefs = dev.crefs - 1 /\ dev'.started = dev.started
        /\ dev'.info = dev.info
        /\ dev'.tim = IF dev.crefs = 1 THEN TimerShutdown(dev.tim) ELSE dev.tim
    BY <1>0, <1>1, <2>1, CloseEffect
  <2>3. CASE dev.crefs = 1
    <3>1. ~dev'.tim.clk /\ ~dev'.tim.cen /\ dev'.tim.frequency = 0 /\ dev'.crefs = 0
      BY <1>0, <2>2, <2>3, StopEffect
    <3> QED BY <1>0, <1>1, <2>1, <2>2, <3>1 DEF Inv, TypeOK, DeviceInv, ThrottleInv
  <2>4. CASE dev.crefs # 1
    BY <1>0, <1>1, <2>1, <2>2, <2>4 DEF Inv, TypeOK, DeviceInv, ThrottleInv
  <2> QED BY <2>3, <2>4
<1>2. CASE isOpen /\ SignalEnds /\ lost' = lost + 1 /\ UNCHANGED dev
  BY <1>0, <1>2 DEF Inv, TypeOK, DeviceInv, ThrottleInv, SignalEnds
<1>3. CASE ~isOpen /\ UNCHANGED <<dev, lost, signals>>
  BY <1>0, <1>3 DEF Inv, TypeOK, DeviceInv, ThrottleInv
<1> QED BY <1>1, <1>2, <1>3 DEF CloseFd

(* The steps that store a request change neither the device nor who may    *)
(* use it                                                                  *)
LEMMA RequestStep ==
  ASSUME Inv, MotorInit \/ (\E r \in Requests : MotorUpdate(r)) \/ EscInit \/ MotorDeinit
  PROVE  Inv'
<1>1. TypeOK'
  <2>1. duty' \in Nat
    BY ClampRange, ThrottleAssumption, RequestsAssumption
       DEF Inv, TypeOK, MotorInit, MotorUpdate, EscInit, MotorDeinit
  <2> QED BY <2>1 DEF Inv, TypeOK, MotorInit, MotorUpdate, EscInit, MotorDeinit, Goto
<1>2. DeviceInv'
  BY DEF Inv, DeviceInv, MotorInit, MotorUpdate, EscInit, MotorDeinit, Goto
<1>3. PathInv'
  BY ClampRange DEF Inv, TypeOK, PathInv, MotorInit, MotorUpdate, EscInit, MotorDeinit, Goto
<1>4. ThrottleInv'
  BY DEF Inv, ThrottleInv, MotorInit, MotorUpdate, EscInit, MotorDeinit, Goto
<1>5. SoleInv'
  BY DEF Inv, SoleInv, Steady, PwmInfo, MotorInit, MotorUpdate, EscInit, MotorDeinit, Goto
<1> QED BY <1>1, <1>2, <1>3, <1>4, <1>5 DEF Inv

(* drv_pwm_init(), which finds a device that is closed, open or full *)
LEMMA InitOpenStep ==
  ASSUME Inv, InitOpen
  PROVE  Inv'
<1>0. /\ dev \in Devs /\ dev.tim \in Timers /\ others \in Nat /\ lost \in Nat
      /\ signals \in 0 .. MaxSignals /\ dev.crefs \in Nat /\ MaxSignals \in Nat
      /\ ~isOpen /\ phase = "down" /\ pc = "open"
  BY BoundsAssumption, CrefLimitAssumption DEF Inv, TypeOK, Devs, PathInv, InitOpen
<1>1. CASE /\ CanOpen(dev) /\ dev' = DevOpen(dev) /\ fd' = TRUE /\ isOpen' = TRUE
           /\ sole' = (dev.crefs = 0) /\ Goto("set") /\ UNCHANGED signals
  <2>1. /\ dev' \in Devs /\ dev'.crefs = dev.crefs + 1 /\ dev'.started = dev.started
        /\ dev'.info = dev.info
        /\ dev'.tim = IF dev.crefs = 0 THEN TimerSetup(dev.tim) ELSE dev.tim
    BY <1>0, <1>1, OpenEffect
  <2>2. /\ TimerSetup(dev.tim).clk /\ TimerSetup(dev.tim).mode /\ ~TimerSetup(dev.tim).cen
        /\ TimerSetup(dev.tim).frequency = dev.tim.frequency
    BY <1>0 DEF Timers, TimerSetup
  <2>3. TypeOK'
    BY <1>1, <2>1 DEF Inv, TypeOK, InitOpen, Goto
  <2>4. DeviceInv'
    BY <1>0, <1>1, <2>1, <2>2 DEF Inv, DeviceInv, InitOpen
  <2>5. PathInv'
    BY <1>0, <1>1 DEF Inv, PathInv, InitOpen, Goto
  <2>6. ThrottleInv'
    BY <1>0, <1>1, <2>1, <2>2 DEF Inv, ThrottleInv, InitOpen, Goto
  <2>7. SoleInv'
    BY <1>0, <1>1, <2>1, <2>2 DEF Inv, DeviceInv, SoleInv, Steady, Goto
  <2> QED BY <2>3, <2>4, <2>5, <2>6, <2>7 DEF Inv
<1>2. CASE ~CanOpen(dev) /\ Goto("errout") /\ UNCHANGED <<dev, fd, isOpen, sole, signals>>
  BY <1>0, <1>2 DEF Inv, TypeOK, DeviceInv, PathInv, ThrottleInv, SoleInv, Steady, InitOpen, Goto
<1>3. CASE SignalEnds /\ Goto("errout") /\ UNCHANGED <<dev, fd, isOpen, sole>>
  BY <1>0, <1>3 DEF Inv, TypeOK, DeviceInv, PathInv, ThrottleInv, SoleInv, Steady, InitOpen, Goto,
                    SignalEnds
<1> QED BY <1>1, <1>2, <1>3 DEF InitOpen

(* drv_pwm_update_info() in drv_motor_init(): a device still started from  *)
(* an earlier session runs from here                                       *)
LEMMA InitSetStep ==
  ASSUME Inv, InitSet
  PROVE  Inv'
<1>0. isOpen /\ isOpen' /\ phase = "down" /\ pc = "set" /\ dev.started \in BOOLEAN
  BY DEF Inv, TypeOK, Devs, PathInv, InitSet
<1>1. CASE SetDone /\ dropped' = FALSE /\ Goto("start")
  <2>1. /\ dev' \in Devs /\ ~foreign' /\ signals' = signals
        /\ dev'.started = dev.started /\ dev'.info = PwmInfo
        /\ dev'.tim.mode = dev.tim.mode
        /\ dev.started => /\ dev'.tim.ccr = duty
                          /\ dev'.tim.frequency = Frequency
                          /\ dev'.tim.cen <=> (dev.tim.cen \/ Frequency # dev.tim.frequency)
    BY <1>1, SetDoneEffect
  <2>2. DeviceInv' /\ ThrottleInv'
    BY <1>1, SetDonePreserves DEF InitSet
  <2>3. TypeOK'
    BY <1>1, <2>1 DEF Inv, TypeOK, InitSet, Goto, SetDone
  <2>4. PathInv'
    BY <1>0, <1>1 DEF Inv, PathInv, InitSet, Goto
  <2>5. Frequency # 0 /\ PwmInfo' = PwmInfo
    BY PwmInfoOk DEF PwmInfo, InitSet
  <2>6. SoleInv'
    <3>1. ~Steady' /\ pc' = "start" /\ duty' = duty /\ sole' = sole
      BY <1>0, <1>1 DEF Steady, InitSet, Goto
    <3>2. sole => dev.tim.mode /\ dev.tim.frequency = 0
      BY <1>0 DEF Inv, SoleInv
    <3> QED BY <1>0, <2>1, <2>5, <3>1, <3>2 DEF SoleInv
  <2> QED BY <2>2, <2>3, <2>4, <2>6 DEF Inv
<1>2. CASE IoctlFails /\ Goto("errout") /\ UNCHANGED <<foreign, dropped>>
  <2>1. dev' = dev /\ signals' \in 0 .. MaxSignals /\ signals' >= signals
    BY <1>2, FailsEffect
  <2> QED BY <1>0, <1>2, <2>1
          DEF Inv, TypeOK, DeviceInv, PathInv, ThrottleInv, SoleInv, Steady, InitSet, Goto
<1> QED BY <1>1, <1>2 DEF InitSet

(* drv_pwm_start() in drv_motor_init(): a device that is not started has a *)
(* timer in reset, which any frequency makes run                           *)
LEMMA InitStartStep ==
  ASSUME Inv, InitStart
  PROVE  Inv'
<1>0. /\ isOpen /\ isOpen' /\ phase = "down" /\ pc = "start" /\ dev.started \in BOOLEAN
      /\ dev \in Devs /\ dev.tim \in Timers /\ dev.info \in Infos \cup {NoInfo}
  BY DEF Inv, TypeOK, Devs, PathInv, InitStart
<1>1. CASE IoctlDone(DevStart(dev)) /\ Return(0, "live")
  <2>1. /\ dev' \in Devs /\ dev'.crefs = dev.crefs /\ dev'.started /\ dev'.info = dev.info
        /\ dev'.tim = IF dev.started THEN dev.tim ELSE TimerStart(dev.tim, dev.info)
        /\ signals' = signals
    BY <1>0, <1>1, DevStartEffect DEF IoctlDone
  <2>2. dev.tim.clk /\ dev.crefs > 0
    BY <1>0 DEF Inv, TypeOK, DeviceInv
  <2> DEFINE y == TimerStart(dev.tim, dev.info)
  <2>3. y.clk = dev.tim.clk /\ y.mode = dev.tim.mode /\ y.frequency = dev.info.frequency
    BY <1>0, StartEffect
  <2>4. y.ccr = dev.info.duty
    BY <1>0, <2>2, StartEffect
  <2>5. y.cen <=> (dev.tim.cen \/ dev.info.frequency # dev.tim.frequency)
    BY <1>0, <2>2, StartEffect
  <2> HIDE DEF y
  <2>6. TypeOK'
    BY <1>1, <2>1 DEF Inv, TypeOK, InitStart, Return
  <2>7. DeviceInv'
    <3>1. dev'.tim.clk
      BY <2>1, <2>2, <2>3 DEF y
    <3> QED BY <1>0, <2>1, <2>2, <3>1 DEF Inv, DeviceInv, InitStart
  <2>8. PathInv'
    BY <1>0, <1>1 DEF Inv, PathInv, InitStart, Return
  <2>9. ThrottleInv'
    <3>1. pc' # "start" /\ foreign' = foreign /\ dev.info # NoInfo
      BY <1>0, <1>1 DEF Inv, ThrottleInv, InitStart, Return
    <3> QED BY <1>0, <2>1, <2>4, <3>1 DEF Inv, ThrottleInv, y
  <2>10. SoleInv'
    <3>1. /\ PwmInfo.duty = duty /\ PwmInfo.frequency = Frequency /\ Frequency # 0
      BY PwmInfoOk
    <3>2. SUFFICES ASSUME sole'
                   PROVE  /\ dev'.tim.mode /\ dev'.tim.cen /\ dev'.started
                          /\ dev'.tim.frequency = Frequency /\ dev'.tim.ccr = duty'
      BY <1>1 DEF SoleInv, Steady, Return
    <3>3. /\ dev.tim.mode /\ dev.info = PwmInfo
          /\ dev.started => /\ dev.tim.cen /\ dev.tim.ccr = duty
                            /\ dev.tim.frequency = Frequency
          /\ ~dev.started => dev.tim.frequency = 0
      BY <1>0, <3>2 DEF Inv, SoleInv, DeviceInv, InitStart
    <3> QED BY <2>1, <2>3, <2>4, <2>5, <3>1, <3>3 DEF InitStart, y
  <2> QED BY <2>6, <2>7, <2>8, <2>9, <2>10 DEF Inv
<1>2. CASE IoctlFails /\ Goto("errout")
  <2>1. dev' = dev /\ signals' \in 0 .. MaxSignals /\ signals' >= signals
    BY <1>2, FailsEffect
  <2> QED BY <1>0, <1>2, <2>1
          DEF Inv, TypeOK, DeviceInv, PathInv, ThrottleInv, SoleInv, Steady, InitStart, Goto
<1> QED BY <1>1, <1>2 DEF InitStart

(* The ways out of the driver: whatever close() returns, the descriptor is *)
(* gone                                                                    *)
LEMMA CloseStep ==
  ASSUME Inv, InitErrout \/ DeinitClose
  PROVE  Inv'
<1>1. ~isOpen' /\ pc' = "idle" /\ phase' \in {"failed", "down"} /\ UNCHANGED <<others, foreign>>
  BY DEF InitErrout, DeinitClose, Return
<1>2. /\ dev' \in Devs /\ signals' \in 0 .. MaxSignals /\ lost' \in 0 .. MaxSignals
      /\ DeviceInv' /\ ThrottleInv'
  <2>1. CASE CloseFd
    BY <1>1, <2>1, CloseFdPreserves
  <2>2. CASE InitErrout /\ ~fd /\ UNCHANGED <<dev, lost, signals>>
    <3>1. ~isOpen
      BY <2>2 DEF Inv, PathInv
    <3> QED BY <1>1, <2>2, <3>1 DEF Inv, TypeOK, DeviceInv, ThrottleInv, InitErrout
  <2> QED BY <2>1, <2>2 DEF InitErrout, DeinitClose
<1>3. TypeOK'
  BY <1>2 DEF Inv, TypeOK, InitErrout, DeinitClose, Return
<1>4. PathInv'
  BY <1>1 DEF Inv, PathInv, InitErrout, DeinitClose, Return
<1>5. SoleInv'
  BY <1>1 DEF SoleInv, Steady
<1> QED BY <1>2, <1>3, <1>4, <1>5 DEF Inv

(* drv_pwm_update_info() in drv_motor_update(), which drops the result *)
LEMMA PushEffect ==
  ASSUME Inv, Push, isOpen, UNCHANGED <<isOpen, others, lost>>, pc' # "start"
  PROVE  /\ dev' \in Devs /\ signals' \in 0 .. MaxSignals
         /\ foreign' \in BOOLEAN /\ dropped' \in BOOLEAN
         /\ DeviceInv' /\ ThrottleInv'
         /\ Steady /\ sole =>
              /\ dev'.tim.mode /\ dev'.tim.cen /\ dev'.started
              /\ dev'.tim.frequency = Frequency
              /\ ~dropped' => dev'.tim.ccr = duty
<1>1. CASE SetDone /\ dropped' = FALSE
  <2>1. /\ dev' \in Devs /\ ~foreign' /\ signals' = signals
        /\ dev'.started = dev.started /\ dev'.tim.mode = dev.tim.mode
        /\ dev.started => /\ dev'.tim.ccr = duty
                          /\ dev'.tim.frequency = Frequency
                          /\ dev'.tim.cen <=> (dev.tim.cen \/ Frequency # dev.tim.frequency)
    BY <1>1, SetDoneEffect
  <2>2. DeviceInv' /\ ThrottleInv'
    BY <1>1, SetDonePreserves
  <2>3. Steady /\ sole => dev.tim.mode /\ dev.tim.cen /\ dev.started
    BY DEF Inv, SoleInv
  <2> QED BY <1>1, <2>1, <2>2, <2>3 DEF Inv, TypeOK, SetDone
<1>2. CASE IoctlFails /\ dropped' = TRUE /\ UNCHANGED foreign
  <2>1. dev' = dev /\ signals' \in 0 .. MaxSignals /\ signals' >= signals
    BY <1>2, FailsEffect
  <2>2. DeviceInv' /\ ThrottleInv'
    BY <1>2, <2>1 DEF Inv, TypeOK, DeviceInv, ThrottleInv
  <2> QED BY <1>2, <2>1, <2>2 DEF Inv, TypeOK, SoleInv
<1> QED BY <1>1, <1>2 DEF Push

(* The pushes of drv_motor_update() and of the ESC calibration *)
LEMMA PushStep ==
  ASSUME Inv, UpdatePush \/ EscMax \/ EscMin
  PROVE  Inv'
<1>1. /\ isOpen /\ Push /\ UNCHANGED <<isOpen, others, lost, fd, sole, phase>> /\ pc' # "start"
      /\ phase = "live" /\ Steady
      /\ (pc' = "idle" /\ UNCHANGED <<dutys, duty>>) \/ (pc' = "escmin" /\ EscMax)
  BY DEF Inv, PathInv, Steady, UpdatePush, EscMax, EscMin, Return, Goto
<1>2. /\ dev' \in Devs /\ signals' \in 0 .. MaxSignals
      /\ foreign' \in BOOLEAN /\ dropped' \in BOOLEAN
      /\ DeviceInv' /\ ThrottleInv'
      /\ sole => /\ dev'.tim.mode /\ dev'.tim.cen /\ dev'.started
                 /\ dev'.tim.frequency = Frequency
                 /\ ~dropped' => dev'.tim.ccr = duty
  BY <1>1, PushEffect
<1>3. TypeOK'
  <2>1. duty' \in Nat /\ dutys' \in Requests \cup {ARMED, MIN, MAX}
    BY <1>1, ClampRange, ThrottleAssumption DEF Inv, TypeOK, EscMax
  <2>2. pc' \in {"idle", "escmin"} /\ result' \in {0, -1}
    BY <1>1 DEF Inv, TypeOK, UpdatePush, EscMax, EscMin, Return, Goto
  <2> QED BY <1>1, <1>2, <2>1, <2>2 DEF Inv, TypeOK
<1>4. PathInv'
  BY <1>1 DEF Inv, PathInv, EscMax
<1>5. SoleInv'
  BY <1>1, <1>2 DEF SoleInv, Steady
<1> QED BY <1>2, <1>3, <1>4, <1>5 DEF Inv

(* drv_pwm_stop() in drv_motor_deinit() *)
LEMMA DeinitStopStep ==
  ASSUME Inv, DeinitStop
  PROVE  Inv'
<1>0. pc = "stop" /\ pc' = "close" /\ UNCHANGED <<phase, result, sole, isOpen, others, lost, foreign>>
  BY DEF DeinitStop, Goto
<1>1. CASE IoctlDone(DevStop(dev))
  <2>1. /\ dev \in Devs /\ dev.tim \in Timers /\ dev.started \in BOOLEAN /\ isOpen
        /\ dev.crefs > 0
    BY <1>1 DEF Inv, TypeOK, Devs, IoctlDone, DeviceInv
  <2>2. /\ dev' \in Devs /\ dev'.crefs = dev.crefs /\ ~dev'.started /\ dev'.info = dev.info
        /\ dev'.tim = IF dev.started THEN TimerStop(dev.tim) ELSE dev.tim
        /\ signals' = signals
    BY <1>1, <2>1, DevStopEffect DEF IoctlDone
  <2>3. /\ TimerStop(dev.tim).clk = dev.tim.clk /\ ~TimerStop(dev.tim).cen
        /\ TimerStop(dev.tim).frequency = 0
    BY <2>1, StopEffect
  <2>4. (dev'.tim.clk <=> dev.tim.clk) /\ ~dev'.tim.cen /\ dev'.tim.frequency = 0
    BY <2>1, <2>2, <2>3 DEF Inv, DeviceInv
  <2>5. DeviceInv' /\ ThrottleInv'
    BY <1>0, <2>1, <2>2, <2>4 DEF Inv, DeviceInv, ThrottleInv
  <2>6. TypeOK'
    BY <1>0, <2>2 DEF Inv, TypeOK, DeinitStop
  <2> QED BY <1>0, <2>5, <2>6 DEF Inv, PathInv, SoleInv, Steady, DeinitStop
<1>2. CASE IoctlFails
  <2>1. dev' = dev /\ signals' \in 0 .. MaxSignals /\ signals' >= signals
    BY <1>2, FailsEffect
  <2> QED BY <1>0, <2>1
          DEF Inv, TypeOK, DeviceInv, PathInv, ThrottleInv, SoleInv, Steady, DeinitStop
<1> QED BY <1>1, <1>2 DEF DeinitStop

(* Another task that opens or closes the device does not touch the timer   *)
(* of a driver that has it open                                            *)
LEMMA OtherRefStep ==
  ASSUME Inv, OtherOpen \/ OtherClose,
         UNCHANGED <<dutys, duty, fd, isOpen, phase, pc, result, lost, signals, dropped>>
  PROVE  Inv'
<1>0. /\ dev \in Devs /\ dev.tim \in Timers /\ others \in Nat /\ lost \in Nat
      /\ dev.crefs \in Nat /\ isOpen \in BOOLEAN
      /\ dev.crefs = others + lost + (IF isOpen THEN 1 ELSE 0)
      /\ UNCHANGED <<foreign, sole>>
  BY CrefLimitAssumption DEF Inv, TypeOK, Devs, DeviceInv, OtherOpen, OtherClose
<1>1. /\ dev' \in Devs /\ dev'.started = dev.started /\ dev'.info = dev.info
      /\ dev'.crefs = others' + lost + (IF isOpen THEN 1 ELSE 0)
      /\ others' \in 0 .. MaxOthers
      /\ dev'.tim.clk <=> dev'.crefs > 0
      /\ dev'.crefs = 0 => dev'.tim.frequency = 0
      /\ isOpen => dev'.tim = dev.tim
      /\ ~isOpen => ~dev'.tim.cen \/ dev'.tim = dev.tim
      /\ dev'.tim.frequency \in {0, dev.tim.frequency}
  <2>1. CASE OtherOpen
    <3>1. /\ dev' \in Devs /\ dev'.crefs = dev.crefs + 1 /\ dev'.started = dev.started
          /\ dev'.info = dev.info
          /\ dev'.tim = IF dev.crefs = 0 THEN TimerSetup(dev.tim) ELSE dev.tim
      BY <1>0, <2>1, OpenEffect DEF OtherOpen
    <3>2. /\ TimerSetup(dev.tim).clk /\ ~TimerSetup(dev.tim).cen
          /\ TimerSetup(dev.tim).frequency = dev.tim.frequency
      BY <1>0 DEF Timers, TimerSetup
    <3>3. others' = others + 1 /\ others' \in 0 .. MaxOthers
      BY <2>1, BoundsAssumption DEF Inv, TypeOK, OtherOpen
    <3> QED BY <1>0, <3>1, <3>2, <3>3 DEF Inv, DeviceInv
  <2>2. CASE OtherClose
    <3>0. dev.crefs > 0 /\ others > 0
      BY <1>0, <2>2 DEF OtherClose
    <3>1. /\ dev' \in Devs /\ dev'.crefs = dev.crefs - 1 /\ dev'.started = dev.started
          /\ dev'.info = dev.info
          /\ dev'.tim = IF dev.crefs = 1 THEN TimerShutdown(dev.tim) ELSE dev.tim
      BY <1>0, <2>2, <3>0, CloseEffect DEF OtherClose
    <3>2. /\ ~TimerShutdown(dev.tim).clk /\ ~TimerShutdown(dev.tim).cen
          /\ TimerShutdown(dev.tim).frequency = 0
      BY <1>0, StopEffect
    <3>3. others' = others - 1 /\ others' \in 0 .. MaxOthers
      BY <2>2, BoundsAssumption DEF Inv, TypeOK, OtherClose
    <3> QED BY <1>0, <3>0, <3>1, <3>2, <3>3 DEF Inv, DeviceInv
  <2> QED BY <2>1, <2>2
<1>2. TypeOK'
  BY <1>0, <1>1 DEF Inv, TypeOK
<1>3. DeviceInv'
  BY <1>0, <1>1 DEF Inv, DeviceInv
<1>4. PathInv'
  BY DEF Inv, PathInv
<1>5. ThrottleInv'
  BY <1>0, <1>1 DEF Inv, ThrottleInv
<1>6. SoleInv'
  <2>1. SUFFICES ASSUME sole, pc \in {"set", "start"} \/ Steady
                 PROVE  isOpen
    BY <1>0, <1>1 DEF Inv, SoleInv, Steady, PwmInfo
  <2> QED BY <2>1 DEF Inv, PathInv, Steady
<1> QED BY <1>2, <1>3, <1>4, <1>5, <1>6 DEF Inv

(* Another task that controls the output takes it from the driver, but     *)
(* leaves the device consistent                                            *)
LEMMA OtherIoctlStep ==
  ASSUME Inv, OtherIoctl,
         UNCHANGED <<dutys, duty, fd, isOpen, phase, pc, result, lost, signals, dropped>>
  PROVE  Inv'
<1>0. /\ dev \in Devs /\ dev.tim \in Timers /\ dev.started \in BOOLEAN
      /\ dev.info \in Infos \cup {NoInfo} /\ dev.crefs > 0
      /\ foreign' = TRUE /\ sole' = FALSE /\ others' = others
  BY DEF Inv, TypeOK, Devs, DeviceInv, OtherIoctl
<1> DEFINE Consistent ==
      /\ dev' \in Devs /\ dev'.crefs = dev.crefs
      /\ dev.info # NoInfo => dev'.info # NoInfo
      /\ dev'.tim.clk <=> dev.tim.clk
      /\ ~dev'.started => ~dev'.tim.cen /\ dev'.tim.frequency = 0
<1>1. Consistent
  <2>1. ASSUME NEW i \in Infos, dev' = DevSet(dev, i)
        PROVE  Consistent
    <3>1. /\ dev' \in Devs /\ dev'.crefs = dev.crefs /\ dev'.started = dev.started
          /\ dev'.info = i
          /\ dev'.tim = IF dev.started THEN TimerStart(dev.tim, i) ELSE dev.tim
      BY <1>0, <2>1, SetEffect
    <3>2. TimerStart(dev.tim, i).clk = dev.tim.clk
      BY <1>0, StartEffect
    <3>3. i # NoInfo
      BY FreqsAssumption DEF Infos, NoInfo
    <3> QED BY <1>0, <3>1, <3>2, <3>3 DEF Inv, DeviceInv
  <2>2. CASE dev' = DevStart(dev)
    <3>1. /\ dev' \in Devs /\ dev'.crefs = dev.crefs /\ dev'.started /\ dev'.info = dev.info
          /\ dev'.tim = IF dev.started THEN dev.tim ELSE TimerStart(dev.tim, dev.info)
      BY <1>0, <2>2, DevStartEffect
    <3>2. TimerStart(dev.tim, dev.info).clk = dev.tim.clk
      BY <1>0, StartEffect
    <3> QED BY <1>0, <3>1, <3>2
  <2>3. CASE dev' = DevStop(dev)
    <3>1. /\ dev' \in Devs /\ dev'.crefs = dev.crefs /\ ~dev'.started /\ dev'.info = dev.info
          /\ dev'.tim = IF dev.started THEN TimerStop(dev.tim) ELSE dev.tim
      BY <1>0, <2>3, DevStopEffect
    <3>2. /\ TimerStop(dev.tim).clk = dev.tim.clk /\ ~TimerStop(dev.tim).cen
          /\ TimerStop(dev.tim).frequency = 0
      BY <1>0, StopEffect
    <3> QED BY <1>0, <3>1, <3>2 DEF Inv, DeviceInv
  <2> QED BY <2>1, <2>2, <2>3 DEF OtherIoctl
<1>2. TypeOK'
  BY <1>0, <1>1 DEF Inv, TypeOK
<1>3. DeviceInv'
  BY <1>0, <1>1 DEF Inv, DeviceInv
<1>4. PathInv' /\ ThrottleInv' /\ SoleInv'
  BY <1>0, <1>1 DEF Inv, PathInv, ThrottleInv, SoleInv
<1> QED BY <1>2, <1>3, <1>4 DEF Inv

(* Every step of the driver and of the other tasks preserves the invariant *)
LEMMA InvStep == Inv /\ [Next]_vars => Inv'
<1> SUFFICES ASSUME Inv, [Next]_vars PROVE Inv'
  OBVIOUS
<1>1. CASE Driver
  BY <1>1, RequestStep, InitOpenStep, InitSetStep, InitStartStep, CloseStep, PushStep,
     DeinitStopStep DEF Driver
<1>2. CASE Other
  BY <1>2, OtherRefStep, OtherIoctlStep DEF Other
<1>3. CASE UNCHANGED vars
  BY <1>3 DEF vars, Inv, TypeOK, DeviceInv, PathInv, ThrottleInv, SoleInv, Steady, PwmInfo
<1> QED BY <1>1, <1>2, <1>3 DEF Next

LEMMA InvAlways == Spec => []Inv
BY InvInit, InvStep, PTL DEF Spec

-----------------------------------------------------------------------------
(* The reference count of the PWM device and the motor driver agree at     *)
(* every step of every path, failures and signals included                 *)
THEOREM References == Spec => []ReferencesBalanced
<1>1. Inv => ReferencesBalanced
  BY DEF Inv, DeviceInv, ReferencesBalanced
<1> QED BY <1>1, InvAlways, PTL

(* No throttle outside the armed and the maximum one leaves the pins as    *)
(* long as the driver had the last word, whatever its client asks for      *)
THEOREM Throttle == Spec => []ThrottleBounded
<1>1. Inv => ThrottleBounded
  BY ThrottleAssumption, DutiesAssumption
     DEF Inv, TypeOK, Devs, Timers, ThrottleInv, ThrottleBounded, Pulsing
<1> QED BY <1>1, InvAlways, PTL

(* A driver that failed to initialise or was shut down holds nothing, and  *)
(* motors that nobody else drives are stopped                              *)
THEOREM Shutdown == Spec => []MotorsOffWhenDown
<1>1. Inv => MotorsOffWhenDown
  <2> SUFFICES ASSUME Inv, pc = "idle", phase # "live"
               PROVE  ~isOpen /\ ((others = 0 /\ lost = 0) => ~Pulsing(dev.tim))
    BY DEF MotorsOffWhenDown
  <2>1. ~isOpen
    BY DEF Inv, PathInv
  <2>2. ASSUME others = 0, lost = 0 PROVE ~dev.tim.clk
    BY <2>1, <2>2 DEF Inv, DeviceInv
  <2> QED BY <2>1, <2>2 DEF Pulsing
<1> QED BY <1>1, InvAlways, PTL

(* An initialised driver whose output nobody else controls puts out the    *)
(* last request, whatever state the device was left in before              *)
THEOREM Output == Spec => []OutputFollowsRequest
<1>1. Inv => OutputFollowsRequest
  <2> SUFFICES ASSUME Inv, pc = "idle", phase = "live", sole, ~dropped
               PROVE  Pulsing(dev.tim) /\ dev.tim.ccr = Clamp(dutys)
    BY DEF OutputFollowsRequest
  <2>1. dev.tim.mode /\ dev.tim.cen /\ dev.tim.ccr = duty
    BY DEF Inv, SoleInv, Steady
  <2>2. dev.tim.clk /\ duty = Clamp(dutys)
    BY DEF Inv, TypeOK, PathInv, DeviceInv
  <2> QED BY <2>1, <2>2 DEF Pulsing
<1> QED BY <1>1, InvAlways, PTL
=============================================================================

------------------------------- MODULE PwmOps -------------------------------
(***************************************************************************)
(* The operations of the PWM character device as functions on its state:   *)
(* the part of struct pwm_upperhalf_s that outlives a call, with the timer *)
(* below it.  PwmDev makes them atomic, PwmUpper splits them into the      *)
(* steps the code takes, Motor calls them from the motor driver.           *)
(* Source: src/nuttx/drivers/pwm/pwm.c.                                    *)
(***************************************************************************)
EXTENDS Stm32Pwm

CONSTANT CrefLimit  \* crefs is a uint8_t: 256 values

ASSUME CrefLimitAssumption == CrefLimit \in Nat /\ CrefLimit > 1

(* struct pwm_upperhalf_s without its semaphore *)
Devs == [crefs : 0 .. CrefLimit - 1, started : BOOLEAN,
         info : Infos \cup {NoInfo}, tim : Timers]

(* pwm_register(): a zeroed structure over a timer in reset *)
NewDev == [crefs |-> 0, started |-> FALSE, info |-> NoInfo, tim |-> ResetTimer]

(* The uint8_t sum that pwm_open() computes: it wraps to 0 *)
NextCref(c) == (c + 1) % CrefLimit

(* pwm_open() is refused with EMFILE when the count would wrap *)
CanOpen(d) == NextCref(d.crefs) # 0

(* pwm_open() with the semaphore: the first opener sets the timer up *)
DevOpen(d) ==
  [d EXCEPT !.crefs = NextCref(d.crefs),
            !.tim = IF NextCref(d.crefs) = 1 THEN TimerSetup(@) ELSE @]

(* Mutant: the last but one close already shuts down *)
DevCloseEarly(d) ==
  IF d.crefs > 2
  THEN [d EXCEPT !.crefs = @ - 1]
  ELSE [d EXCEPT !.crefs = 0, !.tim = TimerShutdown(@)]

(* pwm_close(): the last reference shuts the timer down; started is not    *)
(* touched                                                                 *)
DevClose(d) ==
  IF d.crefs > 1
  THEN [d EXCEPT !.crefs = @ - 1]
  ELSE [d EXCEPT !.crefs = 0, !.tim = TimerShutdown(@)]

(* PWMIOC_SETCHARACTERISTICS *)
DevSet(d, i) ==
  [d EXCEPT !.info = i, !.tim = IF d.started THEN TimerStart(@, i) ELSE @]

(* PWMIOC_START *)
DevStart(d) ==
  IF d.started THEN d
  ELSE [d EXCEPT !.tim = TimerStart(@, d.info), !.started = TRUE]

(* PWMIOC_STOP *)
DevStop(d) ==
  IF d.started THEN [d EXCEPT !.tim = TimerStop(@), !.started = FALSE] ELSE d
=============================================================================

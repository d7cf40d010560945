------------------------------ MODULE Stm32Pwm ------------------------------
(***************************************************************************)
(* The lower half of the PWM driver for the STM32 general purpose timer    *)
(* that drives the motors (TIM2), as the build without                     *)
(* CONFIG_PWM_PULSECOUNT compiles it:                                      *)
(* src/nuttx/arch/arm/src/stm32/stm32_pwm.c.                               *)
(*                                                                         *)
(* A timer is a record.  clk is the APB clock gate, mode is TRUE once      *)
(* pwm_configure() has put the channels into PWM mode, cen is TRUE while   *)
(* the counter and the outputs are enabled, arr and ccr are the frequency  *)
(* and the duty the registers were last programmed with, and frequency is  *)
(* the driver's own copy, priv->frequency.  Registers of a peripheral      *)
(* whose clock is gated ignore writes; the RCC reset line works either     *)
(* way.  None of the methods can fail for TIM2: pwm_duty_update() and      *)
(* pwm_frequency_update() return OK on every path.                         *)
(***************************************************************************)
EXTENDS Naturals

CONSTANTS Freqs,    \* the frequencies a client asks for, all positive
          Duties    \* the duty settings a client asks for

ASSUME FreqsAssumption  == Freqs \subseteq Nat \ {0}
ASSUME DutiesAssumption == Duties \subseteq Nat \ {0}

(* struct pwm_info_s as a client fills it in *)
Infos == [frequency : Freqs, duty : Duties]

(* upper->info as kmm_zalloc() leaves it *)
NoInfo == [frequency |-> 0, duty |-> 0]

Timers == [clk : BOOLEAN, mode : BOOLEAN, cen : BOOLEAN,
           arr : Freqs \cup {0}, ccr : Duties \cup {0},
           frequency : Freqs \cup {0}]

(* The timer after power-up: clock gated, every register in reset *)
ResetTimer == [clk |-> FALSE, mode |-> FALSE, cen |-> FALSE,
               arr |-> 0, ccr |-> 0, frequency |-> 0]

(* Pulses leave the pins only from a clocked, counting timer whose         *)
(* channels are in PWM mode                                                *)
Pulsing(tim) == tim.clk /\ tim.mode /\ tim.cen

(* pwm_stop(): the RCC reset clears the mode configuration with the rest   *)
TimerStop(tim) == [ResetTimer EXCEPT !.clk = tim.clk]

(* pwm_setup(): clock on, pins, pwm_configure() with the counter disabled  *)
TimerSetup(tim) == [tim EXCEPT !.clk = TRUE, !.mode = TRUE, !.cen = FALSE]

(* pwm_shutdown(): stop, then gate the clock *)
TimerShutdown(tim) == [TimerStop(tim) EXCEPT !.clk = FALSE]

(* pwm_duty_update() on every channel *)
TimerDuty(tim, i) == IF tim.clk THEN [tim EXCEPT !.ccr = i.duty] ELSE tim

(* pwm_timer(): frequency, duty, outputs and counter *)
TimerRun(tim, i) ==
  IF tim.clk THEN [tim EXCEPT !.arr = i.frequency, !.ccr = i.duty, !.cen = TRUE]
             ELSE tim

(* pwm_start(): an unchanged frequency only updates the duty *)
TimerStart(tim, i) ==
  IF i.frequency = tim.frequency
  THEN TimerDuty(tim, i)
  ELSE [TimerRun(tim, i) EXCEPT !.frequency = i.frequency]
=============================================================================

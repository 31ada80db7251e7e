------------------------------ MODULE AdcDemo ------------------------------
(***************************************************************************)
(* The ADC/DAC demo (rasta-adcdac/gradcdac-demo.c): a task selects one     *)
(* channel after the other, starts a conversion, waits for the semaphore   *)
(* its service routine releases, and keeps the last ten values of each     *)
(* channel.  A value is the channel the converter saw and a number.        *)
(***************************************************************************)
EXTENDS Integers, Sequences

CONSTANTS
  MaxConversions,  \* bound: conversions that are started
  MaxSpurious      \* bound: interrupts no conversion asked for

ASSUME AdcBounds == {MaxConversions, MaxSpurious} \subseteq Nat

VARIABLES
  adc_pc,      \* "init", "dac", "clear", "select", "start", "wait", "try" or "exit"
  adc_chan,    \* chan
  adc_adr,     \* the address output: chansel
  adc_sem,     \* adcdac_sem
  adc_core,    \* the converter: the conversion it makes or has made
  adc_irq,     \* an interrupt is pending
  adcvals, adc_filtered_val, adc_last_val,
  adc_started, \* conversions started so far
  adc_good,    \* history: those that gave a value
  adc_spurious \* interrupts no conversion asked for, so far

adc_vars == <<adc_pc, adc_chan, adc_adr, adc_sem, adc_core, adc_irq, adcvals,
              adc_filtered_val, adc_last_val, adc_started, adc_good, adc_spurious>>

MAX_CHANS == 4
AdcChans == 0 .. MAX_CHANS - 1

(* The two address lines are crossed.                                      *)
chansel(chan) == CASE chan = 1 -> 2 [] chan = 2 -> 1 [] OTHER -> chan

(* What conversion n gives.                                                *)
Sample(n) == 500 * n

weight == <<4500, 1500, 1000, 1000, 500, 500, 500, 200, 200, 100>>

(* The sum over the ten values: those there are not yet are zero.          *)
Weighted(vals, i) == IF i \in DOMAIN vals THEN Sample(vals[i].n) * weight[i] ELSE 0

adc_calc(vals) ==
  LET w(i) == Weighted(vals, i)
  IN  (w(1) + w(2) + w(3) + w(4) + w(5) + w(6) + w(7) + w(8) + w(9) + w(10)) \div 10000

AdcInit ==
  /\ adc_pc = "init" /\ adc_chan = 0 /\ adc_adr = 0
  /\ adc_sem = 0 /\ adc_irq = FALSE
  /\ adc_core = [state |-> "idle", sel |-> 0, n |-> 0]
  /\ adcvals = [c \in AdcChans |-> <<>>]
  /\ adc_filtered_val = [c \in AdcChans |-> 0]
  /\ adc_last_val = [c \in AdcChans |-> 0]
  /\ adc_started = 0 /\ adc_good = 0 /\ adc_spurious = 0

AdcValues == <<adcvals, adc_filtered_val, adc_last_val, adc_good>>

(* The devices are opened, the semaphore and the task are made.            *)
AdcOpen ==
  /\ adc_pc = "init" /\ adc_pc' \in {"dac", "exit"}
  /\ UNCHANGED <<adc_chan, adc_adr, adc_sem, adc_core, adc_irq, AdcValues, adc_started, adc_spurious>>

(* One conversion of the DAC, whose status is polled.                      *)
AdcDac ==
  /\ adc_pc = "dac" /\ adc_pc' \in {"clear", "exit"}
  /\ adc_adr' = 0
  /\ UNCHANGED <<adc_chan, adc_sem, adc_core, adc_irq, AdcValues, adc_started, adc_spurious>>

AdcClear ==
  /\ adc_pc = "clear" /\ adc_pc' = "select"
  /\ adc_sem' = 0
  /\ UNCHANGED <<adc_chan, adc_adr, adc_core, adc_irq, AdcValues, adc_started, adc_spurious>>

AdcSelect ==
  /\ adc_pc = "select" /\ adc_pc' = "start"
  /\ adc_adr' = chansel(adc_chan)
  /\ UNCHANGED <<adc_chan, adc_sem, adc_core, adc_irq, AdcValues, adc_started, adc_spurious>>

(* A converter that is busy does not start again.                          *)
AdcStart ==
  /\ adc_pc = "start" /\ adc_pc' = "wait"
  /\ adc_started < MaxConversions /\ adc_started' = adc_started + 1
  /\ adc_core' = IF adc_core.state = "ongoing" THEN adc_core
                 ELSE [state |-> "ongoing", sel |-> adc_adr, n |-> adc_started']
  /\ UNCHANGED <<adc_chan, adc_adr, adc_sem, adc_irq, AdcValues, adc_spurious>>

AdcWait ==
  /\ adc_pc = "wait" /\ adc_pc' = "try"
  /\ adc_sem = 1 /\ adc_sem' = 0
  /\ UNCHANGED <<adc_chan, adc_adr, adc_core, adc_irq, AdcValues, adc_started, adc_spurious>>

NextChan == adc_chan' = (adc_chan + 1) % MAX_CHANS /\ adc_pc' = "clear"

(* The values move up; the oldest of ten goes.                             *)
Newest(v, vals) == SubSeq(<<v>> \o vals, 1, IF Len(vals) < 10 THEN Len(vals) + 1 ELSE 10)

Stored ==
  /\ adcvals' = [adcvals EXCEPT ![adc_chan] = Newest([sel |-> adc_core.sel, n |-> adc_core.n], @)]
  /\ adc_filtered_val' = [adc_filtered_val EXCEPT ![adc_chan] = adc_calc(adcvals'[adc_chan])]
  /\ adc_last_val' = [adc_last_val EXCEPT ![adc_chan] = Sample(adc_core.n)]
  /\ adc_good' = adc_good + 1

AdcTryMovesOn ==                              \* mutant: does not wait again
  /\ adc_pc = "try"
  /\ IF adc_core.state = "done" THEN Stored ELSE UNCHANGED AdcValues
  /\ NextChan
  /\ UNCHANGED <<adc_adr, adc_sem, adc_core, adc_irq, adc_started, adc_spurious>>

(* A value, a failure, or not yet: then the task waits again.              *)
AdcTry ==
  /\ adc_pc = "try"
  /\ \/ adc_core.state = "done" /\ Stored /\ NextChan
     \/ adc_core.state = "failed" /\ NextChan /\ UNCHANGED AdcValues
     \/ adc_core.state = "ongoing" /\ adc_pc' = "wait" /\ UNCHANGED <<adc_chan, AdcValues>>
  /\ UNCHANGED <<adc_adr, adc_sem, adc_core, adc_irq, adc_started, adc_spurious>>

-----------------------------------------------------------------------------
(* The converter.                                                          *)
AdcComplete ==
  /\ adc_core.state = "ongoing"
  /\ \E how \in {"done", "failed"} : adc_core' = [adc_core EXCEPT !.state = how]
  /\ adc_irq' = TRUE
  /\ UNCHANGED <<adc_pc, adc_chan, adc_adr, adc_sem, AdcValues, adc_started, adc_spurious>>

AdcSpurious ==
  /\ adc_spurious < MaxSpurious /\ adc_spurious' = adc_spurious + 1
  /\ adc_irq' = TRUE
  /\ UNCHANGED <<adc_pc, adc_chan, adc_adr, adc_sem, adc_core, AdcValues, adc_started>>

adc_isr ==
  /\ adc_irq /\ adc_irq' = FALSE
  /\ adc_sem' = 1
  /\ UNCHANGED <<adc_pc, adc_chan, adc_adr, adc_core, AdcValues, adc_started, adc_spurious>>

AdcTask == AdcOpen \/ AdcDac \/ AdcClear \/ AdcSelect \/ AdcStart \/ AdcWait \/ AdcTry
AdcNext == AdcTask \/ AdcComplete \/ AdcSpurious \/ adc_isr

AdcSpec == AdcInit /\ [][AdcNext]_adc_vars

-----------------------------------------------------------------------------
AdcTypeOK ==
  /\ adc_pc \in {"init", "dac", "clear", "select", "start", "wait", "try", "exit"}
  /\ {adc_chan, adc_adr} \subseteq AdcChans /\ adc_sem \in 0 .. 1 /\ adc_irq \in BOOLEAN
  /\ adc_core \in [state : {"idle", "ongoing", "done", "failed"}, sel : AdcChans, n : 0 .. MaxConversions]
  /\ \A c \in AdcChans : Len(adcvals[c]) <= 10 /\ adc_last_val[c] \in Nat
  /\ adc_started \in 0 .. MaxConversions /\ adc_good \in 0 .. MaxConversions
  /\ adc_spurious \in 0 .. MaxSpurious

(* Whenever interrupts come, also ones no conversion asked for: a value is *)
(* kept for the channel the converter saw, the newest first and each once, *)
(* and the task does not wait for an interrupt that has been.              *)
AdcKept ==
  /\ \A c \in AdcChans :
       /\ \A i \in DOMAIN adcvals[c] : adcvals[c][i].sel = chansel(c)
       /\ \A i \in 2 .. Len(adcvals[c]) : adcvals[c][i].n < adcvals[c][i - 1].n
  /\ adc_pc = "wait" /\ adc_sem = 0 => adc_core.state = "ongoing" \/ adc_irq

(* And the filter stays within the values.                                 *)
AdcRight ==
  /\ AdcKept
  /\ \A c \in AdcChans : /\ (adc_last_val[c] * 45) \div 100 <= adc_filtered_val[c]
                         /\ adc_filtered_val[c] <= adc_last_val[c]
=============================================================================

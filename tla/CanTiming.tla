----------------------------- MODULE CanTiming -----------------------------
(***************************************************************************)
(* The CAN bit timing calculator (can/calc_can_btrs.c): for each bit rate  *)
(* of its list it looks for a divider and a number of time quanta that     *)
(* give the rate, for the OC-CAN core and for the GRCAN core.  A state is  *)
(* the list position and what was found for it.                            *)
(***************************************************************************)
EXTENDS Integers, Sequences

CONSTANT CoreClocks  \* clock frequencies in Hz, the argument of the program

ASSUME ClocksAssumption == CoreClocks \subseteq Nat \ {0}

VARIABLES
  clock_hz,  \* the clock
  step,      \* i: the place in steplist, after it 0
  occan,     \* the OC-CAN registers found for that rate, or the error
  grcan      \* the GRCAN fields

ct_vars == <<clock_hz, step, occan, grcan>>

steplist == <<1000000, 800000, 500000, 250000, 125000, 75000, 50000, 25000, 10000>>

Abs(n) == IF n < 0 THEN -n ELSE n

(* The search: a rate is tried with every number of quanta, each with the  *)
(* divider rounded down and rounded up; the last of the best is taken.     *)
(* Both loops count half quanta, odd ones round up.                        *)
Quanta(half) == 1 + half \div 2
DividerDown(clock, rate, half) ==             \* mutant: never rounds up
  clock \div (Quanta(half) * rate)
Divider(clock, rate, half) == clock \div (Quanta(half) * rate) + (half % 2)
RateError(clock, rate, brp, quanta) == Abs(rate - clock \div (brp * quanta))

WorstError == 1000000000

Best(clock, rate, halves, dividers) ==
  LET usable == {h \in halves : Divider(clock, rate, h) \in dividers}
      Err(h) == RateError(clock, rate, Divider(clock, rate, h), Quanta(h))
      half   == CHOOSE h \in usable : \A k \in usable : Err(h) < Err(k) \/ (Err(h) = Err(k) /\ k <= h)
  IN  IF usable = {} THEN [error |-> WorstError, tseg |-> 0, brp |-> 0]
      ELSE [error |-> Err(half), tseg |-> half \div 2, brp |-> Divider(clock, rate, half)]

(* More than a tenth off is no good.                                       *)
TooFar(best, rate) == best.error # 0 /\ rate \div best.error < 10

Clamp(n, low, high) == IF n < low THEN low ELSE IF n > high THEN high ELSE n

(* The quanta before and after the sample point, in per cent.              *)
Segments(tseg, sampl_pt, min2, max1, max2) ==
  LET seg2 == Clamp(tseg - (sampl_pt * (tseg + 1)) \div 100, min2, max2)
      seg1 == tseg - seg2 - 2
  IN  IF seg1 > max1 THEN [tseg1 |-> max1, tseg2 |-> tseg - max1 - 2]
                     ELSE [tseg1 |-> seg1, tseg2 |-> seg2]

SamplePoint(rate, default) == IF rate > 750000 \/ rate < 11250 THEN 75 ELSE default

RateAllowed(rate) == rate >= 5000 /\ rate <= 1000000

OccanDividers == 1 .. 64

occan_calc_speedregs(core_hz, rate) ==
  LET best == Best(core_hz \div 2, rate, 4 .. 49, OccanDividers)
      segs == Segments(best.tseg, SamplePoint(rate, 80), 0, 15, 7)
      sjw  == IF rate < 112500 THEN 1 ELSE 0
  IN  IF ~RateAllowed(rate) THEN [ret |-> -1, btr0 |-> 0, btr1 |-> 0]
      ELSE IF TooFar(best, rate) THEN [ret |-> -2, btr0 |-> 0, btr1 |-> 0]
      ELSE [ret |-> 0, btr0 |-> (sjw * 64) + ((best.brp - 1) % 64), btr1 |-> segs.tseg2 * 16 + segs.tseg1]

(* A divider of the GRCAN core is a scaler of up to 256 and a power of two *)
(* up to 8: the larger it is, the fewer there are.                         *)
GrcanDividers ==
  {brp \in 1 .. 256 * 8 : /\ brp > 256 => brp % 2 = 0
                          /\ brp > 256 * 2 => brp % 4 = 0
                          /\ brp > 256 * 4 => brp % 8 = 0}

Bpr(best_brp) ==
  IF best_brp <= 256 THEN 0 ELSE IF best_brp <= 512 THEN 1 ELSE IF best_brp <= 1024 THEN 2 ELSE 3

Prescalers == <<1, 2, 4, 8>>

grcan_calc_timing(baud, core_hz, sampl_pt) ==
  LET default == IF sampl_pt \in 50 .. 99 THEN sampl_pt ELSE 90
      best == Best(core_hz, baud, 10 .. 49, GrcanDividers)
      segs == Segments(best.tseg, SamplePoint(baud, default), 2, 14, 8)
      bpr  == Bpr(best.brp - 1)
  IN  IF ~RateAllowed(baud) THEN [ret |-> -1]
      ELSE IF TooFar(best, baud) THEN [ret |-> -2]
      ELSE [ret |-> 0, scaler |-> best.brp \div Prescalers[bpr + 1] - 1, bpr |-> bpr,
            ps1 |-> segs.tseg1 + 1, ps2 |-> segs.tseg2, rsj |-> 1]

-----------------------------------------------------------------------------
(* What print_timing and print_grtiming make of the registers.             *)
OccanRate(core_hz, regs) ==
  ((core_hz \div 2) \div ((regs.btr0 % 64) + 1)) \div (3 + (regs.btr1 % 16) + ((regs.btr1 \div 16) % 8))

GrcanRate(core_hz, timing) ==
  ((core_hz \div (timing.scaler + 1)) \div Prescalers[timing.bpr + 1]) \div (2 + timing.ps1 + timing.ps2)

CtInit ==
  /\ clock_hz \in CoreClocks
  /\ step = 1
  /\ occan = [ret |-> -1] /\ grcan = [ret |-> -1]

(* main: both calculators for one rate after the other.                    *)
CtStep ==
  /\ step \in 1 .. Len(steplist)
  /\ occan' = occan_calc_speedregs(clock_hz, steplist[step])
  /\ grcan' = grcan_calc_timing(steplist[step], clock_hz, 80)
  /\ step' = step + 1
  /\ UNCHANGED clock_hz

CtSpec == CtInit /\ [][CtStep]_ct_vars

-----------------------------------------------------------------------------
CtTypeOK ==
  /\ clock_hz \in CoreClocks /\ step \in 1 .. Len(steplist) + 1
  /\ occan.ret \in -2 .. 0 /\ grcan.ret \in -2 .. 0
  /\ occan.ret = 0 => occan.btr0 \in 0 .. 255 /\ occan.btr1 \in 0 .. 127
  /\ grcan.ret = 0 =>
       /\ grcan.scaler \in 0 .. 255 /\ grcan.bpr \in 0 .. 3
       /\ grcan.ps1 \in 1 .. 15 /\ grcan.ps2 \in 2 .. 8

(* The registers, once cut to their fields and read again, give a rate     *)
(* within a tenth that no other registers come closer to (of the GRCAN     *)
(* core, none that divide by up to 256), and the search gives up only when *)
(* no registers come within a tenth or, for the OC-CAN core, when the      *)
(* clock is too fast for the largest divider: then the closest registers   *)
(* are not looked at, though they may be good enough.                      *)
TimingBest ==
  step > 1 =>
    LET rate == steplist[step - 1]
        OccanErr(brp, quanta) == RateError(clock_hz \div 2, rate, brp, quanta)
        GrcanErr(brp, quanta) == RateError(clock_hz, rate, brp, quanta)
    IN  /\ occan.ret = 0 =>
             LET err == Abs(rate - OccanRate(clock_hz, occan)) IN
               10 * err <= rate /\ \A brp \in 1 .. 64, quanta \in 3 .. 25 : err <= OccanErr(brp, quanta)
        /\ occan.ret = -2 => \/ \A brp \in 1 .. 64, quanta \in 3 .. 25 : 10 * OccanErr(brp, quanta) > rate
                             \/ (clock_hz \div 2) \div (64 * 25) > rate
        /\ grcan.ret = 0 =>
             LET err == Abs(rate - GrcanRate(clock_hz, grcan)) IN
               10 * err <= rate /\ \A brp \in 1 .. 256, quanta \in 6 .. 25 : err <= GrcanErr(brp, quanta)
        /\ grcan.ret = -2 => \A brp \in 1 .. 256, quanta \in 6 .. 25 : 10 * GrcanErr(brp, quanta) > rate
=============================================================================

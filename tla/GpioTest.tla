------------------------------ MODULE GpioTest ------------------------------
(***************************************************************************)
(* The GPIO test (rasta-adcdac/gpio-demo.c): of two ports that are wired   *)
(* together one drives the line and the other takes interrupts, first one  *)
(* way round and then the other.  The task and the service routine share   *)
(* the counters; the task only ever waits two ticks.  The first failure    *)
(* ends the program.                                                       *)
(***************************************************************************)
EXTENDS Integers, Sequences

CONSTANT LevelStops  \* gpioTestIsrStopCnt of the level tests (63)

ASSUME GpioStops == LevelStops \in Nat \ {0}

VARIABLES
  gpio_round,  \* which of the two ports is portA
  gpio_pc,     \* "levels", "arm", "settle", "drive", "obtain", "check", "off", "close" or "end"
  gpio_part,   \* the interrupt test the task is at, 0 before them
  gpio_err,    \* err, then what gpioTestInternal returns
  gpio_val,    \* the level of the line
  gpio_edge,   \* an edge has come that no interrupt was taken for
  gpio_mask,   \* port_config.mask of portA
  gpio_irqs,   \* the ports whose interrupt is enabled
  gpio_sem,    \* gpio_sem: "none", or its count
  gpioTestIsrStatus, gpioTestIsrStatusErrCnt, gpioTestIsrStopCnt, gpioTestIsrCnt,
  gpio_took,   \* history: interrupts that were taken in each part of a round
  gpio_stray   \* history: an interrupt without the semaphore

gpio_counters == <<gpioTestIsrStatus, gpioTestIsrStatusErrCnt, gpioTestIsrStopCnt, gpioTestIsrCnt>>
gpio_vars == <<gpio_round, gpio_pc, gpio_part, gpio_err, gpio_val, gpio_edge, gpio_mask,
               gpio_irqs, gpio_sem, gpio_counters, gpio_took, gpio_stray>>

(* The four interrupt tests: what is waited for, and for how many.         *)
Parts ==
  <<[level |-> TRUE,  pol |-> 0, stops |-> LevelStops],
    [level |-> TRUE,  pol |-> 1, stops |-> LevelStops],
    [level |-> FALSE, pol |-> 0, stops |-> 0],
    [level |-> FALSE, pol |-> 1, stops |-> 0]>>

Part == Parts[gpio_part]

GpioInit ==
  /\ gpio_round = 1 /\ gpio_pc = "levels" /\ gpio_part = 0 /\ gpio_err = 0
  /\ gpio_val = 0 /\ gpio_edge = FALSE /\ gpio_mask = 0 /\ gpio_irqs = {}
  /\ gpio_sem = "none"
  /\ gpioTestIsrStatus = -1 /\ gpioTestIsrStatusErrCnt = 0
  /\ gpioTestIsrStopCnt = 0 /\ gpioTestIsrCnt = 0
  /\ gpio_took = <<0, 0, 0, 0>> /\ gpio_stray = FALSE

Fails(code) == gpio_err' = code /\ gpio_pc' = "close"

(* The ports are set up and each drives the other: a bad cable is noticed. *)
(* A call of the driver may fail before the counters are set (-1), or      *)
(* later (-9, -60).                                                        *)
GpioLevels ==
  /\ gpio_pc = "levels"
  /\ \/ /\ Fails(-1)
        /\ UNCHANGED <<gpio_part, gpio_val, gpio_mask, gpio_counters, gpio_took>>
     \/ /\ gpio_mask' = 0 /\ gpio_took' = <<0, 0, 0, 0>>
        /\ gpioTestIsrStatus' = -1 /\ gpioTestIsrStatusErrCnt' = 0
        /\ gpioTestIsrStopCnt' = 0 /\ gpioTestIsrCnt' = 0
        /\ \/ \E code \in {-9, -12, -22, -33, -42, -60} : Fails(code) /\ UNCHANGED <<gpio_part, gpio_val>>
           \/ /\ gpio_pc' = "arm" /\ gpio_part' = 1 /\ gpio_val' = 1 /\ UNCHANGED gpio_err
  /\ UNCHANGED <<gpio_round, gpio_edge, gpio_irqs, gpio_sem, gpio_stray>>

(* portA is configured and unmasked, the counters are set, the first part  *)
(* creates the semaphore, and at last the interrupt is enabled; each of    *)
(* the calls may fail.                                                     *)
GpioArm ==
  /\ gpio_pc = "arm"
  /\ gpio_mask' = 1 /\ gpio_edge' = FALSE
  /\ \/ Fails(-63) /\ UNCHANGED <<gpio_irqs, gpio_sem, gpio_counters>>
     \/ /\ gpioTestIsrStatus' = 0 /\ gpioTestIsrStatusErrCnt' = 0
        /\ gpioTestIsrStopCnt' = Part.stops /\ gpioTestIsrCnt' = 0
        /\ \/ gpio_part = 1 /\ Fails(-1) /\ UNCHANGED <<gpio_irqs, gpio_sem>>
           \/ /\ gpio_sem' = IF gpio_part = 1 THEN "0" ELSE gpio_sem
              /\ \/ Fails(-66) /\ UNCHANGED gpio_irqs
                 \/ gpio_pc' = "settle" /\ gpio_irqs' = gpio_irqs \cup {gpio_round} /\ UNCHANGED gpio_err
  /\ UNCHANGED <<gpio_round, gpio_part, gpio_val, gpio_took, gpio_stray>>

(* After two ticks there must not have been an interrupt; what an earlier  *)
(* part has left in the semaphore is taken away.                           *)
GpioSettle ==
  /\ gpio_pc = "settle"
  /\ IF gpioTestIsrCnt # 0 THEN Fails(-67) /\ UNCHANGED gpio_sem
     ELSE gpio_pc' = "drive" /\ gpio_sem' = "0" /\ UNCHANGED gpio_err
  /\ UNCHANGED <<gpio_round, gpio_part, gpio_val, gpio_edge, gpio_mask, gpio_irqs,
                 gpio_counters, gpio_took, gpio_stray>>

(* portB drives the level that is waited for.  If the driver says it could *)
(* not, whatever became of the line, the test is left at once (-68, -83,   *)
(* -103, -123; here all -68), with the interrupt enabled.                  *)
GpioDrive ==
  /\ gpio_pc = "drive"
  /\ \/ /\ gpio_val' = Part.pol /\ gpio_edge' = (~Part.level /\ gpio_val # Part.pol)
        /\ \/ gpio_pc' = "obtain" /\ UNCHANGED gpio_err
           \/ Fails(-68)
     \/ Fails(-68) /\ UNCHANGED <<gpio_val, gpio_edge>>
  /\ UNCHANGED <<gpio_round, gpio_part, gpio_mask, gpio_irqs, gpio_sem,
                 gpio_counters, gpio_took, gpio_stray>>

(* The semaphore, or two ticks have passed: on a slow bus at any time.     *)
GpioObtain ==
  /\ gpio_pc = "obtain" /\ gpio_pc' = "check"
  /\ \/ gpio_sem = "1" /\ gpio_sem' = "0" /\ gpio_err' = 0
     \/ gpio_sem = "0" /\ gpio_err' = -70 /\ UNCHANGED gpio_sem
  /\ UNCHANGED <<gpio_round, gpio_part, gpio_val, gpio_edge, gpio_mask, gpio_irqs,
                 gpio_counters, gpio_took, gpio_stray>>

GpioCheckReturns ==                           \* mutant: an error leaves the interrupt enabled
  /\ gpio_pc = "check"
  /\ IF gpio_err # 0 \/ gpio_counters # <<-11, 0, 0, Part.stops + 1>>
       THEN Fails(-71) /\ UNCHANGED gpio_part
       ELSE /\ gpio_part' = IF gpio_part = Len(Parts) THEN gpio_part ELSE gpio_part + 1
            /\ gpio_pc' = IF gpio_part = Len(Parts) THEN "close" ELSE "arm"
            /\ UNCHANGED gpio_err
  /\ UNCHANGED <<gpio_round, gpio_val, gpio_edge, gpio_mask, gpio_irqs, gpio_sem,
                 gpio_counters, gpio_took, gpio_stray>>

GpioCheck ==
  /\ gpio_pc = "check"
  /\ IF gpio_err # 0 \/ gpio_counters # <<-11, 0, 0, Part.stops + 1>>
       THEN /\ gpio_err' = IF gpio_err = 0 THEN -71 ELSE gpio_err
            /\ gpio_pc' = "off" /\ UNCHANGED gpio_part
       ELSE /\ gpio_part' = IF gpio_part = Len(Parts) THEN gpio_part ELSE gpio_part + 1
            /\ gpio_pc' = IF gpio_part = Len(Parts) THEN "close" ELSE "arm"
            /\ UNCHANGED gpio_err
  /\ UNCHANGED <<gpio_round, gpio_val, gpio_edge, gpio_mask, gpio_irqs, gpio_sem,
                 gpio_counters, gpio_took, gpio_stray>>

GpioOff ==
  /\ gpio_pc = "off" /\ gpio_pc' = "close"
  /\ gpio_irqs' = gpio_irqs \ {gpio_round}
  /\ UNCHANGED <<gpio_round, gpio_part, gpio_err, gpio_val, gpio_edge, gpio_mask, gpio_sem,
                 gpio_counters, gpio_took, gpio_stray>>

(* gpioTest: the ports are closed and the semaphore goes; then the other   *)
(* way round.                                                              *)
GpioClose ==
  /\ gpio_pc = "close"
  /\ gpio_sem' = "none"
  /\ IF gpio_round = 1 /\ gpio_err = 0
       THEN gpio_round' = 2 /\ gpio_pc' = "levels" /\ gpio_part' = 0
       ELSE gpio_pc' = "end" /\ UNCHANGED <<gpio_round, gpio_part>>
  /\ UNCHANGED <<gpio_err, gpio_val, gpio_edge, gpio_mask, gpio_irqs,
                 gpio_counters, gpio_took, gpio_stray>>

(* What makes the core ask for an interrupt.                               *)
Asserted ==
  gpio_mask = 1 /\ gpio_part > 0 /\ (IF Part.level THEN gpio_val = Part.pol ELSE gpio_edge)

GpioReleased ==
  /\ gpio_sem' = IF gpio_sem = "none" THEN "none" ELSE "1"
  /\ gpio_stray' = (gpio_stray \/ gpio_sem = "none")

gpioTestIsrA(arg) ==
  /\ Asserted /\ arg \in gpio_irqs
  /\ gpio_edge' = FALSE
  /\ gpioTestIsrCnt' = gpioTestIsrCnt + 1
  /\ gpio_took' = [gpio_took EXCEPT ![gpio_part] = @ + 1]
  /\ \/ /\ gpioTestIsrStatus < 0
        /\ gpioTestIsrStatusErrCnt' = gpioTestIsrStatusErrCnt + 1
        /\ GpioReleased
        /\ UNCHANGED <<gpioTestIsrStatus, gpioTestIsrStopCnt, gpio_mask, gpio_irqs>>
     \/ /\ gpioTestIsrStatus >= 0 /\ arg # gpio_round
        /\ gpioTestIsrStatus' = -10
        /\ GpioReleased
        /\ UNCHANGED <<gpioTestIsrStatusErrCnt, gpioTestIsrStopCnt, gpio_mask, gpio_irqs>>
     \/ /\ gpioTestIsrStatus >= 0 /\ arg = gpio_round /\ gpioTestIsrStopCnt = 0
        /\ gpioTestIsrStatus' = -11 /\ gpio_mask' = 0 /\ gpio_irqs' = gpio_irqs \ {arg}
        /\ GpioReleased
        /\ UNCHANGED <<gpioTestIsrStatusErrCnt, gpioTestIsrStopCnt>>
     \/ /\ gpioTestIsrStatus >= 0 /\ arg = gpio_round /\ gpioTestIsrStopCnt # 0
        /\ gpioTestIsrStopCnt' = gpioTestIsrStopCnt - 1
        /\ UNCHANGED <<gpioTestIsrStatus, gpioTestIsrStatusErrCnt, gpio_mask, gpio_irqs,
                       gpio_sem, gpio_stray>>
  /\ UNCHANGED <<gpio_round, gpio_pc, gpio_part, gpio_err, gpio_val>>

GpioNext ==
  \/ GpioLevels \/ GpioArm \/ GpioSettle \/ GpioDrive \/ GpioObtain \/ GpioCheck \/ GpioOff \/ GpioClose
  \/ \E arg \in 1 .. 2 : gpioTestIsrA(arg)

GpioSpec == GpioInit /\ [][GpioNext]_gpio_vars

-----------------------------------------------------------------------------
GpioTypeOK ==
  /\ gpio_round \in 1 .. 2 /\ gpio_part \in 0 .. Len(Parts)
  /\ gpio_pc \in {"levels", "arm", "settle", "drive", "obtain", "check", "off", "close", "end"}
  /\ gpio_err \in -71 .. 0 /\ {gpio_val, gpio_mask} \subseteq 0 .. 1
  /\ {gpio_edge, gpio_stray} \subseteq BOOLEAN /\ gpio_irqs \subseteq 1 .. 2
  /\ gpio_sem \in {"none", "0", "1"} /\ gpioTestIsrStatus \in {-11, -10, -1, 0}
  /\ gpioTestIsrStatusErrCnt \in Nat /\ gpioTestIsrStopCnt \in 0 .. LevelStops
  /\ gpioTestIsrCnt \in Nat /\ gpio_took \in [DOMAIN Parts -> 0 .. LevelStops + 1]

(* However late interrupts come: a way round that succeeds has had exactly *)
(* the interrupts it asks for, none comes for the port that is no longer   *)
(* portA or before the counters are set, and none comes when the task has  *)
(* left the test, whose semaphore is gone.  The last holds on every way    *)
(* out but one: a line that could not be driven leaves the interrupt       *)
(* enabled (gpio-demo.c:176, 220, 263, 306).                               *)
GpioQuiet ==
  /\ gpioTestIsrStatus # -10 /\ gpioTestIsrStatusErrCnt = 0
  /\ gpio_err # -68 => ~gpio_stray /\ (gpio_pc \in {"close", "end"} => gpio_irqs = {})
  /\ gpio_pc = "close" /\ gpio_err = 0 => gpio_took = [p \in DOMAIN Parts |-> Parts[p].stops + 1]
=============================================================================

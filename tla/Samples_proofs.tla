--------------------------- MODULE Samples_proofs ---------------------------
(***************************************************************************)
(* The other samples, each for any value of its constants: the GPIO test   *)
(* (GpioTest), the BRM programs (Brm), the terminal of rtems-b1553rt.c     *)
(* (B1553Rt), the server and the client of the 1553 log (EthLog), the      *)
(* converters (AdcDemo, Ad7891), the SpaceWire receiver and the test of    *)
(* two boards (SpwDemo, SpwTest), the flash library (Flash), the start-up  *)
(* of two nodes (MpStartup) and the time packets of 1553/time.c            *)
(* (CucTime).  Last, with the CAN samples of Can_proofs, all of them         *)
(* together (MCSamples).                                                   *)
(***************************************************************************)
EXTENDS MCSamples, Can_proofs, SequenceTheorems, TLAPS

-----------------------------------------------------------------------------
(* The GPIO test: when interrupts may come, and how many.                  *)

Testing == {"settle", "drive", "obtain", "check", "off"}
Quiet == {"arm", "settle", "drive"}

(* Either portA waits for the rest of its interrupts or it has had them.   *)
Armed ==
  /\ gpioTestIsrStatus = 0 /\ gpio_mask = 1 /\ gpio_irqs = {gpio_round}
  /\ gpioTestIsrStopCnt + gpioTestIsrCnt = Part.stops
Disarmed ==
  /\ gpioTestIsrStatus = -11 /\ gpio_mask = 0 /\ gpio_irqs = {}
  /\ gpioTestIsrStopCnt = 0 /\ gpioTestIsrCnt = Part.stops + 1

(* The parts before this one had all their interrupts, the later ones none.*)
InTurn ==
  /\ gpio_part >= 1
  /\ \A q \in 1 .. 4 : q < gpio_part => gpio_took[q] = Parts[q].stops + 1
  /\ \A q \in 1 .. 4 : q > gpio_part => gpio_took[q] = 0

(* A line that could not be driven: the interrupts of this part may still  *)
(* come.                                                                   *)
LeftEnabled ==
  /\ gpio_pc \in {"close", "end"} /\ InTurn
  /\ Armed \/ Disarmed
  /\ gpio_took[gpio_part] = gpioTestIsrCnt

GpioShape ==
  /\ gpioTestIsrStatus # -10 /\ gpioTestIsrStatusErrCnt = 0
  /\ gpio_err # -68 => ~gpio_stray /\ (gpio_pc \notin Testing => gpio_irqs = {})
  /\ gpio_err = -68 => LeftEnabled
  /\ gpio_pc \in Quiet \cup {"levels"} => gpio_err = 0
  /\ gpio_pc = "off" => gpio_err # 0
  /\ gpio_pc \in Testing \cup {"arm"} => InTurn
  /\ gpio_pc \in Quiet => gpio_val # Part.pol /\ gpio_took[gpio_part] = 0
  /\ gpio_pc \in {"settle", "drive"} => Armed /\ ~gpio_edge /\ gpioTestIsrCnt = 0
  /\ gpio_pc \in {"obtain", "check"} => gpio_val = Part.pol
  /\ gpio_pc = "arm" /\ gpio_part # 1 => gpio_sem # "none"
  /\ gpio_pc \in Testing =>
       gpio_sem # "none" /\ (Armed \/ Disarmed) /\ gpio_took[gpio_part] = gpioTestIsrCnt
  /\ gpio_pc = "close" /\ gpio_err = 0 => \A q \in 1 .. 4 : gpio_took[q] = Parts[q].stops + 1

GpioInv == GpioTypeOK /\ GpioShape

LEMMA PartsAre ==
  /\ Len(Parts) = 4 /\ DOMAIN Parts = 1 .. 4
  /\ \A p \in 1 .. 4 : Parts[p].stops \in 0 .. LevelStops /\ Parts[p].pol \in {0, 1}
  /\ Parts[1].pol = 0 /\ Parts[2].pol = 1 /\ Parts[3].pol = 0 /\ Parts[4].pol = 1
BY GpioStops DEF Parts

LEMMA GpioInvInit == GpioInit => GpioInv
<1> SUFFICES ASSUME GpioInit
             PROVE  GpioInv
  OBVIOUS
<1>1. GpioTypeOK
  <2>1. gpio_took \in [1 .. 4 -> 0 .. LevelStops + 1]
    BY GpioStops DEF GpioInit
  <2>2. gpio_part \in 0 .. Len(Parts) /\ gpioTestIsrStopCnt \in 0 .. LevelStops
    BY PartsAre, GpioStops DEF GpioInit
  <2>4. gpio_err \in -71 .. 0 /\ {gpio_val, gpio_mask} \subseteq 0 .. 1 /\ gpio_round \in 1 .. 2
    BY DEF GpioInit
  <2>5. {gpio_edge, gpio_stray} \subseteq BOOLEAN /\ gpio_irqs \subseteq 1 .. 2
    BY DEF GpioInit
  <2>3. gpio_took \in [DOMAIN Parts -> 0 .. LevelStops + 1]
    BY <2>1, PartsAre
  <2> HIDE DEF Parts
  <2> QED
    BY <2>2, <2>3, <2>4, <2>5 DEF GpioInit, GpioTypeOK
<1>2. GpioShape
  BY DEF GpioInit, GpioShape, Testing, Quiet
<1> QED
  BY <1>1, <1>2 DEF GpioInv

LEMMA GpioTask ==
  ASSUME GpioInv,
         GpioLevels \/ GpioArm \/ GpioSettle \/ GpioDrive \/ GpioObtain \/ GpioCheck
           \/ GpioOff \/ GpioClose
  PROVE  GpioInv'
<1> USE PartsAre, GpioStops DEF GpioInv, GpioTypeOK, Testing, Quiet, Part, gpio_counters
<1> HIDE DEF Parts
<1>0. gpio_pc \notin {"close", "end"} =>
        gpio_err # -68 /\ ~gpio_stray /\ (gpio_pc \notin Testing => gpio_irqs = {})
  BY DEF GpioShape, LeftEnabled
<1>1. CASE GpioLevels
  <2>1. GpioTypeOK'
    BY <1>1 DEF GpioLevels, Fails
  <2>2. GpioShape'
    BY <1>1 DEF GpioLevels, Fails, GpioShape, InTurn
  <2> QED
    BY <2>1, <2>2
<1>2. CASE GpioArm
  <2>0. /\ gpio_part \in 1 .. 4 /\ Parts[gpio_part].stops \in 0 .. LevelStops
        /\ gpio_pc = "arm" /\ gpio_irqs = {} /\ ~gpio_stray /\ gpio_err = 0
        /\ gpio_part # 1 => gpio_sem # "none"
    <3>1. gpio_pc = "arm"
      BY <1>2 DEF GpioArm
    <3>2. gpio_part >= 1 /\ gpio_part \in 0 .. 4
      BY <3>1 DEF GpioShape, InTurn
    <3>3. gpio_part \in 1 .. 4
      BY <3>2
    <3>4. gpio_irqs = {} /\ ~gpio_stray
      BY <1>0, <3>1
    <3>5. gpio_err = 0 /\ (gpio_part # 1 => gpio_sem # "none")
      BY <3>1 DEF GpioShape
    <3> QED
      BY <3>1, <3>3, <3>4, <3>5
  <2>1. /\ gpio_mask' = 1 /\ gpio_edge' = FALSE
        /\ UNCHANGED <<gpio_round, gpio_part, gpio_val, gpio_took, gpio_stray>>
    BY <1>2 DEF GpioArm
  <2>t. /\ ({gpio_val, gpio_mask} \subseteq 0 .. 1)' /\ ({gpio_edge, gpio_stray} \subseteq BOOLEAN)'
        /\ gpio_round' \in 1 .. 2 /\ gpio_part' \in 0 .. Len(Parts)
        /\ gpio_took' \in [DOMAIN Parts -> 0 .. LevelStops + 1]
    <3>1. gpio_val \in 0 .. 1 /\ gpio_val' = gpio_val /\ gpio_mask' = 1 /\ 1 \in 0 .. 1
      BY <2>1
    <3>2. gpio_stray \in BOOLEAN /\ gpio_stray' = gpio_stray /\ gpio_edge' = FALSE
      BY <2>1, Zenon
    <3>3. /\ gpio_round' \in 1 .. 2 /\ gpio_part' \in 0 .. Len(Parts)
          /\ gpio_took' \in [DOMAIN Parts -> 0 .. LevelStops + 1]
      BY <2>1
    <3> QED
      BY <3>1, <3>2, <3>3, Zenon
  <2>2. CASE /\ gpio_pc' = "close" /\ gpio_err' \in {-63, -1, -66}
             /\ gpio_sem' \in {"none", "0", "1"} /\ UNCHANGED gpio_irqs
             /\ \/ UNCHANGED gpio_counters
                \/ /\ gpioTestIsrStatus' = 0 /\ gpioTestIsrStatusErrCnt' = 0
                   /\ gpioTestIsrStopCnt' = Parts[gpio_part].stops /\ gpioTestIsrCnt' = 0
    <3>1. gpioTestIsrStatus' \in {-11, -1, 0} /\ gpioTestIsrStatusErrCnt' = 0
      BY <2>2 DEF GpioShape
    <3>2. gpioTestIsrStopCnt' \in 0 .. LevelStops /\ gpioTestIsrCnt' \in Nat
      BY <2>0, <2>2
    <3>a. gpio_err' \in -71 .. 0 /\ gpio_irqs' \subseteq 1 .. 2
      BY <2>2
    <3>3. GpioTypeOK'
      BY <2>t, <2>2, <3>1, <3>2, <3>a
    <3>4. GpioShape'
      BY <2>0, <2>1, <2>2, <3>1 DEF GpioShape
    <3> QED
      BY <3>3, <3>4
  <2>3. CASE /\ gpio_pc' = "settle" /\ gpio_irqs' = gpio_irqs \cup {gpio_round} /\ UNCHANGED gpio_err
             /\ gpio_sem' = IF gpio_part = 1 THEN "0" ELSE gpio_sem
             /\ gpioTestIsrStatus' = 0 /\ gpioTestIsrStatusErrCnt' = 0
             /\ gpioTestIsrStopCnt' = Parts[gpio_part].stops /\ gpioTestIsrCnt' = 0
    <3>1. gpio_irqs' = {gpio_round} /\ gpioTestIsrStopCnt' + gpioTestIsrCnt' = Parts[gpio_part].stops
      <4>1. \A x \in 0 .. LevelStops : x + 0 = x
        OBVIOUS
      <4>2. gpio_irqs' = {gpio_round}
        BY <2>0, <2>3
      <4> QED
        BY <2>0, <2>3, <4>1, <4>2, Zenon
    <3>2. gpio_sem' \in {"none", "0", "1"} /\ gpio_sem' # "none"
      BY <2>0, <2>3
    <3>a. gpio_err' \in -71 .. 0 /\ gpio_irqs' \subseteq 1 .. 2
      BY <2>3, <3>1
    <3>b. gpioTestIsrStopCnt' \in 0 .. LevelStops /\ gpioTestIsrCnt' \in Nat
      BY <2>0, <2>3
    <3>3. GpioTypeOK'
      BY <2>t, <2>3, <3>2, <3>a, <3>b
    <3>4. /\ gpio_val # Parts[gpio_part].pol /\ gpio_took[gpio_part] = 0 /\ InTurn
      BY <2>0 DEF GpioShape
    <3>5. GpioShape'
      BY <2>0, <2>1, <2>3, <3>1, <3>2, <3>4 DEF GpioShape, InTurn, Armed, Disarmed
    <3> QED
      BY <3>3, <3>5
  <2>4. \/ /\ gpio_pc' = "close" /\ gpio_err' \in {-63, -1, -66}
           /\ gpio_sem' \in {"none", "0", "1"} /\ UNCHANGED gpio_irqs
           /\ \/ UNCHANGED gpio_counters
              \/ /\ gpioTestIsrStatus' = 0 /\ gpioTestIsrStatusErrCnt' = 0
                 /\ gpioTestIsrStopCnt' = Parts[gpio_part].stops /\ gpioTestIsrCnt' = 0
        \/ /\ gpio_pc' = "settle" /\ gpio_irqs' = gpio_irqs \cup {gpio_round} /\ UNCHANGED gpio_err
           /\ gpio_sem' = IF gpio_part = 1 THEN "0" ELSE gpio_sem
           /\ gpioTestIsrStatus' = 0 /\ gpioTestIsrStatusErrCnt' = 0
           /\ gpioTestIsrStopCnt' = Parts[gpio_part].stops /\ gpioTestIsrCnt' = 0
    <3>1. gpio_sem \in {"none", "0", "1"}
      OBVIOUS
    <3> QED
      BY <1>2, <3>1 DEF GpioArm, Fails
  <2> QED
    BY <2>2, <2>3, <2>4
<1>3. CASE GpioSettle
  <2>1. GpioTypeOK'
    BY <1>3 DEF GpioSettle, Fails
  <2>2. GpioShape'
    BY <1>3 DEF GpioSettle, Fails, GpioShape, InTurn, Armed, Disarmed
  <2> QED
    BY <2>1, <2>2
<1>4. CASE GpioDrive
  <2>0. /\ gpio_part \in 1 .. 4 /\ Parts[gpio_part].pol \in {0, 1} /\ gpio_err = 0
        /\ gpio_pc = "drive" /\ ~gpio_stray /\ Armed /\ InTurn /\ gpio_sem # "none"
        /\ gpio_took[gpio_part] = gpioTestIsrCnt
    BY <1>0, <1>4 DEF GpioDrive, GpioShape, InTurn
  <2>1. /\ gpio_val' \in 0 .. 1 /\ gpio_edge' \in BOOLEAN
        /\ UNCHANGED <<gpio_round, gpio_part, gpio_mask, gpio_irqs, gpio_sem, gpio_counters, gpio_took, gpio_stray>>
        /\ \/ gpio_pc' = "obtain" /\ UNCHANGED gpio_err /\ gpio_val' = Parts[gpio_part].pol
           \/ gpio_pc' = "close" /\ gpio_err' = -68
    <3>1. \/ gpio_edge' = (~Part.level /\ gpio_val # Part.pol) \/ gpio_edge' = gpio_edge
      BY <1>4, Zenon DEF GpioDrive
    <3>2. gpio_edge' \in BOOLEAN
      BY <3>1, Zenon
    <3>3. \/ gpio_val' = gpio_val /\ gpio_pc' = "close" /\ gpio_err' = -68
          \/ gpio_val' = Parts[gpio_part].pol /\ gpio_pc' = "obtain" /\ UNCHANGED gpio_err
          \/ gpio_val' = Parts[gpio_part].pol /\ gpio_pc' = "close" /\ gpio_err' = -68
      BY <1>4, Zenon DEF GpioDrive, Fails
    <3>4. UNCHANGED <<gpio_round, gpio_part, gpio_mask, gpio_irqs, gpio_sem, gpio_counters, gpio_took, gpio_stray>>
      BY <1>4 DEF GpioDrive
    <3> QED
      BY <2>0, <3>2, <3>3, <3>4
  <2>2. GpioTypeOK'
    BY <2>0, <2>1
  <2>3. InTurn' /\ Armed'
    BY <2>0, <2>1 DEF InTurn, Armed
  <2>4. GpioShape'
    BY <2>0, <2>1, <2>3 DEF GpioShape, LeftEnabled
  <2> QED
    BY <2>2, <2>4
<1>5. CASE GpioObtain
  <2>1. GpioTypeOK'
    BY <1>5 DEF GpioObtain
  <2>2. GpioShape'
    BY <1>0, <1>5 DEF GpioObtain, GpioShape, InTurn, Armed, Disarmed
  <2> QED
    BY <2>1, <2>2
<1>6. CASE GpioCheck
  <2>1. GpioTypeOK'
    BY <1>6 DEF GpioCheck, GpioShape, InTurn
  <2>2. GpioShape'
    BY <1>0, <1>6 DEF GpioCheck, GpioShape, InTurn, Armed, Disarmed, gpio_counters
  <2> QED
    BY <2>1, <2>2
<1>7. CASE GpioOff
  <2>1. GpioTypeOK'
    BY <1>7 DEF GpioOff
  <2>2. GpioShape'
    BY <1>0, <1>7 DEF GpioOff, GpioShape, Armed, Disarmed
  <2> QED
    BY <2>1, <2>2
<1>8. CASE GpioClose
  <2>1. GpioTypeOK'
    BY <1>8 DEF GpioClose
  <2>2. GpioShape'
    BY <1>0, <1>8 DEF GpioClose, GpioShape, LeftEnabled, InTurn, Armed, Disarmed
  <2> QED
    BY <2>1, <2>2
<1> QED
  BY <1>1, <1>2, <1>3, <1>4, <1>5, <1>6, <1>7, <1>8

LEMMA GpioIsr ==
  ASSUME GpioInv, NEW arg \in 1 .. 2, gpioTestIsrA(arg)
  PROVE  GpioInv'
<1> USE PartsAre, GpioStops DEF GpioInv, Part
<1> HIDE DEF Parts
<1>0. arg \in gpio_irqs /\ Asserted
  BY DEF gpioTestIsrA
<1>1. /\ InTurn /\ Armed /\ arg = gpio_round /\ gpio_took[gpio_part] = gpioTestIsrCnt
      /\ \/ gpio_pc \in {"obtain", "check", "off"} /\ gpio_err # -68 /\ gpio_sem # "none" /\ ~gpio_stray
         \/ gpio_pc \in {"close", "end"} /\ gpio_err = -68
  <2>1. CASE gpio_err = -68
    BY <1>0, <2>1 DEF GpioShape, LeftEnabled, Armed, Disarmed
  <2>2. CASE gpio_err # -68
    <3>1. gpio_pc \in Testing /\ ~gpio_stray
      BY <1>0, <2>2 DEF GpioShape
    <3>2. InTurn /\ (Armed \/ Disarmed) /\ gpio_sem # "none" /\ gpio_took[gpio_part] = gpioTestIsrCnt
      BY <3>1 DEF GpioShape
    <3>3. Armed /\ arg = gpio_round
      BY <1>0, <3>2 DEF Armed, Disarmed
    <3>4. gpio_part \in 1 .. 4
      BY <3>2 DEF InTurn, GpioTypeOK
    <3>5. gpio_pc \notin {"settle", "drive"}
      BY <1>0, <3>4 DEF GpioShape, Asserted, Quiet, GpioTypeOK
    <3> QED
      BY <2>2, <3>1, <3>2, <3>3, <3>5 DEF Testing
  <2> QED
    BY <2>1, <2>2
<1>2. /\ gpioTestIsrCnt' = gpioTestIsrCnt + 1
      /\ gpio_took' = [gpio_took EXCEPT ![gpio_part] = @ + 1]
      /\ UNCHANGED <<gpioTestIsrStatusErrCnt, gpio_round, gpio_pc, gpio_part, gpio_err, gpio_val>>
      /\ gpio_edge' = FALSE
      /\ \/ /\ gpioTestIsrStopCnt = 0 /\ UNCHANGED gpioTestIsrStopCnt
            /\ gpioTestIsrStatus' = -11 /\ gpio_mask' = 0 /\ gpio_irqs' = gpio_irqs \ {arg}
            /\ gpio_sem' \in {"none", "1"} /\ gpio_stray' \in BOOLEAN
            /\ gpio_err # -68 => gpio_sem' = "1" /\ ~gpio_stray'
         \/ /\ gpioTestIsrStopCnt # 0 /\ gpioTestIsrStopCnt' = gpioTestIsrStopCnt - 1
            /\ UNCHANGED <<gpioTestIsrStatus, gpio_mask, gpio_irqs, gpio_sem, gpio_stray>>
  <2>1. gpioTestIsrStatus = 0 /\ ~(gpioTestIsrStatus < 0)
    BY <1>1 DEF Armed
  <2>2. GpioReleased => /\ gpio_sem' \in {"none", "1"} /\ gpio_stray' \in BOOLEAN
                        /\ gpio_err # -68 => gpio_sem' = "1" /\ ~gpio_stray'
    <3>1. gpio_err # -68 => gpio_sem # "none" /\ ~gpio_stray
      BY <1>1
    <3> QED
      BY <3>1, Zenon DEF GpioReleased
  <2> QED
    BY <1>1, <2>1, <2>2, Zenon DEF gpioTestIsrA
<1>3. Armed' \/ Disarmed'
  BY <1>1, <1>2 DEF Armed, Disarmed, GpioTypeOK
<1>4. /\ gpio_took' \in [1 .. 4 -> 0 .. LevelStops + 1] /\ gpio_took'[gpio_part] = gpioTestIsrCnt'
      /\ \A q \in 1 .. 4 : q # gpio_part => gpio_took'[q] = gpio_took[q]
  BY <1>1, <1>2 DEF Armed, InTurn, GpioTypeOK
<1>5. GpioTypeOK'
  <2>1. gpioTestIsrCnt' \in Nat /\ gpioTestIsrStopCnt' \in 0 .. LevelStops
    BY <1>1, <1>2 DEF GpioTypeOK, Armed
  <2>2. gpio_took' \in [DOMAIN Parts -> 0 .. LevelStops + 1]
    BY <1>4
  <2>3. /\ gpioTestIsrStatus' \in {-11, -10, -1, 0} /\ gpio_mask' \in 0 .. 1
        /\ gpio_irqs' \subseteq 1 .. 2 /\ gpio_sem' \in {"none", "0", "1"} /\ gpio_stray' \in BOOLEAN
    BY <1>1, <1>2 DEF GpioTypeOK, Armed
  <2> QED
    BY <1>2, <2>1, <2>2, <2>3 DEF GpioTypeOK
<1>6. InTurn'
  BY <1>1, <1>2, <1>4 DEF InTurn
<1>7. GpioShape'
  BY <1>1, <1>2, <1>3, <1>4, <1>6 DEF GpioShape, LeftEnabled, Testing, Quiet, Armed
<1> QED
  BY <1>5, <1>7

LEMMA GpioStepKeeps == GpioInv /\ [GpioNext]_gpio_vars => GpioInv'
<1> SUFFICES ASSUME GpioInv, [GpioNext]_gpio_vars
             PROVE  GpioInv'
  OBVIOUS
<1>1. CASE UNCHANGED gpio_vars
  BY <1>1 DEF gpio_vars, gpio_counters, GpioInv, GpioTypeOK, GpioShape, LeftEnabled, InTurn, Armed, Disarmed, Part
<1> QED
  BY <1>1, GpioTask, GpioIsr DEF GpioNext

LEMMA GpioInvariant == GpioSpec => []GpioInv
  BY GpioInvInit, GpioStepKeeps, PTL DEF GpioSpec

(* Every port, counter and semaphore of the GPIO test has its type.        *)
THEOREM GpioTyping == GpioSpec => []GpioTypeOK
BY GpioInvariant, PTL DEF GpioInv

(* For any number of interrupts a level test asks for, however late they   *)
(* come, and whichever calls of the driver fail: a way round that succeeds *)
(* has had exactly those, none comes for the wrong port, and none after    *)
(* the task has left the test other than where a line could not be driven. *)
THEOREM NoneAfterTheTest == GpioSpec => []GpioQuiet
<1>1. GpioInv => GpioQuiet
  <2> SUFFICES ASSUME GpioInv
               PROVE  GpioQuiet
    OBVIOUS
  <2>1. gpio_took \in [1 .. 4 -> 0 .. LevelStops + 1]
    BY PartsAre DEF GpioInv, GpioTypeOK
  <2>2. gpio_pc = "close" /\ gpio_err = 0 => gpio_took = [p \in DOMAIN Parts |-> Parts[p].stops + 1]
    BY <2>1, PartsAre DEF GpioInv, GpioShape
  <2> QED
    BY <2>2 DEF GpioInv, GpioShape, GpioQuiet, Testing
<1> QED
  BY GpioInvariant, <1>1, PTL

-----------------------------------------------------------------------------
(* The BRM demos: the terminal has always answered in time.                *)

BrmTypes ==
  /\ bc \in [chan : BrmChannels, pc : {"mode", "block", "cmd", "result"}, sleep : 0 .. 20, j : 0 .. 5]
  /\ rt \in [chan : BrmChannels, pc : {"off", "mode", "block", "loop"}, sleep : 0 .. 1,
             rxq : Seq([desc : 0 .. 63, data : Seq(0 .. 127), round : 0 .. MaxRound1553]),
             tx : [Subaddrs -> Blocks1553]]
  /\ bmon \in [chan : BrmChannels, pc : {"mode", "block", "loop"}, msgs : 0 .. BmLen]
  /\ faults \in 0 .. MaxFaults /\ cmdround \in 0 .. MaxRound1553
  /\ results \in [Subaddrs -> Blocks1553]
  /\ got \in [Subaddrs -> 0 .. MaxRound1553] /\ refused \subseteq Subaddrs
  /\ want \in [Subaddrs -> SUBSET (0 .. MaxRound1553)]

(* What the three programs are set up to, and that the terminal hears      *)
(* nothing before it is.                                                   *)
SetUp1553 ==
  /\ rt.chan.mode = "RT"
  /\ rt.pc # "loop" => rt.rxq = <<>> /\ rt.sleep = 0
  /\ bmon.pc # "mode" => bmon.chan.mode = "BM"
  /\ bmon.pc = "loop" => bmon.chan.d_rxblk
  /\ bc.j # 0 => bc.sleep = 0 /\ bc.pc \in {"cmd", "result"}
  /\ bc.j # 0 \/ bc.pc = "result" => cmdround > 0

(* The first m messages say that a reply was sent, and cost the terminal a *)
(* second each; the commands are behind them.                              *)
Sorted(q, m) ==
  /\ m \in 0 .. Len(q)
  /\ \A i \in DOMAIN q : (i <= m) <=> (q[i].desc >= 32)

Cmds1553(q) ==
  \A i \in DOMAIN q :
    q[i].desc < 32 => q[i].desc \in Subaddrs /\ q[i].data = CmdData(q[i].desc) /\ q[i].round > 0

(* A command is of the list under way, which is later than those that came *)
(* before for its subaddress.                                              *)
Rounds ==
  \A j \in Subaddrs : /\ got[j] <= cmdround
                      /\ bc.pc = "cmd" /\ bc.j # 0 /\ j >= bc.j => got[j] < cmdround

(* The seconds the terminal needs until it comes to the commands, with     *)
(* those it may lose by failing reads: fewer than the controller sleeps.   *)
InTime1553(m) ==
  LET most == rt.sleep + m + (MaxFaults - faults) IN
    IF bc.pc # "result" THEN m <= MSG_CNT
    ELSE IF bc.j = 0
           THEN (m = 0 \/ most <= bc.sleep) /\ (m = Len(rt.rxq) \/ most < bc.sleep)
           ELSE m = Len(rt.rxq) /\ m < bc.j

(* The commands for a subaddress that wait are later than the reply t that *)
(* stands, in order, and the last of them is the last that came; where     *)
(* none waits that one is answered, unless its reply was dropped.          *)
AnswersLast(q, t, dropped, last, j) ==
  /\ t = Reply(j, t.round) /\ t.round \in 0 .. last
  /\ \A i \in DOMAIN q : q[i].desc = j => t.round < q[i].round /\ q[i].round <= last
  /\ \A i, k \in DOMAIN q : i < k /\ q[i].desc = j /\ q[k].desc = j => q[i].round < q[k].round
  /\ \/ \E i \in DOMAIN q : q[i].desc = j /\ q[i].round = last
     \/ (\A i \in DOMAIN q : q[i].desc # j) /\ (IF dropped THEN t.round < last ELSE t.round = last)

Timely == \E m \in Nat : Sorted(rt.rxq, m) /\ InTime1553(m)
AnswersAll == \A j \in Subaddrs : AnswersLast(rt.rxq, rt.tx[j], j \in refused, got[j], j)
ResultsRight == \A j \in Subaddrs : \E round \in want[j] : results[j] = Reply(j, round)

(* 20 s are enough for the four messages of the last list of results and   *)
(* the read that found nothing, and for 14 failures.                       *)
Few1553 == MaxFaults <= 14

BrmBase == BrmTypes /\ SetUp1553 /\ Cmds1553(rt.rxq) /\ Rounds
BrmAnswers == Timely /\ AnswersAll /\ ResultsRight
BrmInv == BrmBase /\ (Few1553 => BrmAnswers)

-----------------------------------------------------------------------------
(* The library's calls change what they are called for, if anything.       *)

LEMMA ModeCalls ==
  \A c \in BrmChannels, e \in BrmErrnos, mode \in BrmModes :
    /\ SetMode(c, mode, e).chan \in BrmChannels
    /\ SetMode(c, mode, e).chan.mode \in {mode, c.mode}
    /\ SetMode(c, mode, "0").chan.mode = mode
BY DEF SetMode, Answers, BrmChannels

LEMMA BlockCalls ==
  \A c \in BrmChannels, e \in BrmErrnos, f \in BrmErrnos, tx \in BOOLEAN, rx \in BOOLEAN :
    /\ SetBlock(c, tx, rx, e, f).chan \in BrmChannels
    /\ SetBlock(c, tx, rx, e, f).chan.mode = c.mode
    /\ SetBlock(c, tx, rx, "0", "0").chan.d_rxblk = rx
<1> SUFFICES ASSUME NEW c \in BrmChannels, NEW e \in BrmErrnos, NEW f \in BrmErrnos,
                    NEW tx \in BOOLEAN, NEW rx \in BOOLEAN
             PROVE  /\ SetBlock(c, tx, rx, e, f).chan \in BrmChannels
                    /\ SetBlock(c, tx, rx, e, f).chan.mode = c.mode
                    /\ SetBlock(c, tx, rx, "0", "0").chan.d_rxblk = rx
  OBVIOUS
<1>1. ASSUME NEW d \in BrmChannels, NEW g \in BrmErrnos, NEW b \in BOOLEAN
      PROVE  /\ SetTxBlock(d, b, g).chan \in BrmChannels /\ SetTxBlock(d, b, g).chan.mode = d.mode
             /\ SetRxBlock(d, b, g).chan \in BrmChannels /\ SetRxBlock(d, b, g).chan.mode = d.mode
             /\ SetTxBlock(d, b, "0").ret = 0 /\ SetRxBlock(d, b, "0").chan.d_rxblk = b
  BY DEF SetTxBlock, SetRxBlock, Answers, BrmCode, BrmChannels
<1>2. /\ SetBlock(c, tx, rx, e, f).chan \in BrmChannels
      /\ SetBlock(c, tx, rx, e, f).chan.mode = c.mode
  BY <1>1 DEF SetBlock
<1>3. SetBlock(c, tx, rx, "0", "0").chan.d_rxblk = rx
  <2>1. "0" \in BrmErrnos
    BY DEF BrmErrnos
  <2>2. SetTxBlock(c, tx, "0").chan \in BrmChannels
    BY <1>1, <2>1
  <2> QED
    BY <1>1, <2>1, <2>2 DEF SetBlock
<1> QED
  BY <1>2, <1>3

LEMMA OptionCalls ==
  \A c \in BrmChannels, e \in BrmErrnos, on \in BOOLEAN :
    \A a \in {SetBroadcast(c, on, e), SetBus(c, e), SetRtAddr(c, e), SetMsgTimeout(c, e), SetStd(c, e)} :
      a.chan \in BrmChannels /\ a.chan.mode = c.mode
<1> SUFFICES ASSUME NEW c \in BrmChannels, NEW e \in BrmErrnos, NEW on \in BOOLEAN,
                    NEW a \in {SetBroadcast(c, on, e), SetBus(c, e), SetRtAddr(c, e),
                               SetMsgTimeout(c, e), SetStd(c, e)}
             PROVE  a.chan \in BrmChannels /\ a.chan.mode = c.mode
  OBVIOUS
<1>1. SetBroadcast(c, on, e).chan \in BrmChannels /\ SetBroadcast(c, on, e).chan.mode = c.mode
  BY DEF SetBroadcast, Answers, BrmChannels
<1>2. \A modes, codes :
        InModes(modes, c, e, codes).chan \in BrmChannels /\ InModes(modes, c, e, codes).chan.mode = c.mode
  BY DEF InModes, Answers
<1> QED
  BY <1>1, <1>2 DEF SetBus, SetRtAddr, SetMsgTimeout, SetStd

-----------------------------------------------------------------------------
(* The queue of the terminal.                                              *)

RtMsg == [desc : 0 .. 63, data : Seq(0 .. 127), round : 0 .. MaxRound1553]

LEMMA QueueAppend ==
  ASSUME NEW q \in Seq(RtMsg), NEW x \in RtMsg
  PROVE  /\ Append(q, x) \in Seq(RtMsg) /\ Len(q) \in Nat /\ Len(Append(q, x)) = Len(q) + 1
         /\ DOMAIN q = 1 .. Len(q) /\ DOMAIN Append(q, x) = 1 .. Len(q) + 1
         /\ \A i \in 1 .. Len(q) : Append(q, x)[i] = q[i]
         /\ Append(q, x)[Len(q) + 1] = x
<1> HIDE DEF RtMsg
<1>1. /\ Append(q, x) \in Seq(RtMsg) /\ Len(Append(q, x)) = Len(q) + 1
      /\ \A i \in 1 .. Len(q) : Append(q, x)[i] = q[i]
      /\ Append(q, x)[Len(q) + 1] = x
  BY AppendProperties
<1>2. Len(q) \in Nat /\ DOMAIN q = 1 .. Len(q)
  BY LenProperties
<1>3. DOMAIN Append(q, x) = 1 .. Len(q) + 1
  BY <1>1, LenProperties
<1> QED
  BY <1>1, <1>2, <1>3

LEMMA QueueTail ==
  ASSUME NEW q \in Seq(RtMsg), q # <<>>
  PROVE  /\ Tail(q) \in Seq(RtMsg) /\ Head(q) \in RtMsg /\ Head(q) = q[1]
         /\ Len(q) \in Nat \ {0} /\ Len(Tail(q)) = Len(q) - 1
         /\ DOMAIN q = 1 .. Len(q) /\ DOMAIN Tail(q) = 1 .. Len(q) - 1
         /\ \A i \in 1 .. Len(q) - 1 : Tail(q)[i] = q[i + 1]
<1> HIDE DEF RtMsg
<1>1. Tail(q) \in Seq(RtMsg) /\ Head(q) \in RtMsg /\ Len(Tail(q)) = Len(q) - 1
      /\ \A i \in 1 .. Len(Tail(q)) : Tail(q)[i] = q[i + 1]
  BY HeadTailProperties
<1>2. Len(q) \in Nat /\ DOMAIN q = 1 .. Len(q) /\ Len(q) # 0
  BY LenProperties, EmptySeq
<1>3. DOMAIN Tail(q) = 1 .. Len(Tail(q))
  BY <1>1, LenProperties
<1>4. Head(q) = q[1]
  OBVIOUS
<1> QED
  BY <1>1, <1>2, <1>3, <1>4

(* A command comes: it is behind all others and the last for its           *)
(* subaddress.                                                             *)
LEMMA CommandComes ==
  ASSUME NEW q \in Seq(RtMsg), NEW x \in RtMsg,
         x.desc \in Subaddrs, x.data = CmdData(x.desc), x.round > 0
  PROVE  /\ Cmds1553(q) => Cmds1553(Append(q, x))
         /\ \A m \in Nat : Sorted(q, m) => Sorted(Append(q, x), m)
         /\ \A t, d : \A last \in Nat :
              last < x.round /\ AnswersLast(q, t, d, last, x.desc)
              => AnswersLast(Append(q, x), t, d, x.round, x.desc)
         /\ \A t, d : \A last \in Nat, j \in Subaddrs :
              j # x.desc /\ AnswersLast(q, t, d, last, j) => AnswersLast(Append(q, x), t, d, last, j)
<1> DEFINE p == Append(q, x)
           n == Len(q)
<1>1. /\ n \in Nat /\ Len(p) = n + 1 /\ DOMAIN q = 1 .. n /\ DOMAIN p = 1 .. n + 1
      /\ \A i \in 1 .. n : p[i] = q[i]
      /\ p[n + 1] = x
  BY QueueAppend
<1>r. /\ x.round \in Nat /\ x.desc < 32 /\ ~(x.desc >= 32)
      /\ \A i \in 1 .. n : q[i].round \in Nat /\ q[i].desc \in 0 .. 63
  <2>1. \A i \in 1 .. n : q[i] \in RtMsg
    BY <1>1, ElementOfSeq
  <2> QED
    BY <2>1, BrmBounds DEF RtMsg, Subaddrs, MSG_CNT
<1> HIDE DEF p, n
<1>2. /\ \A i \in 1 .. n + 1 : i \in 1 .. n \/ i = n + 1
      /\ \A i \in 1 .. n : i \in 1 .. n + 1 /\ i < n + 1
      /\ n + 1 \in 1 .. n + 1
      /\ \A k \in 1 .. n + 1 : ~(n + 1 < k)
  BY <1>1
<1>3. ASSUME Cmds1553(q)
      PROVE  Cmds1553(p)
  BY <1>1, <1>2, <1>3 DEF Cmds1553
<1>4. ASSUME NEW m \in Nat, Sorted(q, m)
      PROVE  Sorted(p, m)
  <2>1. m \in 0 .. n /\ \A i \in 1 .. n : (i <= m) <=> (q[i].desc >= 32)
    BY <1>1, <1>4 DEF Sorted, n
  <2>2. m \in 0 .. n + 1 /\ ~(n + 1 <= m)
    BY <1>1, <2>1
  <2>3. \A i \in 1 .. n + 1 : (i <= m) <=> (p[i].desc >= 32)
    BY <1>1, <1>2, <1>r, <2>1, <2>2, Zenon
  <2> QED
    BY <1>1, <2>2, <2>3 DEF Sorted
<1>5. ASSUME NEW t, NEW d, NEW last \in Nat, last < x.round, AnswersLast(q, t, d, last, x.desc)
      PROVE  AnswersLast(p, t, d, x.round, x.desc)
  <2>1. /\ t = Reply(x.desc, t.round) /\ t.round \in 0 .. last
        /\ \A i \in 1 .. n : q[i].desc = x.desc => t.round < q[i].round /\ q[i].round <= last
        /\ \A i, k \in 1 .. n : i < k /\ q[i].desc = x.desc /\ q[k].desc = x.desc => q[i].round < q[k].round
    BY <1>1, <1>5 DEF AnswersLast
  <2>2. t.round \in 0 .. x.round /\ t.round < x.round /\ x.round <= x.round
    BY <1>r, <1>5, <2>1
  <2>3. \A i \in 1 .. n + 1 : p[i].desc = x.desc => t.round < p[i].round /\ p[i].round <= x.round
    BY <1>1, <1>2, <1>r, <1>5, <2>1, <2>2
  <2>4. \A i, k \in 1 .. n + 1 :
          i < k /\ p[i].desc = x.desc /\ p[k].desc = x.desc => p[i].round < p[k].round
    <3>1. \A i \in 1 .. n : q[i].desc = x.desc => q[i].round < x.round
      BY <1>r, <1>5, <2>1
    <3> QED
      BY <1>1, <1>2, <2>1, <3>1, Zenon
  <2> QED
    BY <1>1, <1>2, <2>1, <2>2, <2>3, <2>4, Zenon DEF AnswersLast
<1>6. ASSUME NEW t, NEW d, NEW last \in Nat, NEW j \in Subaddrs, j # x.desc, AnswersLast(q, t, d, last, j)
      PROVE  AnswersLast(p, t, d, last, j)
  BY <1>1, <1>2, <1>6, Zenon DEF AnswersLast
<1> QED
  BY <1>3, <1>4, <1>5, <1>6 DEF p

(* It is said that a reply was sent.                                       *)
LEMMA SentComes ==
  ASSUME NEW q \in Seq(RtMsg), NEW x \in RtMsg, x.desc >= 32
  PROVE  /\ Cmds1553(q) => Cmds1553(Append(q, x))
         /\ Len(q) \in Nat /\ Len(Append(q, x)) = Len(q) + 1
         /\ Sorted(q, Len(q)) => /\ Sorted(Append(q, x), Len(q) + 1)
                                 /\ \A i \in DOMAIN q : \A j \in Subaddrs : q[i].desc # j
         /\ \A t, d, last : \A j \in Subaddrs :
              AnswersLast(q, t, d, last, j) => AnswersLast(Append(q, x), t, d, last, j)
<1> DEFINE p == Append(q, x)
           n == Len(q)
<1>1. /\ n \in Nat /\ Len(p) = n + 1 /\ DOMAIN q = 1 .. n /\ DOMAIN p = 1 .. n + 1
      /\ \A i \in 1 .. n : p[i] = q[i]
      /\ p[n + 1] = x
  BY QueueAppend
<1>r. /\ ~(x.desc < 32) /\ \A j \in Subaddrs : x.desc # j /\ ~(j >= 32)
  <2>1. x.desc \in 0 .. 63
    BY DEF RtMsg
  <2>2. \A d \in 0 .. 63 : d >= 32 => ~(d < 32) /\ \A j \in 1 .. 4 : d # j /\ ~(j >= 32)
    OBVIOUS
  <2> QED
    BY <2>1, <2>2, Zenon DEF Subaddrs, MSG_CNT
<1> HIDE DEF p, n
<1>2. /\ \A i \in 1 .. n + 1 : i \in 1 .. n \/ i = n + 1
      /\ \A i \in 1 .. n : i \in 1 .. n + 1
      /\ n + 1 \in 1 .. n + 1
  BY <1>1
<1>3. ASSUME Cmds1553(q)
      PROVE  Cmds1553(p)
  BY <1>1, <1>2, <1>r, <1>3 DEF Cmds1553
<1>4. ASSUME Sorted(q, n)
      PROVE  Sorted(p, n + 1) /\ \A i \in 1 .. n, j \in Subaddrs : q[i].desc # j
  <2>1. \A i \in 1 .. n : i <= n /\ (i <= n <=> q[i].desc >= 32)
    BY <1>1, <1>4 DEF Sorted
  <2>2. n + 1 \in 0 .. n + 1 /\ \A i \in 1 .. n + 1 : i <= n + 1
    BY <1>1
  <2>3. \A i \in 1 .. n + 1 : p[i].desc >= 32
    BY <1>1, <1>2, <2>1, Zenon
  <2>4. \A i \in 1 .. n, j \in Subaddrs : q[i].desc # j
    BY <1>r, <2>1
  <2> QED
    BY <1>1, <2>2, <2>3, <2>4 DEF Sorted
<1>5. ASSUME NEW t, NEW d, NEW last, NEW j \in Subaddrs, AnswersLast(q, t, d, last, j)
      PROVE  AnswersLast(p, t, d, last, j)
  BY <1>1, <1>2, <1>r, <1>5, Zenon DEF AnswersLast
<1> QED
  BY <1>1, <1>3, <1>4, <1>5 DEF p, n

(* The terminal takes a message, and its reply to a command is taken or is *)
(* dropped.                                                                *)
LEMMA MessageTaken ==
  ASSUME NEW q \in Seq(RtMsg), q # <<>>
  PROVE  /\ Cmds1553(q) => /\ Cmds1553(Tail(q))
                           /\ Head(q).desc < 32 => /\ Head(q).desc \in Subaddrs /\ Head(q).round > 0
                                                   /\ Head(q).data = CmdData(Head(q).desc)
         /\ \A m \in Nat :
              Sorted(q, m) => IF Head(q).desc >= 32 THEN m > 0 /\ Sorted(Tail(q), m - 1)
                              ELSE m = 0 /\ Sorted(Tail(q), 0)
         /\ \A t, d, last : \A j \in Subaddrs :
              Head(q).desc # j /\ AnswersLast(q, t, d, last, j) => AnswersLast(Tail(q), t, d, last, j)
         /\ \A t, u, d, e : \A last \in Nat, j \in Subaddrs :
              /\ Head(q).desc = j /\ AnswersLast(q, t, d, last, j)
              /\ IF e THEN u = t ELSE u = Reply(j, Head(q).round) /\ u.round = Head(q).round
              => AnswersLast(Tail(q), u, e, last, j)
<1> DEFINE p == Tail(q)
           n == Len(q) - 1
           h == Head(q)
<1>1. /\ n \in Nat /\ Len(q) = n + 1 /\ Len(p) = n /\ DOMAIN q = 1 .. n + 1 /\ DOMAIN p = 1 .. n
      /\ \A i \in 1 .. n : p[i] = q[i + 1]
      /\ h = q[1] /\ h \in RtMsg
  BY QueueTail
<1>r. \A i \in 1 .. n + 1 : q[i].round \in Nat /\ q[i].desc \in 0 .. 63
  <2>1. \A i \in 1 .. n + 1 : q[i] \in RtMsg
    BY <1>1, ElementOfSeq
  <2> QED
    BY <2>1, BrmBounds DEF RtMsg
<1>s. \A j \in Subaddrs : ~(j >= 32)
  BY DEF Subaddrs, MSG_CNT
<1> HIDE DEF p, n, h
<1>2. /\ 1 \in 1 .. n + 1
      /\ \A i \in 1 .. n : i + 1 \in 1 .. n + 1 /\ 1 < i + 1
      /\ \A i, k \in 1 .. n : i < k => i + 1 < k + 1
      /\ \A i \in 1 .. n + 1 : i = 1 \/ (i - 1 \in 1 .. n /\ (i - 1) + 1 = i)
  BY <1>1
<1>3. ASSUME Cmds1553(q)
      PROVE  /\ Cmds1553(p)
             /\ h.desc < 32 => h.desc \in Subaddrs /\ h.round > 0 /\ h.data = CmdData(h.desc)
  BY <1>1, <1>2, <1>3, Zenon DEF Cmds1553
<1>4. ASSUME NEW m \in Nat, Sorted(q, m)
      PROVE  IF h.desc >= 32 THEN m > 0 /\ Sorted(p, m - 1) ELSE m = 0 /\ Sorted(p, 0)
  <2>1. m \in 0 .. n + 1 /\ \A i \in 1 .. n + 1 : (i <= m) <=> (q[i].desc >= 32)
    BY <1>1, <1>4 DEF Sorted
  <2>2. (1 <= m) <=> (h.desc >= 32)
    BY <1>1, <1>2, <2>1, Zenon
  <2>3. CASE h.desc >= 32
    <3>1. m > 0 /\ m - 1 \in 0 .. n /\ \A i \in 1 .. n : (i <= m - 1) <=> (i + 1 <= m)
      BY <1>1, <2>1, <2>2, <2>3
    <3>2. \A i \in 1 .. n : (i <= m - 1) <=> (p[i].desc >= 32)
      BY <1>1, <1>2, <2>1, <3>1, Zenon
    <3> QED
      BY <1>1, <2>3, <3>1, <3>2 DEF Sorted
  <2>4. CASE ~(h.desc >= 32)
    <3>1. m = 0 /\ 0 \in 0 .. n /\ \A i \in 1 .. n : ~(i <= 0) /\ ~(i + 1 <= m)
      BY <1>1, <2>2, <2>4
    <3>2. \A i \in 1 .. n : (i <= 0) <=> (p[i].desc >= 32)
      BY <1>1, <1>2, <2>1, <3>1, Zenon
    <3> QED
      BY <1>1, <2>4, <3>1, <3>2 DEF Sorted
  <2> QED
    BY <2>3, <2>4
<1>5. ASSUME NEW t, NEW d, NEW last, NEW j \in Subaddrs, h.desc # j, AnswersLast(q, t, d, last, j)
      PROVE  AnswersLast(p, t, d, last, j)
  <2>0. /\ t = Reply(j, t.round) /\ t.round \in 0 .. last
        /\ \A i \in 1 .. n + 1 : q[i].desc = j => t.round < q[i].round /\ q[i].round <= last
        /\ \A i, k \in 1 .. n + 1 : i < k /\ q[i].desc = j /\ q[k].desc = j => q[i].round < q[k].round
        /\ \/ \E i \in 1 .. n + 1 : q[i].desc = j /\ q[i].round = last
           \/ (\A i \in 1 .. n + 1 : q[i].desc # j) /\ (IF d THEN t.round < last ELSE t.round = last)
    BY <1>1, <1>5 DEF AnswersLast
  <2>1. \A i \in 1 .. n : p[i].desc = j => t.round < p[i].round /\ p[i].round <= last
    BY <1>1, <1>2, <2>0, Zenon
  <2>2. ASSUME NEW i \in 1 .. n, NEW k \in 1 .. n, i < k, p[i].desc = j, p[k].desc = j
        PROVE  p[i].round < p[k].round
    <3>1. /\ i + 1 \in 1 .. n + 1 /\ k + 1 \in 1 .. n + 1 /\ i + 1 < k + 1
          /\ p[i] = q[i + 1] /\ p[k] = q[k + 1]
      BY <1>1, <1>2, <2>2
    <3> QED
      BY <2>0, <2>2, <3>1
  <2>3. \/ \E i \in 1 .. n : p[i].desc = j /\ p[i].round = last
        \/ (\A i \in 1 .. n : p[i].desc # j) /\ (IF d THEN t.round < last ELSE t.round = last)
    BY <1>1, <1>2, <1>5, <2>0
  <2> QED
    BY <1>1, <2>0, <2>1, <2>2, <2>3, Zenon DEF AnswersLast
<1>6. ASSUME NEW t, NEW u, NEW d, NEW e, NEW last \in Nat, NEW j \in Subaddrs,
             h.desc = j, AnswersLast(q, t, d, last, j),
             IF e THEN u = t ELSE u = Reply(j, h.round) /\ u.round = h.round
      PROVE  AnswersLast(p, u, e, last, j)
  <2>0. /\ t = Reply(j, t.round) /\ t.round \in 0 .. last
        /\ \A i \in 1 .. n + 1 : q[i].desc = j => t.round < q[i].round /\ q[i].round <= last
        /\ \A i, k \in 1 .. n + 1 : i < k /\ q[i].desc = j /\ q[k].desc = j => q[i].round < q[k].round
        /\ \E i \in 1 .. n + 1 : q[i].desc = j /\ q[i].round = last
    BY <1>1, <1>2, <1>6 DEF AnswersLast
  <2>1. h.round \in 0 .. last /\ t.round < h.round
    BY <1>1, <1>2, <1>r, <1>6, <2>0
  <2>2. u = Reply(j, u.round) /\ u.round \in 0 .. last /\ u.round <= h.round /\ t.round <= u.round
    BY <1>6, <2>0, <2>1
  <2>3. \A i \in 1 .. n : p[i].desc = j => h.round < p[i].round /\ p[i].round <= last
    BY <1>1, <1>2, <1>6, <2>0, Zenon
  <2>4. \A i \in 1 .. n : p[i].desc = j => u.round < p[i].round /\ p[i].round <= last
    <3>1. \A i \in 1 .. n : p[i].round \in Nat
      BY <1>1, <1>2, <1>r, Zenon
    <3>2. u.round \in Nat /\ h.round \in Nat
      BY <2>1, <2>2
    <3>3. \A a, b, c \in Nat : a <= b /\ b < c => a < c
      OBVIOUS
    <3> QED
      BY <2>2, <2>3, <3>1, <3>2, <3>3, Zenon
  <2>5. ASSUME NEW i \in 1 .. n, NEW k \in 1 .. n, i < k, p[i].desc = j, p[k].desc = j
        PROVE  p[i].round < p[k].round
    <3>1. /\ i + 1 \in 1 .. n + 1 /\ k + 1 \in 1 .. n + 1 /\ i + 1 < k + 1
          /\ p[i] = q[i + 1] /\ p[k] = q[k + 1]
      BY <1>1, <1>2, <2>5
    <3> QED
      BY <2>0, <2>5, <3>1
  <2>6. \/ \E i \in 1 .. n : p[i].desc = j /\ p[i].round = last
        \/ (\A i \in 1 .. n : p[i].desc # j) /\ (IF e THEN u.round < last ELSE u.round = last)
    <3>1. PICK i \in 1 .. n + 1 : q[i].desc = j /\ q[i].round = last
      BY <2>0
    <3>2. CASE i = 1
      <4>1. h.round = last
        BY <1>1, <3>1, <3>2
      <4>2. \A k \in 1 .. n : p[k].desc # j
        <5>1. \A k \in 1 .. n : p[k].round \in Nat
          BY <1>1, <1>2, <1>r, Zenon
        <5> QED
          BY <2>3, <4>1, <5>1
      <4>3. IF e THEN u.round < last ELSE u.round = last
        BY <1>6, <2>1, <4>1
      <4> QED
        BY <4>2, <4>3
    <3>3. CASE i # 1
      <4>1. i - 1 \in 1 .. n /\ (i - 1) + 1 = i
        BY <1>2, <3>3
      <4>2. p[i - 1] = q[i]
        BY <1>1, <4>1
      <4> QED
        BY <3>1, <4>1, <4>2
    <3> QED
      BY <3>2, <3>3
  <2> QED
    BY <1>1, <2>2, <2>4, <2>5, <2>6, Zenon DEF AnswersLast
<1> QED
  BY <1>3, <1>4, <1>5, <1>6 DEF p, h

-----------------------------------------------------------------------------
(* What is sent, and what is replied.                                      *)

LEMMA Words1553 ==
  ASSUME NEW j \in Subaddrs
  PROVE  CmdData(j) \in Seq(0 .. 127) /\ Twisted(CmdData(j)) \in Seq(0 .. 127)
<1>1. j \in 1 .. 4 /\ Wc(j) \in 8 .. 9
  BY DEF Subaddrs, MSG_CNT, Wc
<1>2. CmdData(j) \in [1 .. Wc(j) -> 0 .. 82]
  BY <1>1 DEF CmdData
<1>3. Twisted(CmdData(j)) \in [1 .. Wc(j) -> 0 .. 127]
  <2>1. \A x \in 0 .. 82, w \in 8 .. 9 : \A k \in 1 .. w : x + k - 1 \in 0 .. 127
    OBVIOUS
  <2>2. DOMAIN CmdData(j) = 1 .. Wc(j) /\ \A k \in 1 .. Wc(j) : CmdData(j)[k] \in 0 .. 82
    BY <1>2
  <2>3. \A k \in 1 .. Wc(j) : CmdData(j)[k] + k - 1 \in 0 .. 127
    BY <1>1, <2>1, <2>2, Zenon
  <2> HIDE DEF CmdData
  <2> QED
    BY <2>2, <2>3 DEF Twisted
<1>4. \A f, n : n \in Nat /\ f \in [1 .. n -> 0 .. 127] => f \in Seq(0 .. 127)
  BY SeqDef
<1>5. CmdData(j) \in [1 .. Wc(j) -> 0 .. 127]
  BY <1>2
<1>6. Wc(j) \in Nat
  BY <1>1
<1> QED
  BY <1>3, <1>4, <1>5, <1>6, Zenon

LEMMA ReplyTypes ==
  ASSUME NEW j \in Subaddrs, NEW n \in 0 .. MaxRound1553
  PROVE  Reply(j, n) \in Blocks1553
<1>1. <<>> \in Seq(0 .. 127) /\ 0 \in 0 .. MaxRound1553
  BY BrmBounds
<1> QED
  BY <1>1, Words1553 DEF Reply, Blank, Blocks1553

-----------------------------------------------------------------------------
(* The invariant.                                                          *)

LEMMA BrmTyped == BrmInv => BrmTypeOK
BY DEF BrmInv, BrmBase, BrmTypes, BrmTypeOK

LEMMA BrmInitInv == BrmInit => BrmInv
<1> SUFFICES ASSUME BrmInit
             PROVE  BrmInv
  OBVIOUS
<1>0. MaxRound1553 \in Nat \ {0} /\ MaxFaults \in Nat \ {0} /\ BmLen \in Nat \ {0}
  BY BrmBounds
<1>1. BrmOpened \in BrmChannels /\ BrmOpened.mode = "RT"
  BY DEF BrmOpened, BrmChannels, BrmModes
<1>2. Blank \in Blocks1553 /\ 0 \in 0 .. MaxRound1553 /\ 0 \in 0 .. MaxFaults /\ 0 \in 0 .. BmLen
  BY <1>0 DEF Blank, Blocks1553
<1>3. BrmTypes
  <2>1. bc \in [chan : BrmChannels, pc : {"mode", "block", "cmd", "result"}, sleep : 0 .. 20, j : 0 .. 5]
    BY <1>1 DEF BrmInit
  <2>2. rt \in [chan : BrmChannels, pc : {"off", "mode", "block", "loop"}, sleep : 0 .. 1,
                rxq : Seq([desc : 0 .. 63, data : Seq(0 .. 127), round : 0 .. MaxRound1553]),
                tx : [Subaddrs -> Blocks1553]]
    BY <1>1, <1>2 DEF BrmInit
  <2>3. bmon \in [chan : BrmChannels, pc : {"mode", "block", "loop"}, msgs : 0 .. BmLen]
    BY <1>1, <1>2 DEF BrmInit
  <2>4. /\ results \in [Subaddrs -> Blocks1553] /\ refused \subseteq Subaddrs
        /\ got \in [Subaddrs -> 0 .. MaxRound1553] /\ want \in [Subaddrs -> SUBSET (0 .. MaxRound1553)]
    BY <1>2 DEF BrmInit
  <2>5. faults \in 0 .. MaxFaults /\ cmdround \in 0 .. MaxRound1553
    BY <1>2 DEF BrmInit
  <2> QED
    BY <2>1, <2>2, <2>3, <2>4, <2>5 DEF BrmTypes
<1>4. SetUp1553
  BY <1>1 DEF BrmInit, SetUp1553
<1>5. Timely
  <2>1. rt.rxq = <<>> /\ rt.sleep = 0 /\ bc.pc # "result"
    BY DEF BrmInit
  <2>2. Sorted(rt.rxq, 0) /\ InTime1553(0)
    BY <2>1 DEF Sorted, InTime1553, MSG_CNT
  <2> QED
    BY <2>2 DEF Timely
<1>6. AnswersAll
  <2>1. ASSUME NEW j \in Subaddrs
        PROVE  AnswersLast(<<>>, Blank, FALSE, 0, j)
    BY DEF AnswersLast, Reply, Blank
  <2>2. /\ rt.rxq = <<>> /\ refused = {}
        /\ \A j \in Subaddrs : rt.tx[j] = Blank /\ got[j] = 0 /\ (j \in refused <=> FALSE)
    BY DEF BrmInit
  <2>3. ASSUME NEW j \in Subaddrs
        PROVE  AnswersLast(rt.rxq, rt.tx[j], j \in refused, got[j], j)
    <3>1. (j \in refused) = FALSE
      BY <2>2
    <3> QED
      BY <2>1, <2>2, <3>1
  <2> QED
    BY <2>3 DEF AnswersAll
<1>7. ResultsRight
  BY DEF BrmInit, ResultsRight, Reply
<1>8. Cmds1553(rt.rxq) /\ Rounds
  BY DEF BrmInit, Cmds1553, Rounds, Subaddrs, MSG_CNT
<1> QED
  BY <1>3, <1>4, <1>5, <1>6, <1>7, <1>8 DEF BrmInv, BrmBase, BrmAnswers

(* A step that leaves the terminal's messages alone.                       *)
LEMMA AnswersKept ==
  ASSUME AnswersAll, rt'.rxq = rt.rxq, rt'.tx = rt.tx, refused' = refused, got' = got
  PROVE  AnswersAll'
BY DEF AnswersAll, AnswersLast

LEMMA RoundsKept ==
  ASSUME Rounds, got' = got, cmdround' = cmdround, bc'.pc = bc.pc, bc'.j = bc.j
  PROVE  Rounds'
BY DEF Rounds

LEMMA CommandsKept ==
  ASSUME Cmds1553(rt.rxq), rt'.rxq = rt.rxq
  PROVE  Cmds1553(rt.rxq)'
BY DEF Cmds1553

LEMMA ResultsKept ==
  ASSUME ResultsRight, results' = results, want' = want
  PROVE  ResultsRight'
BY DEF ResultsRight

LEMMA TimelyKept ==
  ASSUME BrmTypes, Timely, faults' \in 0 .. MaxFaults, faults <= faults',
         rt'.rxq = rt.rxq, rt'.sleep = rt.sleep, bc'.pc = bc.pc, bc'.j = bc.j, bc'.sleep = bc.sleep
  PROVE  Timely'
<1>1. PICK m \in Nat : Sorted(rt.rxq, m) /\ InTime1553(m)
  BY DEF Timely
<1>2. MaxFaults \in Nat /\ faults \in 0 .. MaxFaults /\ rt.sleep \in 0 .. 1 /\ bc.sleep \in 0 .. 20
  BY BrmBounds DEF BrmTypes
<1>3. \A f, g \in 0 .. MaxFaults, s \in 0 .. 1, k \in Nat, b \in 0 .. 20 :
        f <= g => /\ s + k + (MaxFaults - f) <= b => s + k + (MaxFaults - g) <= b
                  /\ s + k + (MaxFaults - f) < b => s + k + (MaxFaults - g) < b
  BY <1>2
<1>4. /\ rt.sleep + m + (MaxFaults - faults) <= bc.sleep => rt'.sleep + m + (MaxFaults - faults') <= bc'.sleep
      /\ rt.sleep + m + (MaxFaults - faults) < bc.sleep => rt'.sleep + m + (MaxFaults - faults') < bc'.sleep
  BY <1>2, <1>3, Zenon
<1>5. InTime1553(m)'
  BY <1>1, <1>4, Zenon DEF InTime1553
<1> QED
  BY <1>1, <1>5, Zenon DEF Timely, Sorted

LEMMA ErrnoType ==
  ASSUME BrmTypes, NEW e, Errno(e)
  PROVE  faults' \in 0 .. MaxFaults /\ faults <= faults' /\ faults' \in Nat
BY BrmBounds DEF Errno, BrmTypes

LEMMA SetUpKeeps ==
  ASSUME BrmInv, BcSetUp \/ RtSetUp \/ BmSetUp \/ RtOption
  PROVE  BrmInv'
<1> USE DEF BrmInv, BrmBase, BrmAnswers
<1>e. /\ "0" \in BrmErrnos /\ "ENOMEM" \in BrmErrnos /\ "EIO" \in BrmErrnos
      /\ "EINVAL" \in BrmErrnos
  BY DEF BrmErrnos
<1>m. "BC" \in BrmModes /\ "RT" \in BrmModes /\ "BM" \in BrmModes /\ TRUE \in BOOLEAN /\ FALSE \in BOOLEAN
  BY DEF BrmModes
<1>c. bc.chan \in BrmChannels /\ rt.chan \in BrmChannels /\ bmon.chan \in BrmChannels
  BY DEF BrmTypes
<1>1. CASE BcSetUp
  <2>1. PICK e \in {"0", "ENOMEM"} :
          /\ Errno(e)
          /\ \/ bc.pc = "mode" /\ bc' = [bc EXCEPT !.pc = "block", !.chan = SetMode(@, "BC", e).chan]
             \/ bc.pc = "block" /\ bc' = [bc EXCEPT !.pc = "cmd", !.chan = SetBlock(@, TRUE, TRUE, "0", e).chan]
          /\ UNCHANGED <<rt, bmon, cmdround, results, got, refused, want>>
    BY <1>1 DEF BcSetUp
  <2>2. /\ SetMode(bc.chan, "BC", e).chan \in BrmChannels
        /\ SetBlock(bc.chan, TRUE, TRUE, "0", e).chan \in BrmChannels
    <3>1. e \in BrmErrnos
      BY <1>e
    <3>2. SetMode(bc.chan, "BC", e).chan \in BrmChannels
      BY <1>m, <1>c, <3>1, ModeCalls
    <3>3. SetBlock(bc.chan, TRUE, TRUE, "0", e).chan \in BrmChannels
      BY <1>e, <1>m, <1>c, <3>1, BlockCalls
    <3> QED
      BY <3>2, <3>3
  <2>3. /\ bc' \in [chan : BrmChannels, pc : {"mode", "block", "cmd", "result"}, sleep : 0 .. 20, j : 0 .. 5]
        /\ bc'.pc # "result" /\ bc.pc # "result" /\ bc'.j = bc.j /\ bc.j = 0
    BY <2>1, <2>2 DEF BrmTypes, SetUp1553
  <2>4. BrmTypes'
    BY <2>1, <2>3, ErrnoType DEF BrmTypes
  <2>5. SetUp1553'
    BY <2>1, <2>3 DEF SetUp1553
  <2>6. Cmds1553(rt.rxq)' /\ Rounds'
    BY <2>1, <2>3, CommandsKept DEF Rounds
  <2>7. ASSUME BrmAnswers
        PROVE  BrmAnswers'
    <3>1. Timely'
      BY <2>1, <2>3, <2>7, Zenon DEF Timely, Sorted, InTime1553
    <3> QED
      BY <2>1, <2>7, <3>1, AnswersKept, ResultsKept, Zenon
  <2> QED
    BY <2>4, <2>5, <2>6, <2>7, Zenon DEF Few1553
<1>2. CASE RtSetUp
  <2>1. PICK e \in {"0", "EIO"} :
          /\ Errno(e)
          /\ \/ rt.pc = "off" /\ rt' = [rt EXCEPT !.pc = "mode"]
             \/ rt.pc = "mode" /\ rt' = [rt EXCEPT !.pc = "block", !.chan = SetMode(@, "RT", e).chan]
             \/ rt.pc = "block" /\ rt' = [rt EXCEPT !.pc = "loop", !.chan = SetBlock(@, TRUE, FALSE, e, "0").chan]
          /\ UNCHANGED <<bc, bmon, cmdround, results, got, refused, want>>
    BY <1>2 DEF RtSetUp
  <2>2. /\ SetMode(rt.chan, "RT", e).chan \in BrmChannels
        /\ SetMode(rt.chan, "RT", e).chan.mode \in {"RT", rt.chan.mode}
        /\ SetBlock(rt.chan, TRUE, FALSE, e, "0").chan \in BrmChannels
        /\ SetBlock(rt.chan, TRUE, FALSE, e, "0").chan.mode = rt.chan.mode
    <3>1. e \in BrmErrnos
      BY <1>e
    <3>2. SetMode(rt.chan, "RT", e).chan \in BrmChannels /\ SetMode(rt.chan, "RT", e).chan.mode \in {"RT", rt.chan.mode}
      BY <1>m, <1>c, <3>1, ModeCalls
    <3>3. /\ SetBlock(rt.chan, TRUE, FALSE, e, "0").chan \in BrmChannels
          /\ SetBlock(rt.chan, TRUE, FALSE, e, "0").chan.mode = rt.chan.mode
      <4>1. \A f \in BrmErrnos, tx \in BOOLEAN, rx \in BOOLEAN :
              /\ SetBlock(rt.chan, tx, rx, e, f).chan \in BrmChannels
              /\ SetBlock(rt.chan, tx, rx, e, f).chan.mode = rt.chan.mode
        BY <1>c, <3>1, BlockCalls, SMTT(30)
      <4> QED
        BY <1>e, <4>1, Zenon
    <3> QED
      BY <3>2, <3>3
  <2>3. /\ rt' \in [chan : BrmChannels, pc : {"off", "mode", "block", "loop"}, sleep : 0 .. 1,
                    rxq : Seq([desc : 0 .. 63, data : Seq(0 .. 127), round : 0 .. MaxRound1553]),
                    tx : [Subaddrs -> Blocks1553]]
        /\ rt'.rxq = rt.rxq /\ rt'.sleep = rt.sleep /\ rt'.tx = rt.tx
        /\ rt'.chan.mode = "RT" /\ rt.rxq = <<>> /\ rt.sleep = 0
    BY <2>1, <2>2 DEF BrmTypes, SetUp1553
  <2>4. BrmTypes'
    BY <2>1, <2>3, ErrnoType DEF BrmTypes
  <2>5. SetUp1553'
    BY <2>1, <2>3 DEF SetUp1553
  <2>6. Cmds1553(rt.rxq)' /\ Rounds'
    BY <2>1, <2>3, CommandsKept, RoundsKept, Zenon
  <2>7. ASSUME BrmAnswers
        PROVE  BrmAnswers'
    BY <2>1, <2>3, <2>7, ErrnoType, TimelyKept, AnswersKept, ResultsKept, Zenon
  <2> QED
    BY <2>4, <2>5, <2>6, <2>7, Zenon DEF Few1553
<1>3. CASE BmSetUp
  <2>1. /\ \/ bmon.pc = "mode" /\ bmon' = [bmon EXCEPT !.pc = "block", !.chan = SetMode(@, "BM", "0").chan]
           \/ bmon.pc = "block" /\ bmon' = [bmon EXCEPT !.pc = "loop", !.chan = SetBlock(@, TRUE, TRUE, "0", "0").chan]
        /\ UNCHANGED <<bc, rt, faults, cmdround, results, got, refused, want>>
    BY <1>3 DEF BmSetUp
  <2>2. /\ SetMode(bmon.chan, "BM", "0").chan \in BrmChannels
        /\ SetMode(bmon.chan, "BM", "0").chan.mode = "BM"
        /\ SetBlock(bmon.chan, TRUE, TRUE, "0", "0").chan \in BrmChannels
        /\ SetBlock(bmon.chan, TRUE, TRUE, "0", "0").chan.mode = bmon.chan.mode
        /\ SetBlock(bmon.chan, TRUE, TRUE, "0", "0").chan.d_rxblk = TRUE
    <3>1. SetMode(bmon.chan, "BM", "0").chan \in BrmChannels /\ SetMode(bmon.chan, "BM", "0").chan.mode = "BM"
      BY <1>e, <1>m, <1>c, ModeCalls
    <3>2. /\ SetBlock(bmon.chan, TRUE, TRUE, "0", "0").chan \in BrmChannels
          /\ SetBlock(bmon.chan, TRUE, TRUE, "0", "0").chan.mode = bmon.chan.mode
          /\ SetBlock(bmon.chan, TRUE, TRUE, "0", "0").chan.d_rxblk = TRUE
      BY <1>e, <1>m, <1>c, BlockCalls
    <3> QED
      BY <3>1, <3>2
  <2>3. /\ bmon' \in [chan : BrmChannels, pc : {"mode", "block", "loop"}, msgs : 0 .. BmLen]
        /\ bmon'.chan.mode = "BM" /\ (bmon'.pc = "loop" => bmon'.chan.d_rxblk)
    BY <2>1, <2>2 DEF BrmTypes, SetUp1553
  <2>4. BrmTypes'
    BY <2>1, <2>3 DEF BrmTypes
  <2>5. SetUp1553'
    BY <2>1, <2>3 DEF SetUp1553
  <2>6. Cmds1553(rt.rxq)' /\ Rounds'
    BY <2>1, CommandsKept, RoundsKept, Zenon
  <2>7. ASSUME BrmAnswers
        PROVE  BrmAnswers'
    <3>1. faults' \in 0 .. MaxFaults /\ faults <= faults'
      BY <2>1, BrmBounds DEF BrmTypes
    <3> QED
      BY <2>1, <2>7, <3>1, TimelyKept, AnswersKept, ResultsKept, Zenon
  <2> QED
    BY <2>4, <2>5, <2>6, <2>7, Zenon DEF Few1553
<1>4. CASE RtOption
  <2>1. PICK e \in {"0", "EINVAL"}, on \in BOOLEAN :
          /\ Errno(e)
          /\ \E answer \in {SetBroadcast(rt.chan, on, e), SetBus(rt.chan, e), SetRtAddr(rt.chan, e),
                            SetMsgTimeout(rt.chan, e), SetStd(rt.chan, e)} :
               rt' = [rt EXCEPT !.chan = answer.chan]
    BY <1>4 DEF RtOption
  <2>2. UNCHANGED <<bc, bmon, cmdround, results, got, refused, want>>
    BY <1>4 DEF RtOption
  <2>3. PICK chan \in BrmChannels : chan.mode = "RT" /\ rt' = [rt EXCEPT !.chan = chan]
    <3>1. \A a \in {SetBroadcast(rt.chan, on, e), SetBus(rt.chan, e), SetRtAddr(rt.chan, e),
                    SetMsgTimeout(rt.chan, e), SetStd(rt.chan, e)} :
            a.chan \in BrmChannels /\ a.chan.mode = rt.chan.mode
      <4>1. e \in BrmErrnos
        BY <1>e
      <4> QED
        BY <1>c, <4>1, OptionCalls
    <3> QED
      BY <2>1, <3>1, Zenon DEF SetUp1553
  <2>4. /\ rt' \in [chan : BrmChannels, pc : {"off", "mode", "block", "loop"}, sleep : 0 .. 1,
                    rxq : Seq([desc : 0 .. 63, data : Seq(0 .. 127), round : 0 .. MaxRound1553]),
                    tx : [Subaddrs -> Blocks1553]]
        /\ rt'.rxq = rt.rxq /\ rt'.sleep = rt.sleep /\ rt'.tx = rt.tx /\ rt'.pc = rt.pc
        /\ rt'.chan.mode = "RT"
    BY <2>3 DEF BrmTypes
  <2>5. BrmTypes'
    BY <2>1, <2>2, <2>4, ErrnoType DEF BrmTypes
  <2>6. SetUp1553'
    BY <2>2, <2>4 DEF SetUp1553
  <2>7. Cmds1553(rt.rxq)' /\ Rounds'
    BY <2>2, <2>4, CommandsKept, RoundsKept, Zenon
  <2>8. ASSUME BrmAnswers
        PROVE  BrmAnswers'
    BY <2>1, <2>2, <2>4, <2>8, ErrnoType, TimelyKept, AnswersKept, ResultsKept, Zenon
  <2> QED
    BY <2>5, <2>6, <2>7, <2>8, Zenon DEF Few1553
<1> QED
  BY <1>1, <1>2, <1>3, <1>4

BcRecs == [chan : BrmChannels, pc : {"mode", "block", "cmd", "result"}, sleep : 0 .. 20, j : 0 .. 5]
RtRecs == [chan : BrmChannels, pc : {"off", "mode", "block", "loop"}, sleep : 0 .. 1,
           rxq : Seq(RtMsg), tx : [Subaddrs -> Blocks1553]]
BmRecs == [chan : BrmChannels, pc : {"mode", "block", "loop"}, msgs : 0 .. BmLen]

LEMMA Records == BrmTypes => bc \in BcRecs /\ rt \in RtRecs /\ bmon \in BmRecs
BY DEF BrmTypes, BcRecs, RtRecs, BmRecs, RtMsg

(* The records after a change of several fields.                           *)
BcTo(pc, s) == [bc EXCEPT !.j = 0, !.pc = pc, !.sleep = s]
BcRefused(pc, s) == [bc EXCEPT !.pc = pc, !.sleep = s]
RtTo(q, s) == [rt EXCEPT !.rxq = q, !.sleep = s]

LEMMA ControllerTo ==
  ASSUME bc \in BcRecs, NEW pc \in {"cmd", "result"}, NEW s \in 0 .. 20
  PROVE  /\ BcTo(pc, s) \in BcRecs
         /\ BcTo(pc, s).pc = pc /\ BcTo(pc, s).sleep = s /\ BcTo(pc, s).j = 0
<1> PICK j \in 0 .. 5 : j = 0
  OBVIOUS
<1>1. BcTo(pc, s) = [bc EXCEPT !.j = j, !.pc = pc, !.sleep = s]
  BY DEF BcTo
<1>2. /\ BcTo(pc, s) \in BcRecs
      /\ BcTo(pc, s).pc = pc /\ BcTo(pc, s).sleep = s /\ BcTo(pc, s).j = j
  BY <1>1 DEF BcRecs
<1> QED
  BY <1>2

LEMMA RefusedTo ==
  ASSUME bc \in BcRecs, NEW pc \in {"cmd", "result"}, NEW s \in 0 .. 20
  PROVE  /\ BcRefused(pc, s) \in BcRecs /\ BcRefused(pc, s).chan = bc.chan
         /\ BcRefused(pc, s).pc = pc /\ BcRefused(pc, s).sleep = s /\ BcRefused(pc, s).j = bc.j
BY DEF BcRecs, BcRefused

LEMMA TerminalTo ==
  ASSUME rt \in RtRecs, NEW q \in Seq(RtMsg), NEW s \in 0 .. 1
  PROVE  /\ RtTo(q, s) \in RtRecs /\ RtTo(q, s).chan = rt.chan /\ RtTo(q, s).pc = rt.pc
         /\ RtTo(q, s).rxq = q /\ RtTo(q, s).sleep = s /\ RtTo(q, s).tx = rt.tx
<1> HIDE DEF RtMsg
<1> QED
  BY DEF RtRecs, RtTo

LEMMA BcListKeeps ==
  ASSUME BrmInv, NEW pc \in {"cmd", "result"}, BcList(pc)
  PROVE  BrmInv'
<1> USE DEF BrmInv, BrmBase, BrmAnswers
<1>1. PICK e \in {"0", "EBUSY"} :
        /\ Errno(e)
        /\ bc' = IF DoList(bc.chan, e) = 0 THEN [bc EXCEPT !.j = 1]
                 ELSE [bc EXCEPT !.pc = "cmd", !.sleep = 1]
  BY DEF BcList
<1>2. /\ bc.pc = pc /\ bc.sleep = 0 /\ bc.j = 0
      /\ pc = "cmd" => cmdround < MaxRound1553
      /\ cmdround' = IF pc = "cmd" THEN cmdround + 1 ELSE cmdround
      /\ results' = [j \in Subaddrs |-> Blank] /\ want' = [j \in Subaddrs |-> {0}]
      /\ UNCHANGED <<rt, bmon, got, refused>>
  BY DEF BcList, BcAwake
<1>3. bc \in BcRecs /\ rt \in RtRecs /\ cmdround \in 0 .. MaxRound1553
  BY Records DEF BrmTypes
<1>4. /\ bc' \in BcRecs /\ bc'.chan = bc.chan
      /\ \/ bc'.pc = pc /\ bc'.sleep = 0 /\ bc'.j = 1
         \/ bc'.pc = "cmd" /\ bc'.sleep = 1 /\ bc'.j = 0
  <2>1. CASE bc' = [bc EXCEPT !.j = 1]
    BY <1>2, <1>3, <2>1 DEF BcRecs
  <2>2. CASE bc' = [bc EXCEPT !.pc = "cmd", !.sleep = 1]
    <3>1. 1 \in 0 .. 20 /\ "cmd" \in {"cmd", "result"} /\ bc \in BcRecs
      BY <1>3
    <3> DEFINE n == BcRefused("cmd", 1)
    <3>2. n \in BcRecs /\ n.chan = bc.chan /\ n.pc = "cmd" /\ n.sleep = 1 /\ n.j = bc.j
      BY <3>1, RefusedTo, Zenon
    <3> HIDE DEF n
    <3>3. bc' = n
      BY <2>2 DEF n, BcRefused
    <3> QED
      BY <1>2, <3>2, <3>3
  <2> QED
    BY <1>1, <2>1, <2>2
<1>5. cmdround' \in 0 .. MaxRound1553 /\ cmdround' > 0
  <2>1. pc = "result" => cmdround > 0
    BY <1>2 DEF SetUp1553
  <2> QED
    BY <1>2, <1>3, <2>1, BrmBounds
<1>6. Blank \in Blocks1553 /\ 0 \in 0 .. MaxRound1553
  BY BrmBounds DEF Blank, Blocks1553
<1>7. BrmTypes'
  <2>1. results' \in [Subaddrs -> Blocks1553] /\ want' \in [Subaddrs -> SUBSET (0 .. MaxRound1553)]
    BY <1>2, <1>6
  <2> QED
    BY <1>1, <1>2, <1>4, <1>5, <2>1, ErrnoType DEF BrmTypes, BcRecs
<1>8. SetUp1553'
  BY <1>2, <1>4, <1>5 DEF SetUp1553
<1>9. Cmds1553(rt.rxq)'
  BY <1>2, CommandsKept
<1>10. Rounds'
  <2>1. ASSUME NEW j \in Subaddrs
        PROVE  got'[j] <= cmdround' /\ (bc'.pc = "cmd" /\ bc'.j # 0 => got'[j] < cmdround')
    <3>1. got[j] \in 0 .. MaxRound1553 /\ got[j] <= cmdround /\ got'[j] = got[j]
      BY <1>2 DEF Rounds, BrmTypes
    <3>2. cmdround' = cmdround \/ (cmdround' = cmdround + 1 /\ pc = "cmd")
      BY <1>2
    <3>3. \A a, b \in Nat : a <= b => a <= b + 1 /\ a < b + 1
      OBVIOUS
    <3>4. got[j] \in Nat /\ cmdround \in Nat
      BY <1>3, <3>1
    <3>5. got[j] <= cmdround'
      BY <3>1, <3>2, <3>3, <3>4, Zenon
    <3>6. CASE pc = "cmd"
      BY <1>2, <3>1, <3>3, <3>4, <3>5, <3>6
    <3>7. CASE pc = "result"
      BY <1>4, <3>1, <3>5, <3>7
    <3> QED
      BY <3>6, <3>7
  <2> QED
    BY <2>1, Zenon DEF Rounds
<1>11. ASSUME BrmAnswers
       PROVE  BrmAnswers'
  <2>1. PICK m \in Nat : Sorted(rt.rxq, m) /\ InTime1553(m)
    BY <1>11 DEF Timely
  <2>2. m <= MSG_CNT /\ (pc = "result" => m = 0 /\ m = Len(rt.rxq))
    <3>1. MaxFaults \in Nat /\ faults \in 0 .. MaxFaults /\ rt.sleep \in 0 .. 1
      BY BrmBounds DEF BrmTypes
    <3>2. \A s \in 0 .. 1, k \in Nat, f \in 0 .. MaxFaults :
            ~(s + k + (MaxFaults - f) < 0) /\ (s + k + (MaxFaults - f) <= 0 => k = 0)
      BY <3>1
    <3>3. pc = "result" => m = 0 /\ m = Len(rt.rxq)
      BY <1>2, <2>1, <3>1, <3>2, Zenon DEF InTime1553
    <3> QED
      BY <1>2, <2>1, <3>3 DEF InTime1553, MSG_CNT
  <2>3. InTime1553(m)'
    <3>1. CASE bc'.pc = pc /\ bc'.sleep = 0 /\ bc'.j = 1
      BY <1>2, <2>2, <3>1 DEF InTime1553
    <3>2. CASE bc'.pc = "cmd" /\ bc'.sleep = 1 /\ bc'.j = 0
      BY <1>2, <2>2, <3>2 DEF InTime1553
    <3> QED
      BY <1>4, <3>1, <3>2
  <2>4. Timely'
    BY <1>2, <2>1, <2>3, Zenon DEF Timely, Sorted
  <2>5. AnswersAll'
    BY <1>2, <1>11, AnswersKept
  <2>6. ResultsRight'
    BY <1>2 DEF ResultsRight, Reply
  <2> QED
    BY <2>4, <2>5, <2>6
<1> QED
  BY <1>7, <1>8, <1>9, <1>10, <1>11, Zenon DEF Few1553

LEMMA HeardType ==
  ASSUME BrmTypes, SetUp1553, Heard
  PROVE  /\ bmon' \in BmRecs /\ bmon'.chan = bmon.chan /\ bmon'.pc = bmon.pc
<1>1. bmon \in BmRecs /\ BmLen \in Nat
  BY Records, BrmBounds
<1>2. bmon.msgs < BmLen => bmon.msgs + 1 \in 0 .. BmLen
  BY <1>1 DEF BmRecs
<1> QED
  BY <1>1, <1>2 DEF Heard, BmRecs

LEMMA BusCmdKeeps ==
  ASSUME BrmInv, BusCmd
  PROVE  BrmInv'
<1> USE DEF BrmInv, BrmBase, BrmAnswers
<1>1. /\ bc.pc = "cmd" /\ bc.sleep = 0 /\ bc.j \in Subaddrs
      /\ bc' = [bc EXCEPT !.j = @ + 1] /\ Heard
      /\ UNCHANGED <<cmdround, results, refused, want>>
  BY DEF BusCmd, BcAwake
<1>2. /\ bc \in BcRecs /\ rt \in RtRecs /\ cmdround \in 0 .. MaxRound1553 /\ cmdround > 0
      /\ got \in [Subaddrs -> 0 .. MaxRound1553]
  BY <1>1, Records DEF BrmTypes, SetUp1553, Subaddrs, MSG_CNT
<1>3. /\ bc' \in BcRecs /\ bc'.pc = "cmd" /\ bc'.sleep = 0
  BY <1>1, <1>2 DEF BcRecs, Subaddrs, MSG_CNT
<1>4. bmon' \in BmRecs /\ bmon'.chan = bmon.chan /\ bmon'.pc = bmon.pc
  BY <1>1, HeardType
<1>r. ASSUME NEW j \in Subaddrs
      PROVE  /\ got[j] \in Nat /\ got[j] <= cmdround
             /\ j >= bc.j => got[j] < cmdround
             /\ j >= bc'.j => j >= bc.j /\ j # bc.j
  <2>1. got[j] <= cmdround /\ (j >= bc.j => got[j] < cmdround)
    BY <1>1 DEF Rounds, Subaddrs, MSG_CNT
  <2>2. got[j] \in Nat
    BY <1>2
  <2>3. bc'.j = bc.j + 1 /\ j \in 1 .. 4 /\ bc.j \in 1 .. 4
    BY <1>1, <1>2 DEF BcRecs, Subaddrs, MSG_CNT
  <2> QED
    BY <2>1, <2>2, <2>3
<1> DEFINE x == [desc |-> bc.j, data |-> CmdData(bc.j), round |-> cmdround]
<1>5. CASE /\ rt.pc = "loop" /\ UNCHANGED faults
           /\ rt' = [rt EXCEPT !.rxq = Append(@, x)]
           /\ got' = [got EXCEPT ![bc.j] = cmdround]
  <2>1. x \in RtMsg /\ x.desc = bc.j /\ x.data = CmdData(x.desc) /\ x.round = cmdround
    BY <1>1, <1>2, Words1553, SMTT(30) DEF RtMsg, Subaddrs, MSG_CNT
  <2> HIDE DEF x
  <2>2. rt.rxq \in Seq(RtMsg) /\ Append(rt.rxq, x) \in Seq(RtMsg)
    BY <1>2, <2>1, QueueAppend DEF RtRecs
  <2>3. /\ rt' \in RtRecs /\ rt'.rxq = Append(rt.rxq, x) /\ rt'.tx = rt.tx /\ rt'.sleep = rt.sleep
        /\ rt'.pc = "loop" /\ rt'.chan = rt.chan
    BY <1>2, <1>5, <2>2 DEF RtRecs
  <2>4. /\ got' \in [Subaddrs -> 0 .. MaxRound1553] /\ got'[bc.j] = cmdround
        /\ \A j \in Subaddrs : j # bc.j => got'[j] = got[j]
    BY <1>1, <1>2, <1>5
  <2>5. BrmTypes'
    BY <1>1, <1>3, <1>4, <1>5, <2>3, <2>4 DEF BrmTypes, BcRecs, RtRecs, BmRecs, RtMsg
  <2>6. SetUp1553'
    BY <1>1, <1>2, <1>3, <1>4, <2>3 DEF SetUp1553
  <2>7. /\ Cmds1553(rt.rxq) => Cmds1553(Append(rt.rxq, x))
        /\ \A m \in Nat : Sorted(rt.rxq, m) => Sorted(Append(rt.rxq, x), m)
        /\ \A t, d : \A last \in Nat :
             last < x.round /\ AnswersLast(rt.rxq, t, d, last, x.desc)
             => AnswersLast(Append(rt.rxq, x), t, d, x.round, x.desc)
        /\ \A t, d : \A last \in Nat, j \in Subaddrs :
             j # x.desc /\ AnswersLast(rt.rxq, t, d, last, j) => AnswersLast(Append(rt.rxq, x), t, d, last, j)
    BY <1>1, <1>2, <2>1, <2>2, CommandComes
  <2>8. Cmds1553(rt.rxq)'
    BY <2>3, <2>7
  <2>9. Rounds'
    <3>1. ASSUME NEW j \in Subaddrs
          PROVE  got'[j] <= cmdround' /\ (j >= bc'.j => got'[j] < cmdround')
      <4>1. CASE j = bc.j
        BY <1>1, <1>2, <1>r, <2>4, <4>1
      <4>2. CASE j # bc.j
        BY <1>1, <1>r, <2>4, <4>2
      <4> QED
        BY <4>1, <4>2
    <3> QED
      BY <3>1, Zenon DEF Rounds
  <2>10. ASSUME BrmAnswers
         PROVE  BrmAnswers'
    <3>1. Timely'
      <4>1. PICK m \in Nat : Sorted(rt.rxq, m) /\ InTime1553(m)
        BY <2>10 DEF Timely
      <4>2. InTime1553(m)'
        BY <1>1, <1>3, <4>1 DEF InTime1553
      <4> QED
        BY <2>3, <2>7, <4>1, <4>2, Zenon DEF Timely
    <3>2. ASSUME NEW j \in Subaddrs
          PROVE  AnswersLast(rt'.rxq, rt'.tx[j], j \in refused', got'[j], j)
      <4>1. AnswersLast(rt.rxq, rt.tx[j], j \in refused, got[j], j) /\ got[j] \in Nat
        BY <1>r, <2>10, Zenon DEF AnswersAll
      <4>2. AnswersLast(Append(rt.rxq, x), rt.tx[j], j \in refused, got'[j], j)
        <5>1. CASE j = bc.j
          <6>1. j = x.desc /\ got'[j] = x.round /\ got[j] < x.round
            <7>1. \A k \in 1 .. 4 : k >= k
              OBVIOUS
            <7>2. j >= bc.j
              BY <5>1, <7>1 DEF Subaddrs, MSG_CNT
            <7> QED
              BY <1>r, <2>1, <2>4, <5>1, <7>2
          <6> QED
            BY <2>7, <4>1, <6>1, Zenon
        <5>2. CASE j # bc.j
          BY <2>1, <2>4, <2>7, <4>1, <5>2, Zenon
        <5> QED
          BY <5>1, <5>2
      <4> QED
        BY <1>1, <2>3, <4>2
    <3>3. AnswersAll'
      BY <3>2, Zenon DEF AnswersAll
    <3> QED
      BY <1>1, <2>10, <3>1, <3>3, ResultsKept, Zenon
  <2> QED
    BY <2>5, <2>6, <2>8, <2>9, <2>10, Zenon DEF Few1553
<1>6. CASE faults' \in 0 .. MaxFaults /\ faults <= faults' /\ UNCHANGED <<rt, got>>
  <2>1. BrmTypes'
    BY <1>1, <1>3, <1>4, <1>6 DEF BrmTypes, BcRecs, BmRecs
  <2>2. SetUp1553'
    BY <1>1, <1>2, <1>3, <1>4, <1>6 DEF SetUp1553
  <2>3. Cmds1553(rt.rxq)' /\ Rounds'
    <3>1. Rounds'
      BY <1>1, <1>6, <1>r, Zenon DEF Rounds
    <3> QED
      BY <1>6, <3>1, CommandsKept, Zenon
  <2>4. ASSUME BrmAnswers
        PROVE  BrmAnswers'
    <3>1. PICK m \in Nat : Sorted(rt.rxq, m) /\ InTime1553(m)
      BY <2>4 DEF Timely
    <3>2. InTime1553(m)'
      BY <1>1, <1>3, <1>6, <3>1 DEF InTime1553
    <3>3. Timely'
      BY <1>6, <3>1, <3>2, Zenon DEF Timely, Sorted
    <3> QED
      BY <1>1, <1>6, <2>4, <3>3, AnswersKept, ResultsKept, Zenon
  <2> QED
    BY <2>1, <2>2, <2>3, <2>4, Zenon DEF Few1553
<1>7. /\ faults \in 0 .. MaxFaults /\ faults <= faults
      /\ faults < MaxFaults => faults + 1 \in 0 .. MaxFaults /\ faults <= faults + 1
  BY BrmBounds DEF BrmTypes
<1>8. \/ /\ rt.pc = "loop" /\ UNCHANGED faults
         /\ rt' = [rt EXCEPT !.rxq = Append(@, x)]
         /\ got' = [got EXCEPT ![bc.j] = cmdround]
      \/ UNCHANGED <<faults, rt, got>>
      \/ faults < MaxFaults /\ faults' = faults + 1 /\ UNCHANGED <<rt, got>>
  BY DEF BusCmd
<1> HIDE DEF x
<1> QED
  BY <1>5, <1>6, <1>7, <1>8

LEMMA BusResultKeeps ==
  ASSUME BrmInv, BusResult
  PROVE  BrmInv'
<1> USE DEF BrmInv, BrmBase, BrmAnswers
<1>1. /\ bc.pc = "result" /\ bc.sleep = 0 /\ bc.j \in Subaddrs
      /\ bc' = [bc EXCEPT !.j = @ + 1] /\ Heard
      /\ UNCHANGED <<cmdround, got, refused>>
  BY DEF BusResult, BcAwake
<1>2. /\ bc \in BcRecs /\ rt \in RtRecs /\ bc.j \in 1 .. 4 /\ cmdround > 0
      /\ got \in [Subaddrs -> 0 .. MaxRound1553]
      /\ want \in [Subaddrs -> SUBSET (0 .. MaxRound1553)]
      /\ results \in [Subaddrs -> Blocks1553]
  BY <1>1, Records DEF BrmTypes, SetUp1553, Subaddrs, MSG_CNT
<1>3. /\ bc' \in BcRecs /\ bc'.pc = "result" /\ bc'.sleep = 0 /\ bc'.j = bc.j + 1
  BY <1>1, <1>2 DEF BcRecs
<1>4. bmon' \in BmRecs /\ bmon'.chan = bmon.chan /\ bmon'.pc = bmon.pc
  BY <1>1, HeardType
<1> DEFINE x == [desc |-> 32 + bc.j, data |-> <<>>, round |-> 0]
<1>m. Timely => \E m \in Nat : Sorted(rt.rxq, m) /\ m = Len(rt.rxq) /\ m < bc.j
  BY <1>1, <1>2 DEF Timely, InTime1553
<1>5. CASE /\ rt.pc = "loop" /\ UNCHANGED faults
           /\ rt' = [rt EXCEPT !.rxq = Append(@, x)]
           /\ results' = [results EXCEPT ![bc.j] = rt.tx[bc.j]]
           /\ want' = [want EXCEPT ![bc.j] = Fetchable(bc.j)]
  <2>1. x \in RtMsg /\ x.desc >= 32
    <3>1. 32 + bc.j \in 0 .. 63 /\ 32 + bc.j >= 32 /\ 0 \in 0 .. MaxRound1553 /\ <<>> \in Seq(0 .. 127)
      BY <1>2, BrmBounds
    <3> QED
      BY <3>1 DEF RtMsg
  <2> HIDE DEF x
  <2>2. rt.rxq \in Seq(RtMsg) /\ Append(rt.rxq, x) \in Seq(RtMsg)
    BY <1>2, <2>1, QueueAppend DEF RtRecs
  <2>3. /\ rt' \in RtRecs /\ rt'.rxq = Append(rt.rxq, x) /\ rt'.tx = rt.tx /\ rt'.sleep = rt.sleep
        /\ rt'.pc = "loop" /\ rt'.chan = rt.chan
    BY <1>2, <1>5, <2>2 DEF RtRecs
  <2>4. /\ Cmds1553(rt.rxq) => Cmds1553(Append(rt.rxq, x))
        /\ Len(rt.rxq) \in Nat /\ Len(Append(rt.rxq, x)) = Len(rt.rxq) + 1
        /\ Sorted(rt.rxq, Len(rt.rxq)) => /\ Sorted(Append(rt.rxq, x), Len(rt.rxq) + 1)
                                          /\ \A i \in DOMAIN rt.rxq : \A j \in Subaddrs : rt.rxq[i].desc # j
        /\ \A t, d, last : \A j \in Subaddrs :
             AnswersLast(rt.rxq, t, d, last, j) => AnswersLast(Append(rt.rxq, x), t, d, last, j)
    BY <2>1, <2>2, SentComes
  <2>6. results' \in [Subaddrs -> Blocks1553] /\ want' \in [Subaddrs -> SUBSET (0 .. MaxRound1553)]
    <3>1. got[bc.j] \in 0 .. MaxRound1553 /\ MaxRound1553 \in Nat
      BY <1>1, <1>2, BrmBounds
    <3>2. \A g \in 0 .. MaxRound1553 : 0 .. g - 1 \subseteq 0 .. MaxRound1553
      BY <3>1
    <3>3. Fetchable(bc.j) \subseteq 0 .. MaxRound1553
      BY <3>1, <3>2 DEF Fetchable
    <3> QED
      BY <1>1, <1>2, <1>5, <3>3 DEF RtRecs
  <2>7. BrmTypes'
    BY <1>1, <1>3, <1>4, <1>5, <2>3, <2>6 DEF BrmTypes, BcRecs, RtRecs, BmRecs, RtMsg
  <2>8. SetUp1553'
    BY <1>1, <1>2, <1>3, <1>4, <2>3 DEF SetUp1553
  <2>9. Cmds1553(rt.rxq)' /\ Rounds'
    <3>1. Rounds'
      BY <1>1, <1>3, Zenon DEF Rounds
    <3> QED
      BY <2>3, <2>4, <3>1, Zenon
  <2>10. ASSUME BrmAnswers
         PROVE  BrmAnswers'
    <3>0. PICK m \in Nat : Sorted(rt.rxq, m) /\ m = Len(rt.rxq) /\ m < bc.j
      BY <1>m, <2>10
    <3>1. Timely'
      <4>1. m + 1 \in Nat /\ m + 1 < bc.j + 1 /\ bc.j + 1 # 0
        BY <1>2, <3>0
      <4>2. InTime1553(m + 1)'
        BY <1>3, <2>3, <2>4, <3>0, <4>1 DEF InTime1553
      <4> QED
        BY <2>3, <2>4, <3>0, <4>1, <4>2, Zenon DEF Timely
    <3>2. AnswersAll'
      <4>1. ASSUME NEW j \in Subaddrs
            PROVE  AnswersLast(rt'.rxq, rt'.tx[j], j \in refused', got'[j], j)
        BY <1>1, <2>3, <2>4, <2>10, Zenon DEF AnswersAll
      <4> QED
        BY <4>1, Zenon DEF AnswersAll
    <3>3. ResultsRight'
      <4>1. ASSUME NEW j \in Subaddrs
            PROVE  \E round \in want'[j] : results'[j] = Reply(j, round)
        <5>1. CASE j = bc.j
          <6>1. AnswersLast(rt.rxq, rt.tx[j], j \in refused, got[j], j)
            BY <2>10, Zenon DEF AnswersAll
          <6>2. /\ rt.tx[j] = Reply(j, rt.tx[j].round) /\ rt.tx[j].round \in 0 .. got[j]
                /\ IF j \in refused THEN rt.tx[j].round < got[j] ELSE rt.tx[j].round = got[j]
            BY <2>4, <3>0, <6>1, Zenon DEF AnswersLast
          <6>3. \A g \in Nat : \A r \in 0 .. g : r < g => r \in 0 .. g - 1
            OBVIOUS
          <6>4. got[j] \in Nat
            BY <1>2
          <6>5. rt.tx[j].round \in Fetchable(j)
            BY <6>2, <6>3, <6>4, Zenon DEF Fetchable
          <6>6. results'[j] = rt.tx[j] /\ want'[j] = Fetchable(j)
            BY <1>2, <1>5, <5>1
          <6> QED
            BY <6>2, <6>5, <6>6, Zenon
        <5>2. CASE j # bc.j
          <6>1. results'[j] = results[j] /\ want'[j] = want[j]
            BY <1>2, <1>5, <5>2
          <6> QED
            BY <2>10, <6>1, Zenon DEF ResultsRight
        <5> QED
          BY <5>1, <5>2
      <4> QED
        BY <4>1, Zenon DEF ResultsRight
    <3> QED
      BY <3>1, <3>2, <3>3
  <2> QED
    BY <2>7, <2>8, <2>9, <2>10, Zenon DEF Few1553
<1>6. CASE faults' \in 0 .. MaxFaults /\ faults <= faults' /\ UNCHANGED <<rt, results, want>>
  <2>1. BrmTypes'
    BY <1>1, <1>3, <1>4, <1>6 DEF BrmTypes, BcRecs, BmRecs
  <2>2. SetUp1553'
    BY <1>1, <1>2, <1>3, <1>4, <1>6 DEF SetUp1553
  <2>3. Cmds1553(rt.rxq)' /\ Rounds'
    <3>1. Rounds'
      BY <1>1, <1>3, Zenon DEF Rounds
    <3> QED
      BY <1>6, <3>1, CommandsKept, Zenon
  <2>4. ASSUME BrmAnswers
        PROVE  BrmAnswers'
    <3>0. PICK m \in Nat : Sorted(rt.rxq, m) /\ m = Len(rt.rxq) /\ m < bc.j
      BY <1>m, <2>4
    <3>1. m < bc.j + 1 /\ bc.j + 1 # 0
      BY <1>2, <3>0
    <3>2. InTime1553(m)'
      BY <1>3, <1>6, <3>0, <3>1 DEF InTime1553
    <3>3. Timely'
      BY <1>6, <3>0, <3>2, Zenon DEF Timely, Sorted
    <3> QED
      BY <1>1, <1>6, <2>4, <3>3, AnswersKept, ResultsKept, Zenon
  <2> QED
    BY <2>1, <2>2, <2>3, <2>4, Zenon DEF Few1553
<1>7. /\ faults \in 0 .. MaxFaults /\ faults <= faults
      /\ faults < MaxFaults => faults + 1 \in 0 .. MaxFaults /\ faults <= faults + 1
  BY BrmBounds DEF BrmTypes
<1>8. \/ /\ rt.pc = "loop" /\ UNCHANGED faults
         /\ rt' = [rt EXCEPT !.rxq = Append(@, x)]
         /\ results' = [results EXCEPT ![bc.j] = rt.tx[bc.j]]
         /\ want' = [want EXCEPT ![bc.j] = Fetchable(bc.j)]
      \/ UNCHANGED <<faults, rt, results, want>>
      \/ faults < MaxFaults /\ faults' = faults + 1 /\ UNCHANGED <<rt, results, want>>
  BY DEF BusResult
<1> HIDE DEF x
<1> QED
  BY <1>5, <1>6, <1>7, <1>8

LEMMA BcDoneKeeps ==
  ASSUME BrmInv, BcDone
  PROVE  BrmInv'
<1> USE DEF BrmInv, BrmBase, BrmAnswers
<1>1. PICK result \in {0, 1} :
        /\ Errno(IF result = 1 THEN "0" ELSE "EIO")
        /\ bc' = CASE ~Listed(result) -> [bc EXCEPT !.j = 0, !.pc = "cmd", !.sleep = 1]
                   [] result = 1 /\ bc.pc = "cmd" -> [bc EXCEPT !.j = 0, !.pc = "result", !.sleep = 20]
                   [] OTHER -> [bc EXCEPT !.j = 0, !.pc = "cmd", !.sleep = 15]
  BY DEF BcDone
<1>2. bc.j > MSG_CNT /\ UNCHANGED <<rt, bmon, cmdround, results, got, refused, want>>
  BY DEF BcDone
<1>3. bc \in BcRecs /\ rt \in RtRecs /\ bc.j = 5 /\ bc.pc \in {"cmd", "result"} /\ rt.sleep \in 0 .. 1
  <2>1. bc \in BcRecs /\ rt \in RtRecs
    BY Records
  <2>2. bc.j \in 0 .. 5 /\ rt.sleep \in 0 .. 1
    BY <2>1 DEF BcRecs, RtRecs
  <2> QED
    BY <1>2, <2>1, <2>2 DEF SetUp1553, MSG_CNT
<1>4. /\ bc' \in BcRecs /\ bc'.j = 0
      /\ bc'.pc = "cmd" \/ (bc'.pc = "result" /\ bc'.sleep = 20)
  <2>1. CASE bc' = [bc EXCEPT !.j = 0, !.pc = "cmd", !.sleep = 1]
    <3> DEFINE n == BcTo("cmd", 1)
    <3>0. bc \in BcRecs /\ "cmd" \in {"cmd", "result"} /\ 1 \in 0 .. 20 /\ 0 \in 0 .. 5
      BY <1>3
    <3>1. n \in BcRecs /\ n.pc = "cmd" /\ n.sleep = 1 /\ n.j = 0
      BY <3>0, ControllerTo, Zenon
    <3> HIDE DEF n
    <3>2. bc' = n
      BY <2>1 DEF n, BcTo
    <3> QED
      BY <3>1, <3>2
  <2>2. CASE bc' = [bc EXCEPT !.j = 0, !.pc = "result", !.sleep = 20]
    <3> DEFINE n == BcTo("result", 20)
    <3>0. bc \in BcRecs /\ "result" \in {"cmd", "result"} /\ 20 \in 0 .. 20 /\ 0 \in 0 .. 5
      BY <1>3
    <3>1. n \in BcRecs /\ n.pc = "result" /\ n.sleep = 20 /\ n.j = 0
      BY <3>0, ControllerTo, Zenon
    <3> HIDE DEF n
    <3>2. bc' = n
      BY <2>2 DEF n, BcTo
    <3> QED
      BY <3>1, <3>2
  <2>3. CASE bc' = [bc EXCEPT !.j = 0, !.pc = "cmd", !.sleep = 15]
    <3> DEFINE n == BcTo("cmd", 15)
    <3>0. bc \in BcRecs /\ "cmd" \in {"cmd", "result"} /\ 15 \in 0 .. 20 /\ 0 \in 0 .. 5
      BY <1>3
    <3>1. n \in BcRecs /\ n.pc = "cmd" /\ n.sleep = 15 /\ n.j = 0
      BY <3>0, ControllerTo, Zenon
    <3> HIDE DEF n
    <3>2. bc' = n
      BY <2>3 DEF n, BcTo
    <3> QED
      BY <3>1, <3>2
  <2> QED
    BY <1>1, <2>1, <2>2, <2>3
<1>5. BrmTypes'
  BY <1>1, <1>2, <1>4, ErrnoType DEF BrmTypes, BcRecs
<1>6. SetUp1553'
  <2>1. cmdround' > 0
    BY <1>2, <1>3 DEF SetUp1553
  <2> QED
    BY <1>2, <1>4, <2>1 DEF SetUp1553
<1>7. Cmds1553(rt.rxq)' /\ Rounds'
  <2>1. Rounds'
    BY <1>2, <1>4, Zenon DEF Rounds
  <2> QED
    BY <1>2, <2>1, CommandsKept, Zenon
<1>8. ASSUME MaxFaults <= 14, BrmAnswers
      PROVE  BrmAnswers'
  <2>1. PICK m \in Nat : Sorted(rt.rxq, m) /\ InTime1553(m)
    BY <1>8 DEF Timely
  <2>2. m <= 4
    BY <1>3, <2>1 DEF InTime1553, MSG_CNT
  <2>3. MaxFaults \in 0 .. 14 /\ faults' \in 0 .. MaxFaults /\ rt'.sleep \in 0 .. 1
    <3>1. faults' \in 0 .. MaxFaults
      BY <1>1, ErrnoType
    <3> QED
      BY <1>2, <1>3, <1>8, <3>1, BrmBounds
  <2>4. rt'.sleep + m + (MaxFaults - faults') <= 20 /\ rt'.sleep + m + (MaxFaults - faults') < 20
    <3>1. \A s \in 0 .. 1, k \in Nat, n \in 0 .. 14 : \A f \in 0 .. n :
            k <= 4 => s + k + (n - f) <= 20 /\ s + k + (n - f) < 20
      OBVIOUS
    <3> QED
      BY <2>2, <2>3, <3>1, Zenon
  <2>5. InTime1553(m)'
    <3>1. CASE bc'.pc = "cmd"
      BY <2>2, <3>1 DEF InTime1553, MSG_CNT
    <3>2. CASE bc'.pc = "result" /\ bc'.sleep = 20
      BY <1>4, <2>4, <3>2, Zenon DEF InTime1553
    <3> QED
      BY <1>4, <3>1, <3>2
  <2>6. Timely'
    BY <1>2, <2>1, <2>5, Zenon DEF Timely, Sorted
  <2> QED
    BY <1>2, <1>8, <2>6, AnswersKept, ResultsKept, Zenon
<1> QED
  BY <1>5, <1>6, <1>7, <1>8, Zenon DEF Few1553

(* The terminal when it is its turn, and what it reads.                    *)
LEMMA TerminalAwake ==
  ASSUME BrmBase, RtAwake
  PROVE  /\ rt \in RtRecs /\ rt.rxq \in Seq(RtMsg) /\ Len(rt.rxq) \in Nat /\ bc \in BcRecs
         /\ rt.tx \in [Subaddrs -> Blocks1553] /\ rt.chan \in BrmChannels
         /\ rt.chan.mode = "RT" /\ rt.sleep = 0 /\ rt.pc = "loop"
         /\ RtRead("0").ret > 0 => rt.rxq # <<>>
         /\ RtRead("0").ret <= 0 /\ ~RtRead("0").blocks => rt.rxq = <<>>
<1> USE DEF BrmBase
<1>1. rt \in RtRecs /\ bc \in BcRecs
  BY Records
<1>2. rt.rxq \in Seq(RtMsg) /\ rt.tx \in [Subaddrs -> Blocks1553] /\ rt.chan \in BrmChannels
  BY <1>1 DEF RtRecs
<1> HIDE DEF RtMsg
<1>3. Len(rt.rxq) \in Nat /\ (Len(rt.rxq) = 0 <=> rt.rxq = <<>>)
  BY <1>2, EmptySeq, LenProperties
<1>4. rt.chan.mode = "RT" /\ rt.sleep = 0 /\ rt.pc = "loop"
  BY DEF RtAwake, SetUp1553
<1>5. ASSUME Len(rt.rxq) > 0
      PROVE  RtRead("0").ret = 1
  <2>1. \A n \in Nat : n > 0 => (IF 1 < n THEN 1 ELSE n) = 1
    OBVIOUS
  <2> QED
    BY <1>3, <1>4, <1>5, <2>1 DEF RtRead, BrmRead
<1>6. ASSUME Len(rt.rxq) = 0
      PROVE  RtRead("0").ret \in {-1, 0}
  BY <1>3, <1>4, <1>6 DEF RtRead, BrmRead, Refused
<1> QED
  BY <1>1, <1>2, <1>3, <1>4, <1>5, <1>6

LEMMA RtIdleKeeps ==
  ASSUME BrmInv, RtIdle
  PROVE  BrmInv'
<1> USE DEF BrmInv, BrmBase, BrmAnswers
<1>1. PICK e \in {"0", "EBUSY", "EIO"} : Errno(e) /\ RtRead(e).ret <= 0 /\ ~RtRead(e).blocks
  BY DEF RtIdle
<1>2. /\ rt' = [rt EXCEPT !.sleep = 1] /\ RtAwake
      /\ UNCHANGED <<bc, bmon, cmdround, results, got, refused, want>>
  BY DEF RtIdle
<1>3. /\ rt \in RtRecs /\ bc \in BcRecs /\ rt.sleep = 0 /\ rt.pc = "loop"
      /\ e = "0" => rt.rxq = <<>>
  BY <1>1, <1>2, TerminalAwake
<1>4. /\ rt' \in RtRecs /\ rt'.rxq = rt.rxq /\ rt'.tx = rt.tx /\ rt'.sleep = 1 /\ rt'.pc = rt.pc
      /\ rt'.chan = rt.chan
  BY <1>2, <1>3 DEF RtRecs
<1>5. BrmTypes'
  BY <1>1, <1>2, <1>4, ErrnoType DEF BrmTypes, RtRecs, RtMsg
<1>6. SetUp1553'
  BY <1>2, <1>3, <1>4 DEF SetUp1553
<1>7. Cmds1553(rt.rxq)' /\ Rounds'
  BY <1>2, <1>4, CommandsKept, RoundsKept, Zenon
<1>8. ASSUME BrmAnswers
      PROVE  BrmAnswers'
  <2>1. PICK m \in Nat : Sorted(rt.rxq, m) /\ InTime1553(m)
    BY <1>8 DEF Timely
  <2>2. InTime1553(m)'
    <3>1. CASE e = "0"
      <4>1. m = 0 /\ m = Len(rt.rxq)
        BY <1>3, <2>1, <3>1 DEF Sorted
      <4>2. bc.j \in 0 .. 5
        BY <1>3 DEF BcRecs
      <4> QED
        BY <1>2, <1>4, <4>1, <4>2 DEF InTime1553, MSG_CNT
    <3>2. CASE e # "0"
      <4>1. /\ MaxFaults \in Nat /\ faults \in 0 .. MaxFaults /\ faults < MaxFaults /\ faults' = faults + 1
        BY <1>1, <3>2, BrmBounds DEF Errno, BrmTypes
      <4>2. \A k \in Nat, f \in 0 .. MaxFaults : 0 + k + (MaxFaults - f) = 1 + k + (MaxFaults - (f + 1))
        BY <4>1
      <4>3. rt.sleep + m + (MaxFaults - faults) = rt'.sleep + m + (MaxFaults - faults')
        BY <1>3, <1>4, <4>1, <4>2, Zenon
      <4> QED
        BY <1>2, <1>4, <2>1, <4>3, Zenon DEF InTime1553
    <3> QED
      BY <3>1, <3>2
  <2>3. Timely'
    BY <1>4, <2>1, <2>2, Zenon DEF Timely, Sorted
  <2> QED
    BY <1>2, <1>4, <1>8, <2>3, AnswersKept, ResultsKept, Zenon
<1> QED
  BY <1>5, <1>6, <1>7, <1>8, Zenon DEF Few1553

LEMMA RtSentKeeps ==
  ASSUME BrmInv, RtSent
  PROVE  BrmInv'
<1> USE DEF BrmInv, BrmBase, BrmAnswers
<1>1. /\ RtAwake /\ RtRead("0").ret > 0 /\ Head(rt.rxq).desc >= 32
      /\ rt' = [rt EXCEPT !.rxq = Tail(@), !.sleep = 1]
      /\ UNCHANGED <<bc, bmon, faults, cmdround, results, got, refused, want>>
  BY DEF RtSent
<1>2. /\ rt \in RtRecs /\ bc \in BcRecs /\ rt.sleep = 0 /\ rt.pc = "loop"
      /\ rt.rxq \in Seq(RtMsg) /\ rt.rxq # <<>>
  BY <1>1, TerminalAwake
<1> DEFINE q == Tail(rt.rxq)
           h == Head(rt.rxq)
<1>3. q \in Seq(RtMsg) /\ h \in RtMsg /\ Len(rt.rxq) \in Nat \ {0} /\ Len(q) = Len(rt.rxq) - 1
  BY <1>2, QueueTail
<1>4. /\ Cmds1553(rt.rxq) => Cmds1553(q)
      /\ \A m \in Nat : Sorted(rt.rxq, m) => m > 0 /\ Sorted(q, m - 1)
      /\ \A t, d, last : \A j \in Subaddrs :
           h.desc # j /\ AnswersLast(rt.rxq, t, d, last, j) => AnswersLast(q, t, d, last, j)
  BY <1>1, <1>2, MessageTaken
<1>5. \A j \in Subaddrs : h.desc # j
  <2>1. h.desc \in 0 .. 63
    BY <1>3 DEF RtMsg
  <2> QED
    BY <1>1, <2>1 DEF Subaddrs, MSG_CNT
<1>6. rt' = RtTo(q, 1)
  BY <1>1 DEF RtTo
<1> HIDE DEF q, h
<1>7. /\ rt' \in RtRecs /\ rt'.rxq = q /\ rt'.tx = rt.tx /\ rt'.sleep = 1 /\ rt'.pc = rt.pc
      /\ rt'.chan = rt.chan
  <2>1. 1 \in 0 .. 1 /\ rt \in RtRecs /\ q \in Seq(RtMsg)
    BY <1>2, <1>3
  <2> DEFINE w == RtTo(q, 1)
  <2>2. w \in RtRecs /\ w.rxq = q /\ w.tx = rt.tx /\ w.sleep = 1 /\ w.pc = rt.pc /\ w.chan = rt.chan
    BY <2>1, TerminalTo, Zenon
  <2> HIDE DEF w
  <2>3. rt' = w
    BY <1>6 DEF w
  <2> QED
    BY <2>2, <2>3
<1>8. BrmTypes'
  BY <1>1, <1>7 DEF BrmTypes, RtRecs, RtMsg
<1>9. SetUp1553'
  BY <1>1, <1>2, <1>7 DEF SetUp1553
<1>10. Cmds1553(rt.rxq)' /\ Rounds'
  BY <1>1, <1>4, <1>7, RoundsKept, Zenon
<1>11. ASSUME BrmAnswers
       PROVE  BrmAnswers'
  <2>1. PICK m \in Nat : Sorted(rt.rxq, m) /\ InTime1553(m)
    BY <1>11 DEF Timely
  <2>2. m > 0 /\ Sorted(q, m - 1) /\ m - 1 \in Nat
    BY <1>4, <2>1
  <2>3. InTime1553(m - 1)'
    <3>1. MaxFaults \in Nat /\ faults \in 0 .. MaxFaults /\ bc.j \in 0 .. 5
      BY <1>2, BrmBounds DEF BrmTypes, BcRecs
    <3>2. \A k \in Nat, f \in 0 .. MaxFaults : 0 + k + (MaxFaults - f) = 1 + (k - 1) + (MaxFaults - f)
      BY <3>1
    <3>3. rt.sleep + m + (MaxFaults - faults) = rt'.sleep + (m - 1) + (MaxFaults - faults')
      BY <1>1, <1>2, <1>7, <3>1, <3>2, Zenon
    <3>4. m = Len(rt.rxq) => m - 1 = Len(q)
      BY <1>3
    <3>5. (m <= MSG_CNT => m - 1 <= MSG_CNT) /\ (m < bc.j => m - 1 < bc.j) /\ m # 0
      BY <2>1, <2>2, <3>1 DEF MSG_CNT
    <3> QED
      BY <1>1, <1>7, <2>1, <3>3, <3>4, <3>5, Zenon DEF InTime1553
  <2>4. Timely'
    BY <1>7, <2>2, <2>3, Zenon DEF Timely
  <2>5. AnswersAll'
    <3>1. ASSUME NEW j \in Subaddrs
          PROVE  AnswersLast(rt'.rxq, rt'.tx[j], j \in refused', got'[j], j)
      BY <1>1, <1>4, <1>5, <1>7, <1>11, Zenon DEF AnswersAll
    <3> QED
      BY <3>1, Zenon DEF AnswersAll
  <2> QED
    BY <1>1, <1>11, <2>4, <2>5, ResultsKept, Zenon
<1> QED
  BY <1>8, <1>9, <1>10, <1>11, Zenon DEF Few1553

LEMMA RtReplyKeeps ==
  ASSUME BrmInv, RtReply
  PROVE  BrmInv'
<1> USE DEF BrmInv, BrmBase, BrmAnswers
<1> DEFINE q == Tail(rt.rxq)
           h == Head(rt.rxq)
           r == [data |-> Twisted(h.data), round |-> h.round]
<1>0. RtAwake /\ RtRead("0").ret > 0 /\ h.desc < 32
      /\ UNCHANGED <<bc, bmon, cmdround, results, got, want>>
  BY DEF RtReply
<1>1. PICK e \in {"0", "EBUSY", "EIO"} :
        /\ Errno(e)
        /\ \/ rt' = [rt EXCEPT !.rxq = q, !.tx[h.desc] = r] /\ refused' = refused \ {h.desc}
           \/ rt' = [rt EXCEPT !.rxq = q] /\ refused' = refused \cup {h.desc}
  BY Zenon DEF RtReply
<1>2. /\ rt \in RtRecs /\ bc \in BcRecs /\ rt.sleep = 0 /\ rt.pc = "loop"
      /\ rt.rxq \in Seq(RtMsg) /\ rt.rxq # <<>> /\ rt.tx \in [Subaddrs -> Blocks1553]
  BY <1>0, TerminalAwake
<1>3. q \in Seq(RtMsg) /\ h \in RtMsg /\ Len(rt.rxq) \in Nat \ {0} /\ Len(q) = Len(rt.rxq) - 1
  BY <1>2, QueueTail
<1>t. h.desc \in 0 .. 63 /\ h.round \in 0 .. MaxRound1553
  BY <1>3 DEF RtMsg
<1>4. /\ Cmds1553(rt.rxq) => /\ Cmds1553(q)
                             /\ h.desc \in Subaddrs /\ h.round > 0 /\ h.data = CmdData(h.desc)
      /\ \A m \in Nat : Sorted(rt.rxq, m) => m = 0 /\ Sorted(q, 0)
      /\ \A t, d, last : \A j \in Subaddrs :
           h.desc # j /\ AnswersLast(rt.rxq, t, d, last, j) => AnswersLast(q, t, d, last, j)
      /\ \A t, u, d, e1 : \A last \in Nat, j \in Subaddrs :
           /\ h.desc = j /\ AnswersLast(rt.rxq, t, d, last, j)
           /\ IF e1 THEN u = t ELSE u = Reply(j, h.round) /\ u.round = h.round
           => AnswersLast(q, u, e1, last, j)
  <2>1. ~(h.desc >= 32)
    BY <1>0, <1>t
  <2> QED
    BY <1>0, <1>2, <2>1, MessageTaken
<1>5. h.desc \in Subaddrs /\ h.round > 0 /\ h.data = CmdData(h.desc)
  BY <1>4
<1>6. r = Reply(h.desc, h.round) /\ r \in Blocks1553 /\ r.round = h.round
  <2>1. h.round # 0
    BY <1>t, <1>5
  <2>2. r = Reply(h.desc, h.round)
    BY <1>5, <2>1 DEF Reply
  <2> QED
    BY <1>t, <1>5, <2>2, ReplyTypes
<1> HIDE DEF q, h, r
<1>7. /\ rt' \in RtRecs /\ rt'.rxq = q /\ rt'.sleep = 0 /\ rt'.pc = rt.pc /\ rt'.chan = rt.chan
      /\ refused' \subseteq Subaddrs
      /\ \A j \in Subaddrs : j # h.desc => rt'.tx[j] = rt.tx[j] /\ (j \in refused' <=> j \in refused)
      /\ IF h.desc \in refused' THEN rt'.tx[h.desc] = rt.tx[h.desc] ELSE rt'.tx[h.desc] = r
  <2>1. CASE rt' = [rt EXCEPT !.rxq = q, !.tx[h.desc] = r] /\ refused' = refused \ {h.desc}
    <3> DEFINE w == [rt.tx EXCEPT ![h.desc] = r]
    <3>1. /\ w \in [Subaddrs -> Blocks1553] /\ w[h.desc] = r
          /\ \A j \in Subaddrs : j # h.desc => w[j] = rt.tx[j]
      BY <1>2, <1>5, <1>6
    <3>2. rt' = [rt EXCEPT !.rxq = q, !.tx = w]
      BY <2>1
    <3> HIDE DEF w, RtMsg
    <3>3. rt' \in RtRecs /\ rt'.rxq = q /\ rt'.sleep = 0 /\ rt'.pc = rt.pc /\ rt'.chan = rt.chan /\ rt'.tx = w
      BY <1>2, <1>3, <3>1, <3>2 DEF RtRecs
    <3>4. refused' \subseteq Subaddrs /\ h.desc \notin refused'
          /\ \A j \in Subaddrs : j # h.desc => (j \in refused' <=> j \in refused)
      BY <2>1 DEF BrmTypes
    <3> QED
      BY <3>1, <3>3, <3>4
  <2>2. CASE rt' = [rt EXCEPT !.rxq = q] /\ refused' = refused \cup {h.desc}
    <3> HIDE DEF RtMsg
    <3>1. rt' \in RtRecs /\ rt'.rxq = q /\ rt'.sleep = 0 /\ rt'.pc = rt.pc /\ rt'.chan = rt.chan /\ rt'.tx = rt.tx
      BY <1>2, <1>3, <2>2 DEF RtRecs
    <3>2. refused' \subseteq Subaddrs /\ h.desc \in refused'
          /\ \A j \in Subaddrs : j # h.desc => (j \in refused' <=> j \in refused)
      BY <1>5, <2>2 DEF BrmTypes
    <3> QED
      BY <3>1, <3>2
  <2> QED
    BY <1>1, <2>1, <2>2
<1>e. faults' \in 0 .. MaxFaults /\ faults <= faults'
  BY <1>1, ErrnoType
<1>8. BrmTypes'
  BY <1>0, <1>7, <1>e DEF BrmTypes, RtRecs, RtMsg
<1>9. SetUp1553'
  BY <1>0, <1>2, <1>7 DEF SetUp1553
<1>10. Cmds1553(rt.rxq)' /\ Rounds'
  BY <1>0, <1>4, <1>7, RoundsKept, Zenon
<1>11. ASSUME BrmAnswers
       PROVE  BrmAnswers'
  <2>1. PICK m \in Nat : Sorted(rt.rxq, m) /\ InTime1553(m)
    BY <1>11 DEF Timely
  <2>2. m = 0 /\ Sorted(q, 0)
    BY <1>4, <2>1
  <2>3. InTime1553(0)'
    <3>1. MaxFaults \in Nat /\ faults \in 0 .. MaxFaults /\ bc.sleep \in 0 .. 20
      BY <1>2, BrmBounds DEF BrmTypes, BcRecs
    <3>2. m # Len(rt.rxq)
      BY <1>3, <2>2
    <3>3. bc.pc = "result" => bc.j = 0 /\ rt.sleep + m + (MaxFaults - faults) < bc.sleep
      BY <2>1, <3>2, Zenon DEF InTime1553
    <3>4. \A f, g \in 0 .. MaxFaults, b \in 0 .. 20 :
            f <= g => (0 + 0 + (MaxFaults - f) < b => 0 + 0 + (MaxFaults - g) < b)
      BY <3>1
    <3>5. bc'.pc = "result" => bc'.j = 0 /\ rt'.sleep + 0 + (MaxFaults - faults') < bc'.sleep
      BY <1>0, <1>2, <1>7, <1>e, <2>2, <3>1, <3>3, <3>4, Zenon
    <3>6. 0 <= MSG_CNT
      BY DEF MSG_CNT
    <3> QED
      BY <3>5, <3>6, Zenon DEF InTime1553
  <2>4. Timely'
    BY <1>7, <2>2, <2>3, Zenon DEF Timely
  <2>5. AnswersAll'
    <3>1. ASSUME NEW j \in Subaddrs
          PROVE  AnswersLast(rt'.rxq, rt'.tx[j], j \in refused', got'[j], j)
      <4>1. AnswersLast(rt.rxq, rt.tx[j], j \in refused, got[j], j) /\ got'[j] = got[j]
        BY <1>0, <1>11, Zenon DEF AnswersAll
      <4>2. got[j] \in Nat
        BY BrmBounds DEF BrmTypes
      <4>3. AnswersLast(q, rt'.tx[j], j \in refused', got[j], j)
        <5>1. CASE h.desc = j
          <6>1. IF j \in refused' THEN rt'.tx[j] = rt.tx[j]
                ELSE rt'.tx[j] = Reply(j, h.round) /\ rt'.tx[j].round = h.round
            BY <1>6, <1>7, <5>1
          <6> QED
            BY <1>4, <4>1, <4>2, <5>1, <6>1, Zenon
        <5>2. CASE h.desc # j
          <6>1. rt'.tx[j] = rt.tx[j] /\ (j \in refused') = (j \in refused)
            BY <1>7, <5>2
          <6>2. AnswersLast(q, rt.tx[j], j \in refused, got[j], j)
            BY <1>4, <4>1, <5>2, Zenon
          <6> QED
            BY <6>1, <6>2
        <5> QED
          BY <5>1, <5>2
      <4> QED
        BY <1>7, <4>1, <4>3
    <3> QED
      BY <3>1, Zenon DEF AnswersAll
  <2> QED
    BY <1>0, <1>11, <2>4, <2>5, ResultsKept, Zenon
<1> QED
  BY <1>8, <1>9, <1>10, <1>11, Zenon DEF Few1553

LEMMA BmLoopKeeps ==
  ASSUME BrmInv, BmLoop
  PROVE  BrmInv'
<1> USE DEF BrmInv, BrmBase, BrmAnswers
<1>1. PICK e \in {"0", "EIO"} :
        /\ Errno(e) /\ ~BrmRead(bmon.chan, "BM", 3, bmon.msgs, e).blocks
        /\ bmon' = IF BrmRead(bmon.chan, "BM", 3, bmon.msgs, e).ret > 0
                     THEN [bmon EXCEPT !.msgs = @ - BrmRead(bmon.chan, "BM", 3, bmon.msgs, e).ret] ELSE bmon
  BY Zenon DEF BmLoop
<1> DEFINE read == BrmRead(bmon.chan, "BM", 3, bmon.msgs, e)
<1>2. bmon.pc = "loop" /\ UNCHANGED <<bc, rt, cmdround, results, got, refused, want>>
  BY DEF BmLoop
<1>3. bmon \in BmRecs /\ bmon.msgs \in 0 .. BmLen /\ BmLen \in Nat /\ bmon.chan.mode = "BM"
  BY <1>2, Records, BrmBounds DEF BmRecs, SetUp1553
<1>4. read.ret > 0 => read.ret \in 0 .. bmon.msgs
  <2>1. CASE e = "0" /\ bmon.msgs > 0
    <3>1. read.ret = IF 3 < bmon.msgs THEN 3 ELSE bmon.msgs
      BY <1>3, <2>1 DEF BrmRead
    <3> QED
      BY <1>3, <2>1, <3>1
  <2>2. CASE ~(e = "0" /\ bmon.msgs > 0)
    <3>1. \A f, b : Refused(f, b) <= 0
      BY DEF Refused
    <3>2. read.ret <= 0 /\ read.ret \in {-1, 0}
      BY <1>3, <2>2, <3>1 DEF BrmRead, Refused
    <3> QED
      BY <3>2
  <2> QED
    BY <2>1, <2>2
<1>5. bmon' = IF read.ret > 0 THEN [bmon EXCEPT !.msgs = @ - read.ret] ELSE bmon
  BY <1>1
<1> HIDE DEF read
<1>6. read.ret > 0 => bmon.msgs - read.ret \in 0 .. BmLen
  BY <1>3, <1>4
<1>7. bmon' \in BmRecs /\ bmon'.chan = bmon.chan /\ bmon'.pc = bmon.pc
  BY <1>3, <1>5, <1>6 DEF BmRecs
<1>8. faults' \in 0 .. MaxFaults /\ faults <= faults'
  BY <1>1, ErrnoType
<1>9. BrmTypes'
  BY <1>2, <1>7, <1>8 DEF BrmTypes, BmRecs
<1>10. SetUp1553'
  BY <1>2, <1>7 DEF SetUp1553
<1>11. Cmds1553(rt.rxq)' /\ Rounds'
  BY <1>2, CommandsKept, RoundsKept, Zenon
<1>12. ASSUME BrmAnswers
       PROVE  BrmAnswers'
  BY <1>2, <1>8, <1>12, TimelyKept, AnswersKept, ResultsKept, Zenon
<1> QED
  BY <1>9, <1>10, <1>11, <1>12, Zenon DEF Few1553

LEMMA SecondKeeps ==
  ASSUME BrmInv, Second
  PROVE  BrmInv'
<1> USE DEF BrmInv, BrmBase, BrmAnswers
<1>1. /\ bc.sleep > 0 /\ (rt.pc = "off" \/ rt.sleep > 0)
      /\ bc' = [bc EXCEPT !.sleep = @ - 1]
      /\ rt' = [rt EXCEPT !.sleep = IF @ > 0 THEN @ - 1 ELSE 0]
      /\ UNCHANGED <<bmon, faults, cmdround, results, got, refused, want>>
  BY DEF Second
<1>2. /\ bc \in BcRecs /\ rt \in RtRecs /\ bc.sleep \in 0 .. 20 /\ rt.sleep \in 0 .. 1 /\ bc.j = 0
      /\ (rt.sleep = 0 => rt.rxq = <<>>)
  <2>1. bc \in BcRecs /\ rt \in RtRecs
    BY Records
  <2>2. bc.sleep \in 0 .. 20 /\ rt.sleep \in 0 .. 1
    BY <2>1 DEF BcRecs, RtRecs
  <2>3. bc.j = 0
    BY <1>1, <2>2 DEF SetUp1553
  <2>4. rt.sleep = 0 => rt.rxq = <<>>
    BY <1>1, <2>2 DEF SetUp1553
  <2> QED
    BY <2>1, <2>2, <2>3, <2>4
<1>3. bc' \in BcRecs /\ bc'.sleep = bc.sleep - 1 /\ bc'.pc = bc.pc /\ bc'.j = 0
  BY <1>1, <1>2 DEF BcRecs
<1>4. /\ rt' \in RtRecs /\ rt'.sleep = 0 /\ rt'.pc = rt.pc /\ rt'.rxq = rt.rxq /\ rt'.tx = rt.tx
      /\ rt'.chan = rt.chan
  BY <1>1, <1>2 DEF RtRecs
<1>5. BrmTypes'
  BY <1>1, <1>3, <1>4 DEF BrmTypes, BcRecs, RtRecs, RtMsg
<1>6. SetUp1553'
  BY <1>1, <1>2, <1>3, <1>4 DEF SetUp1553
<1>7. Cmds1553(rt.rxq)' /\ Rounds'
  <2>1. Rounds'
    BY <1>1, <1>2, <1>3, RoundsKept, Zenon
  <2> QED
    BY <1>4, <2>1, CommandsKept, Zenon
<1>8. ASSUME BrmAnswers
      PROVE  BrmAnswers'
  <2>1. PICK m \in Nat : Sorted(rt.rxq, m) /\ InTime1553(m)
    BY <1>8 DEF Timely
  <2>2. rt.sleep = 0 => m = 0 /\ Len(rt.rxq) = 0
    BY <1>2, <2>1 DEF Sorted
  <2>3. MaxFaults \in Nat /\ faults \in 0 .. MaxFaults /\ faults' = faults /\ bc.sleep \in 1 .. 20
    BY <1>1, <1>2, BrmBounds DEF BrmTypes
  <2>4. /\ \/ m = 0
           \/ (rt.sleep + m + (MaxFaults - faults) <= bc.sleep)
                => (rt'.sleep + m + (MaxFaults - faults') <= bc'.sleep)
        /\ \/ m = Len(rt.rxq)
           \/ (rt.sleep + m + (MaxFaults - faults) < bc.sleep)
                => (rt'.sleep + m + (MaxFaults - faults') < bc'.sleep)
    <3>1. \A k \in Nat, f \in 0 .. MaxFaults, b \in 1 .. 20 :
            /\ 1 + k + (MaxFaults - f) <= b => 0 + k + (MaxFaults - f) <= b - 1
            /\ 1 + k + (MaxFaults - f) < b => 0 + k + (MaxFaults - f) < b - 1
      BY <2>3
    <3>2. rt.sleep = 0 \/ rt.sleep = 1
      BY <1>2
    <3> QED
      BY <1>3, <1>4, <2>2, <2>3, <3>1, <3>2, Zenon
  <2>5. InTime1553(m)'
    BY <1>2, <1>3, <1>4, <2>1, <2>4, Zenon DEF InTime1553
  <2>6. Timely'
    BY <1>4, <2>1, <2>5, Zenon DEF Timely, Sorted
  <2> QED
    BY <1>1, <1>4, <1>8, <2>6, AnswersKept, ResultsKept, Zenon
<1> QED
  BY <1>5, <1>6, <1>7, <1>8, Zenon DEF Few1553

LEMMA BrmStepKeeps == BrmInv /\ [BrmNext]_brm_vars => BrmInv'
<1> SUFFICES ASSUME BrmInv, [BrmNext]_brm_vars
             PROVE  BrmInv'
  OBVIOUS
<1>1. CASE UNCHANGED brm_vars
  <2>1. BrmTypes' /\ SetUp1553'
    BY <1>1 DEF brm_vars, BrmInv, BrmBase, BrmTypes, SetUp1553
  <2>2. Cmds1553(rt.rxq)' /\ Rounds'
    BY <1>1, CommandsKept, RoundsKept, Zenon DEF brm_vars, BrmInv, BrmBase
  <2>3. ASSUME BrmAnswers
        PROVE  BrmAnswers'
    <3>1. faults' \in 0 .. MaxFaults /\ faults <= faults'
      BY <1>1, BrmBounds DEF brm_vars, BrmInv, BrmBase, BrmTypes
    <3> QED
      BY <1>1, <2>3, <3>1, TimelyKept, AnswersKept, ResultsKept, Zenon
         DEF brm_vars, BrmInv, BrmBase, BrmAnswers
  <2> QED
    BY <2>1, <2>2, <2>3, Zenon DEF BrmInv, BrmBase, Few1553
<1>2. CASE BrmNext
  BY <1>2, SetUpKeeps, BcListKeeps, BusCmdKeeps, BusResultKeeps, BcDoneKeeps, RtIdleKeeps, RtSentKeeps,
     RtReplyKeeps, BmLoopKeeps, SecondKeeps DEF BrmNext
<1> QED
  BY <1>1, <1>2

LEMMA BrmInvariant == BrmSpec => []BrmInv
  BY BrmInitInv, BrmStepKeeps, PTL DEF BrmSpec

(* Every channel, queue and count of the three BRM programs has its type.  *)
THEOREM BrmTyping == BrmSpec => []BrmTypeOK
BY BrmInvariant, BrmTyped, PTL

(* For any number of rounds, and up to 14 failed calls, reads and replies  *)
(* among them, and lost transfers: when the controller asks for a result   *)
(* the terminal has answered the last command that reached it, or tried to *)
(* and its driver did not take the reply.                                  *)
THEOREM AnsweredInTime == MaxFaults <= 14 => (BrmSpec => []BrmEchoed)
<1> SUFFICES ASSUME MaxFaults <= 14
             PROVE  BrmSpec => []BrmEchoed
  OBVIOUS
<1>1. BrmInv => BrmEchoed
  BY DEF BrmInv, Few1553, BrmAnswers, ResultsRight, BrmEchoed
<1> QED
  BY BrmInvariant, <1>1, PTL

-----------------------------------------------------------------------------
(* The terminal of rtems-b1553rt.c: its report is right.                   *)

RtTypes ==
  /\ b_restarted \in BOOLEAN /\ b_exited \in BOOLEAN
  /\ b_msg \in [desc : Nat, words : {0, 8}, data : {"restart", "print", "other"}]
  /\ b_cnt \in [rx : Nat, tx : Nat, txprep : Nat]
  /\ b_modes \in [0 .. 14 -> [cnt : Nat, last : {"none", "restart", "print", "other"}]]
  /\ b_len \in [0 .. 31 -> 0 .. 32] /\ b_since \in [ModeCodes -> Nat]

(* Supported codes do not share a place among the counts, and what is      *)
(* counted there is how often each came.                                   *)
Counted == \A m \in ModeCodes : Supported(m) => b_modes[Index(m)].cnt = b_since[m]
Reported == b_report # <<>> => \A m \in ModeCodes : Supported(m) => b_report[Index(m)] = b_fetched[m]
AllAnswered == ~b_exited => b_cnt.rx = b_cnt.txprep

B1553Inv ==
  /\ RtTypes /\ Counted /\ Reported /\ AllAnswered
  /\ b_failed \in BOOLEAN /\ b_reads \in 0 .. MaxRtMsgs

RtMsgs == [desc : Nat, words : {0, 8}, data : {"restart", "print", "other"}]

LEMMA PlacesDiffer ==
  ASSUME NEW m \in ModeCodes, Supported(m)
  PROVE  /\ Index(m) \in 0 .. 14
         /\ \A k \in ModeCodes : Supported(k) /\ Index(k) = Index(m) => k = m
BY DEF ModeCodes, Supported, Index

LEMMA B1553InitInv == B1553Init => B1553Inv
<1> SUFFICES ASSUME B1553Init PROVE B1553Inv
  OBVIOUS
<1>1. b_msg \in RtMsgs /\ MaxRtMsgs \in Nat
  BY RtBounds DEF B1553Init, Messages1553, RtMsgs
<1>2. RtTypes
  <2>1. b_cnt \in [rx : Nat, tx : Nat, txprep : Nat]
    BY DEF B1553Init
  <2>2. b_modes \in [0 .. 14 -> [cnt : Nat, last : {"none", "restart", "print", "other"}]]
    BY DEF B1553Init, NoCounts
  <2>3. b_len \in [0 .. 31 -> 0 .. 32] /\ b_since \in [ModeCodes -> Nat]
    BY DEF B1553Init
  <2>4. b_restarted \in BOOLEAN /\ b_exited \in BOOLEAN
    BY DEF B1553Init
  <2> QED
    BY <1>1, <2>1, <2>2, <2>3, <2>4 DEF RtTypes, RtMsgs
<1>3. Counted
  <2> SUFFICES ASSUME NEW m \in ModeCodes, Supported(m) PROVE b_modes[Index(m)].cnt = b_since[m]
    BY DEF Counted
  <2>1. NoCounts[Index(m)] = [cnt |-> 0, last |-> "none"]
    BY PlacesDiffer DEF NoCounts
  <2> QED
    BY <2>1 DEF B1553Init
<1>4. Reported /\ AllAnswered
  BY DEF B1553Init, Reported, AllAnswered
<1>5. b_failed \in BOOLEAN /\ b_reads \in 0 .. MaxRtMsgs
  <2>1. b_failed = FALSE /\ b_reads = 0
    BY DEF B1553Init
  <2>2. 0 \in 0 .. MaxRtMsgs
    BY <1>1
  <2> QED
    BY <2>1, <2>2, Zenon
<1> QED
  BY <1>2, <1>3, <1>4, <1>5 DEF B1553Inv

Handled == RtTypes' /\ Counted' /\ Reported' /\ AllAnswered'

(* What leaves the counts of the mode codes alone.                         *)
LEMMA CountsStay ==
  ASSUME Counted, Reported, UNCHANGED <<b_modes, b_since, b_report, b_fetched>>
  PROVE  Counted' /\ Reported'
BY DEF Counted, Reported

Both(cnt, rx, txprep) == [cnt EXCEPT !.rx = rx, !.txprep = txprep]

LEMMA BothCounted ==
  ASSUME NEW cnt \in [rx : Nat, tx : Nat, txprep : Nat], NEW rx \in Nat, NEW txprep \in Nat
  PROVE  /\ Both(cnt, rx, txprep) \in [rx : Nat, tx : Nat, txprep : Nat]
         /\ Both(cnt, rx, txprep).rx = rx /\ Both(cnt, rx, txprep).txprep = txprep
BY DEF Both

LEMMA AnswerKeeps ==
  ASSUME B1553Inv, ~b_exited, NEW msg \in RtMsgs, msg.desc < 32, Answer(msg)
  PROVE  Handled
<1>0. /\ RtTypes /\ Counted /\ Reported /\ b_cnt.rx = b_cnt.txprep
      /\ UNCHANGED <<b_restarted, b_modes, b_report, b_since, b_fetched>>
      /\ b_exited' = ~b_restarted
  BY DEF B1553Inv, AllAnswered, Answer
<1>1. Counted' /\ Reported'
  BY <1>0, CountsStay
<1>2. msg.desc \in 0 .. 31 /\ msg.words \in {0, 8} /\ msg.desc + 32 \in Nat
  BY DEF RtMsgs
<1>3. CASE b_restarted
  <2>1. /\ b_len' = [b_len EXCEPT ![msg.desc] = IF msg.words = 0 THEN 32 ELSE msg.words]
        /\ b_cnt' = [b_cnt EXCEPT !.rx = @ + 1, !.txprep = @ + 1]
        /\ b_msg' = [msg EXCEPT !.desc = @ + 32]
    BY <1>3 DEF Answer
  <2>2. b_len' \in [0 .. 31 -> 0 .. 32]
    BY <1>0, <1>2, <2>1 DEF RtTypes
  <2>3. b_cnt' \in [rx : Nat, tx : Nat, txprep : Nat] /\ b_cnt'.rx = b_cnt'.txprep
    <3> DEFINE n == b_cnt.rx + 1
    <3>1. b_cnt \in [rx : Nat, tx : Nat, txprep : Nat] /\ n \in Nat /\ n = b_cnt.txprep + 1
      BY <1>0 DEF RtTypes
    <3>2. b_cnt' = Both(b_cnt, n, n)
      BY <2>1, <3>1, Zenon DEF Both
    <3> HIDE DEF n
    <3>3. /\ Both(b_cnt, n, n) \in [rx : Nat, tx : Nat, txprep : Nat]
          /\ Both(b_cnt, n, n).rx = n /\ Both(b_cnt, n, n).txprep = n
      BY <3>1, BothCounted
    <3> QED
      BY <3>2, <3>3, Zenon
  <2>4. b_msg' \in RtMsgs
    BY <1>2, <2>1 DEF RtMsgs
  <2> QED
    BY <1>0, <1>1, <2>2, <2>3, <2>4 DEF Handled, RtTypes, RtMsgs, AllAnswered
<1>4. CASE ~b_restarted
  <2>1. b_cnt' = [b_cnt EXCEPT !.rx = @ + 1] /\ b_msg' = msg /\ UNCHANGED b_len
    BY <1>4 DEF Answer
  <2>2. b_cnt' \in [rx : Nat, tx : Nat, txprep : Nat]
    BY <1>0, <2>1 DEF RtTypes
  <2> QED
    BY <1>0, <1>1, <1>4, <2>1, <2>2 DEF Handled, RtTypes, RtMsgs, AllAnswered
<1> QED
  BY <1>3, <1>4

LEMMA RestartKeeps ==
  ASSUME B1553Inv, ~b_exited, NEW msg \in RtMsgs, Restart, b_msg' = msg
  PROVE  Handled
<1>0. RtTypes /\ Reported /\ UNCHANGED <<b_len, b_report, b_fetched, b_exited>>
  BY DEF B1553Inv, Restart
<1>1. /\ b_restarted' = TRUE /\ b_cnt' = [rx |-> 0, tx |-> 0, txprep |-> 0] /\ b_modes' = NoCounts
      /\ b_since' = [m \in ModeCodes |-> 0]
  BY DEF Restart
<1>2. RtTypes'
  BY <1>0, <1>1 DEF RtTypes, RtMsgs, NoCounts
<1>3. Counted'
  <2> SUFFICES ASSUME NEW m \in ModeCodes, Supported(m) PROVE b_modes'[Index(m)].cnt = b_since'[m]
    BY DEF Counted
  <2>1. NoCounts[Index(m)] = [cnt |-> 0, last |-> "none"]
    BY PlacesDiffer DEF NoCounts
  <2> QED
    BY <1>1, <2>1
<1>4. Reported' /\ AllAnswered'
  BY <1>0, <1>1 DEF Reported, AllAnswered
<1> QED
  BY <1>2, <1>3, <1>4 DEF Handled

(* Only the number of b_exited or b_msg changes.                           *)
LEMMA NothingCounted ==
  ASSUME B1553Inv, ~b_exited, NEW msg \in RtMsgs, b_msg' = msg, b_exited' \in BOOLEAN,
         UNCHANGED <<b_restarted, b_cnt, b_modes, b_len, b_report, b_since, b_fetched>>
  PROVE  Handled
<1>1. Counted' /\ Reported'
  BY CountsStay DEF B1553Inv
<1> QED
  BY <1>1 DEF B1553Inv, Handled, RtTypes, RtMsgs, AllAnswered

LEMMA CountKeeps ==
  ASSUME B1553Inv, ~b_exited, NEW msg \in RtMsgs, NEW m \in ModeCodes, CountMode(m, msg)
  PROVE  Handled
<1>0. RtTypes /\ Counted /\ Reported /\ b_cnt.rx = b_cnt.txprep
  BY DEF B1553Inv, AllAnswered
<1>1. CASE ~Supported(m)
  BY <1>1, NothingCounted DEF CountMode
<1>2. CASE Supported(m)
  <2> DEFINE i == Index(m)
             last == IF DataByte(m) THEN msg.data ELSE b_modes[i].last
  <2>1. i \in 0 .. 14 /\ \A k \in ModeCodes : Supported(k) /\ Index(k) = i => k = m
    BY <1>2, PlacesDiffer
  <2>2. b_modes' = [b_modes EXCEPT ![i].cnt = @ + 1, ![i].last = IF DataByte(m) THEN msg.data ELSE @]
        /\ b_since' = [b_since EXCEPT ![m] = @ + 1] /\ UNCHANGED <<b_restarted, b_cnt, b_exited>>
    BY <1>2 DEF CountMode
  <2>3. /\ \A j \in 0 .. 14 : Index(m) # j => b_modes'[j] = b_modes[j]
        /\ b_modes'[i].cnt = b_modes[i].cnt + 1
        /\ b_modes' \in [0 .. 14 -> [cnt : Nat, last : {"none", "restart", "print", "other"}]]
    <3>1. /\ msg.data \in {"none", "restart", "print", "other"}
          /\ b_modes[i].cnt + 1 \in Nat /\ b_modes[i] \in [cnt : Nat, last : {"none", "restart", "print", "other"}]
      BY <1>0, <2>1 DEF RtTypes, RtMsgs
    <3> HIDE DEF i
    <3> QED
      BY <1>0, <2>1, <2>2, <3>1 DEF RtTypes, i
  <2>4. b_since' \in [ModeCodes -> Nat] /\ b_since'[m] = b_since[m] + 1
        /\ \A k \in ModeCodes : k # m => b_since'[k] = b_since[k]
    BY <1>0, <2>2 DEF RtTypes
  <2>5. Counted'
    <3> SUFFICES ASSUME NEW k \in ModeCodes, Supported(k)
                 PROVE  b_modes'[Index(k)].cnt = b_since'[k]
      BY DEF Counted
    <3>1. b_modes[Index(k)].cnt = b_since[k] /\ Index(k) \in 0 .. 14
      BY <1>0, PlacesDiffer DEF Counted
    <3>2. CASE k = m
      BY <2>3, <2>4, <3>1, <3>2
    <3>3. CASE k # m
      <4>1. Index(k) # i
        BY <2>1, <3>3
      <4> QED
        BY <2>3, <2>4, <3>1, <3>3, <4>1
    <3> QED
      BY <3>2, <3>3
  <2>6. AllAnswered'
    BY <1>0, <2>2 DEF AllAnswered
  <2>7. CASE m = 19
    <3>1. /\ b_report' = [j \in 0 .. 14 |-> b_modes'[j].cnt] /\ b_fetched' = b_since'
          /\ b_len' = [b_len EXCEPT ![30] = 30] /\ b_msg' = [msg EXCEPT !.desc = 62]
      BY <1>2, <2>7 DEF CountMode
    <3>2. Reported'
      <4> SUFFICES ASSUME NEW k \in ModeCodes, Supported(k)
                   PROVE  b_report'[Index(k)] = b_fetched'[k]
        BY DEF Reported
      <4>1. b_modes'[Index(k)].cnt = b_since'[k] /\ Index(k) \in 0 .. 14
        BY <2>5, PlacesDiffer DEF Counted
      <4> QED
        BY <3>1, <4>1
    <3>3. b_len' \in [0 .. 31 -> 0 .. 32]
      BY <1>0, <3>1 DEF RtTypes
    <3>4. b_msg' \in RtMsgs
      BY <3>1 DEF RtMsgs
    <3> QED
      BY <1>0, <2>2, <2>3, <2>4, <2>5, <2>6, <3>2, <3>3, <3>4 DEF Handled, RtTypes, RtMsgs
  <2>8. CASE m # 19
    <3>1. b_msg' = msg /\ UNCHANGED <<b_report, b_fetched, b_len>>
      BY <1>2, <2>8 DEF CountMode
    <3>2. Reported'
      BY <1>0, <3>1 DEF Reported
    <3> QED
      BY <1>0, <2>2, <2>3, <2>4, <2>5, <2>6, <3>1, <3>2 DEF Handled, RtTypes, RtMsgs
  <2> QED
    BY <2>7, <2>8
<1> QED
  BY <1>1, <1>2

LEMMA HandleKeeps ==
  ASSUME B1553Inv, ~b_exited, NEW msg \in RtMsgs, Handle(msg)
  PROVE  Handled
<1>0. msg.desc \in Nat
  BY DEF RtMsgs
<1>1. CASE msg.desc < 32
  BY <1>1, AnswerKeeps DEF Handle
<1>2. CASE msg.desc \in 32 .. 63
  <2>1. /\ b_cnt' = [b_cnt EXCEPT !.tx = @ + 1] /\ b_msg' = msg
        /\ UNCHANGED <<b_restarted, b_modes, b_len, b_report, b_exited, b_since, b_fetched>>
    BY <1>2 DEF Handle
  <2>2. b_cnt' \in [rx : Nat, tx : Nat, txprep : Nat] /\ b_cnt'.rx = b_cnt.rx /\ b_cnt'.txprep = b_cnt.txprep
    BY <2>1 DEF B1553Inv, RtTypes
  <2>3. Counted' /\ Reported'
    BY <2>1, CountsStay DEF B1553Inv
  <2> QED
    BY <2>1, <2>2, <2>3 DEF B1553Inv, Handled, RtTypes, RtMsgs, AllAnswered
<1>3. CASE msg.desc \in 64 .. 127
  <2> DEFINE m == (msg.desc - 64) % 32
  <2>1. m \in ModeCodes
    BY <1>3 DEF ModeCodes
  <2>2. ModeCode(msg)
    BY <1>0, <1>3 DEF Handle
  <2>3. \/ Restart /\ b_msg' = msg
        \/ b_msg' = msg /\ UNCHANGED <<b_restarted, b_cnt, b_modes, b_len, b_report, b_exited, b_since, b_fetched>>
        \/ CountMode(m, msg)
    BY <2>2 DEF ModeCode
  <2> HIDE DEF m
  <2>4. b_exited \in BOOLEAN
    BY DEF B1553Inv, RtTypes
  <2> QED
    BY <2>1, <2>3, <2>4, RestartKeeps, NothingCounted, CountKeeps
<1>4. CASE msg.desc > 127
  <2>1. /\ b_exited' = TRUE /\ b_msg' = msg
        /\ UNCHANGED <<b_restarted, b_cnt, b_modes, b_len, b_report, b_since, b_fetched>>
    BY <1>0, <1>4 DEF Handle
  <2> QED
    BY <2>1, NothingCounted
<1> QED
  BY <1>0, <1>1, <1>2, <1>3, <1>4

LEMMA B1553StepKeeps == B1553Inv /\ [B1553Read]_b_vars => B1553Inv'
<1> SUFFICES ASSUME B1553Inv, [B1553Read]_b_vars PROVE B1553Inv'
  OBVIOUS
<1>1. CASE B1553Read
  <2>1. ~b_exited /\ b_reads' \in 0 .. MaxRtMsgs
    BY <1>1, RtBounds DEF B1553Read, B1553Inv
  <2>2. CASE \E msg \in Messages1553 : Handle(msg) /\ UNCHANGED b_failed
    <3>1. PICK msg \in Messages1553 : Handle(msg) /\ UNCHANGED b_failed
      BY <2>2
    <3>2. msg \in RtMsgs
      BY RtBounds DEF Messages1553, RtMsgs
    <3> QED
      BY <2>1, <3>1, <3>2, HandleKeeps DEF Handled, B1553Inv
  <2>3. CASE Handle(b_msg) /\ b_failed' = TRUE
    <3>1. b_msg \in RtMsgs
      BY DEF B1553Inv, RtTypes, RtMsgs
    <3> QED
      BY <2>1, <2>3, <3>1, HandleKeeps DEF Handled, B1553Inv
  <2> QED
    BY <1>1, <2>2, <2>3 DEF B1553Read
<1>2. CASE UNCHANGED b_vars
  BY <1>2 DEF b_vars, B1553Inv, RtTypes, Counted, Reported, AllAnswered
<1> QED
  BY <1>1, <1>2

LEMMA B1553Invariant == B1553Spec => []B1553Inv
  BY B1553InitInv, B1553StepKeeps, PTL DEF B1553Spec

LEMMA B1553Typed == B1553Inv => B1553TypeOK
  BY DEF B1553Inv, RtTypes, B1553TypeOK

(* Every message, counter and reply of the terminal has its type, whatever *)
(* descriptors come.                                                       *)
THEOREM B1553Typing == B1553Spec => []B1553TypeOK
<1>1. B1553Inv => B1553TypeOK
  BY B1553Typed
<1> QED
  BY B1553Invariant, <1>1, PTL

LEMMA B1553Reported == B1553Inv => B1553Report
  BY DEF B1553Inv, Reported, AllAnswered, B1553Report

(* Whatever messages and mode codes come, and however many: the report     *)
(* tells of each supported mode code how often it came since the restart,  *)
(* and every message since was answered.                                   *)
THEOREM ReportRight == B1553Spec => []B1553Report
<1>1. B1553Inv => B1553Report
  BY B1553Reported
<1> QED
  BY B1553Invariant, <1>1, PTL

-----------------------------------------------------------------------------
(* Quotients and remainders.                                               *)

LEMMA Remainder ==
  ASSUME NEW b \in Nat \ {0}, NEW q \in Int, NEW r \in 0 .. b - 1, b * q + r \in Nat
  PROVE  (b * q + r) \div b = q /\ (b * q + r) % b = r
OBVIOUS

LEMMA QuotientAndRemainder ==
  ASSUME NEW b \in Nat \ {0}, NEW a \in Nat
  PROVE  a \div b \in Nat /\ a % b \in 0 .. b - 1 /\ a = b * (a \div b) + (a % b)
OBVIOUS

LEMMA Distributes == \A x, y, z \in Int : x * (y + z) = x * y + x * z /\ x * (y - z) = x * y - x * z /\ x * y \in Int
OBVIOUS

(* What matters of a sum is the remainder of each part.                    *)
LEMMA RemainderOfSum ==
  ASSUME NEW b \in Nat \ {0}, NEW a \in Nat, NEW c \in Nat
  PROVE  /\ ((a % b) + c) % b = (a + c) % b
         /\ (a + c) % b = a % b <=> c % b = 0
<1> DEFINE p == a \div b
           r == a % b
<1>1. p \in Nat /\ r \in 0 .. b - 1 /\ a = b * p + r
  BY QuotientAndRemainder
<1> HIDE DEF p, r
<1>2. (r + c) % b = (a + c) % b
  <2> DEFINE q == (r + c) \div b
             s == (r + c) % b
  <2>0. r + c \in Nat
    BY <1>1
  <2>1. q \in Nat /\ s \in 0 .. b - 1 /\ r + c = b * q + s
    BY <2>0, QuotientAndRemainder
  <2> HIDE DEF q, s
  <2>2. a + c = b * (p + q) + s /\ p + q \in Int
    <3>1. b * (p + q) = b * p + b * q /\ b * p \in Int /\ b * q \in Int
      BY <1>1, <2>1, Distributes
    <3> QED
      BY <1>1, <2>1, <3>1
  <2>3. (b * (p + q) + s) % b = s
    <3>1. b * (p + q) + s \in Nat /\ p + q \in Int /\ s \in 0 .. b - 1
      <4>1. a + c \in Nat
        OBVIOUS
      <4> QED
        BY <1>1, <2>1, <2>2, <4>1, Zenon
    <3> QED
      BY <3>1, Remainder, Zenon
  <2> QED
    BY <2>2, <2>3, Zenon DEF s
<1>3. ASSUME (a + c) % b = r PROVE c % b = 0
  <2> DEFINE q == (a + c) \div b
  <2>1. q \in Nat /\ a + c = b * q + r
    <3>1. a + c \in Nat
      OBVIOUS
    <3>2. q \in Nat /\ a + c = b * q + ((a + c) % b)
      BY <3>1, QuotientAndRemainder
    <3> QED
      BY <1>3, <3>2
  <2> HIDE DEF q
  <2>2. c = b * (q - p) + 0 /\ q - p \in Int
    <3>1. b * (q - p) = b * q - b * p /\ b * p \in Int /\ b * q \in Int
      BY <1>1, <2>1, Distributes
    <3> QED
      BY <1>1, <2>1, <3>1
  <2>3. (b * (q - p) + 0) % b = 0
    <3>1. b * (q - p) + 0 \in Nat /\ q - p \in Int /\ 0 \in 0 .. b - 1
      <4>1. c \in Nat
        OBVIOUS
      <4>2. 0 \in 0 .. b - 1
        OBVIOUS
      <4> QED
        BY <2>2, <4>1, <4>2, Zenon
    <3> QED
      BY <3>1, Remainder, Zenon
  <2> QED
    BY <2>2, <2>3, Zenon
<1>4. ASSUME c % b = 0 PROVE (a + c) % b = r
  <2> DEFINE q == c \div b
  <2>1. q \in Nat /\ c = b * q + 0
    <3>1. q \in Nat /\ c = b * q + (c % b)
      BY QuotientAndRemainder
    <3> QED
      BY <1>4, <3>1
  <2> HIDE DEF q
  <2>2. a + c = b * (p + q) + r /\ p + q \in Int
    <3>1. b * (p + q) = b * p + b * q /\ b * p \in Int /\ b * q \in Int
      BY <1>1, <2>1, Distributes
    <3> QED
      BY <1>1, <2>1, <3>1
  <2>3. (b * (p + q) + r) % b = r
    <3>1. b * (p + q) + r \in Nat /\ p + q \in Int /\ r \in 0 .. b - 1
      <4>1. a + c \in Nat
        OBVIOUS
      <4> QED
        BY <1>1, <2>1, <2>2, <4>1, Zenon
    <3> QED
      BY <3>1, Remainder, Zenon
  <2> QED
    BY <2>2, <2>3, Zenon
<1> QED
  BY <1>2, <1>3, <1>4, Zenon DEF r

-----------------------------------------------------------------------------
(* The log server and its client: the file has the words of the log.       *)

EthTypes ==
  /\ client \in {"off", "send", "hdr", "data"} /\ server \in {"accept", "hdr", "body", "answer"}
  /\ hung \in BOOLEAN /\ broken \in BOOLEAN /\ torn \in BOOLEAN
  /\ up \in Seq(0 .. 3) /\ down \in Seq(Bytes)
  /\ sbuf \in [1 .. 5 -> 0 .. 3] /\ taken \in 0 .. MaxTaken
  /\ log_cnt \in 0 .. MaxTake /\ len \in 0 .. log_cnt * WordLen
  /\ words \in [1 .. MaxTake * WordLen -> Bytes]
  /\ file \in Seq(0 .. MaxTaken) /\ start \in 0 .. MaxTaken

(* No answer comes of what was sent, nor of anything that follows it: the  *)
(* server reads a byte that is not 0 where a command or a device begins.   *)
Doomed ==
  \/ server = "accept"
  \/ server = "answer" /\ (sbuf[3] # 3 \/ sbuf[5] # 0)
  \/ server \in {"hdr", "body"} /\ Len(up) > 0 /\ up[1] # 0

(* The buffer says "length 1, CMD_GET_LOG", or still does.                 *)
GetLog == sbuf[2] = 1 /\ sbuf[3] = 3

(* All that is under way is a command, and what is left of the one before. *)
CommandBehind(o) ==
  /\ Len(up) = o + 5
  /\ up[o + 1] = 0 /\ up[o + 2] = 1 /\ up[o + 3] = 3 /\ up[o + 5] = 0

(* The server waits for another command.  After short reads a byte of the  *)
(* last one may be left, or be taken for the first of the next.            *)
Unasked ==
  \/ Doomed
  \/ server \in {"hdr", "body"} /\ Len(up) = 0
  \/ server = "hdr" /\ Len(up) = 1 /\ up[1] = 0 /\ GetLog

(* At most one answer comes of what was sent.                              *)
Asked ==
  \/ Doomed
  \/ server \in {"hdr", "body"} /\ CommandBehind(0)
  \/ server = "hdr" /\ up[1] = 0 /\ CommandBehind(1) /\ GetLog
  \/ server = "body" /\ Len(up) = 1 /\ up[1] = 0
  \/ server = "body" /\ Len(up) = 2 /\ up[2] = 0 /\ GetLog
  \/ /\ server = "answer"
     /\ \/ Len(up) = 0
        \/ Len(up) = 1 /\ up[1] = 0 /\ GetLog
        \/ Len(up) > 0 /\ up[1] # 0

(* Byte i of the words from the first one on.                              *)
WordByte(first, i) == Byte(first + ((i - 1) \div WordLen), (i - 1) % WordLen)

(* Where the words are that were taken: in the file,                       *)
AtSend == client = "send" /\ Len(down) = 0 /\ start + Len(file) = taken /\ len = 0

(* or the last ones in the one answer that is under way,                   *)
AnswerOf(n) ==
  /\ start + Len(file) + n = taken /\ Len(down) = HdrLen + n * WordLen
  /\ \A i \in 1 .. HdrLen : down[i].byte = n
  /\ \A i \in 1 .. n * WordLen : down[i + HdrLen] = WordByte(taken - n + 1, i)

AtHeader ==
  /\ client = "hdr" /\ len = 0
  /\ \/ Len(down) = 0 /\ start + Len(file) = taken
     \/ \E n \in 0 .. MaxTake : AnswerOf(n)

(* or in the part of it that came; unless a word was torn apart that part  *)
(* is whole words, which are where they should be.                         *)
AtData ==
  /\ client = "data" /\ start + Len(file) + log_cnt = taken
  /\ len < log_cnt * WordLen /\ Len(down) = log_cnt * WordLen - len
  /\ \A i \in 1 .. Len(down) : down[i] = WordByte(taken - log_cnt + 1, len + i)
  /\ ~torn => /\ len % WordLen = 0
              /\ \A i \in 1 .. len : words[i] = WordByte(taken - log_cnt + 1, i)

EthInStep == IF client = "hdr" /\ Len(down) = 0 THEN Asked ELSE Unasked

Live ==
  client # "off" => IF broken THEN Len(down) = 0 ELSE (AtSend \/ AtHeader \/ AtData) /\ EthInStep

EthInv == EthTypes /\ FileRight /\ Live

-----------------------------------------------------------------------------
(* Words and bytes.                                                        *)

LEMMA EthConstants ==
  /\ HdrLen \in Nat \ {0} /\ WordLen \in Nat \ {0} /\ MaxTake \in Nat /\ MaxTaken \in Nat
  /\ \A n \in Nat : n * WordLen \in Nat
  /\ 0 * WordLen = 0 /\ 1 * WordLen = WordLen
<1>1. HdrLen \in Nat \ {0} /\ WordLen \in Nat \ {0} /\ MaxTake \in Nat /\ MaxTaken \in Nat
  BY EthLengths
<1>2. \A n \in Nat, w \in Nat \ {0} : n * w \in Nat /\ 0 * w = 0 /\ 1 * w = w
  OBVIOUS
<1> QED
  BY <1>1, <1>2

LEMMA Division ==
  ASSUME NEW a \in Nat
  PROVE  /\ a \div WordLen \in Nat /\ a % WordLen \in 0 .. WordLen - 1
         /\ a = WordLen * (a \div WordLen) + (a % WordLen)
BY EthConstants, QuotientAndRemainder, Zenon

LEMMA LessBytes ==
  ASSUME NEW q \in Nat, NEW r \in Nat, q < r
  PROVE  q * WordLen + WordLen <= r * WordLen
<1>0. WordLen \in Nat \ {0}
  BY EthConstants
<1>1. PICK d \in Nat : r = q + 1 + d
  <2>1. r - q - 1 \in Nat /\ r = q + 1 + (r - q - 1)
    OBVIOUS
  <2> QED
    BY <2>1
<1>2. r * WordLen = q * WordLen + WordLen + d * WordLen
  BY <1>0, <1>1
<1>3. d * WordLen \in Nat /\ q * WordLen \in Nat
  BY <1>0
<1> QED
  BY <1>0, <1>2, <1>3

LEMMA ByteOfWord ==
  ASSUME NEW q \in Nat, NEW r \in 0 .. WordLen - 1
  PROVE  (q * WordLen + r) \div WordLen = q /\ (q * WordLen + r) % WordLen = r
<1>1. WordLen \in Nat \ {0} /\ q * WordLen = WordLen * q /\ WordLen * q + r \in Nat /\ q \in Int
  BY EthConstants
<1> QED
  BY <1>1, Remainder, Zenon

(* The words of an answer of n words have their numbers.                   *)
LEMMA WordBytes ==
  ASSUME NEW n \in Nat, NEW i \in 1 .. n * WordLen
  PROVE  /\ (i - 1) \div WordLen \in 0 .. n - 1 /\ (i - 1) % WordLen \in Nat
<1> DEFINE q == (i - 1) \div WordLen
<1>0. WordLen \in Nat \ {0} /\ n * WordLen \in Nat
  BY EthConstants
<1>1. i - 1 \in Nat
  BY <1>0
<1>2. q \in Nat /\ (i - 1) % WordLen \in 0 .. WordLen - 1 /\ i - 1 = WordLen * q + ((i - 1) % WordLen)
  BY <1>1, Division
<1>3. WordLen * q = q * WordLen /\ q * WordLen \in Nat
  BY <1>0, <1>2
<1>4. q < n
  <2>1. n < q => n * WordLen + WordLen <= q * WordLen
    BY <1>2, LessBytes
  <2> DEFINE Q == q * WordLen
             N == n * WordLen
             R == (i - 1) % WordLen
  <2>2. Q \in Nat /\ N \in Nat /\ R \in Nat /\ i \in 1 .. N /\ i - 1 = Q + R /\ (n < q => N + WordLen <= Q)
        /\ (n = q => N = Q)
    BY <1>0, <1>2, <1>3, <2>1
  <2> HIDE DEF Q, N, R, q
  <2> QED
    BY <1>0, <1>2, <2>2
<1> QED
  BY <1>0, <1>2, <1>4

LEMMA WordByteType ==
  ASSUME NEW n \in Nat, NEW first \in Nat, first + n <= MaxTaken + 1, NEW i \in 1 .. n * WordLen
  PROVE  WordByte(first, i) \in Bytes
<1>1. (i - 1) \div WordLen \in 0 .. n - 1 /\ (i - 1) % WordLen \in Nat
  BY WordBytes
<1>2. first + ((i - 1) \div WordLen) \in 0 .. MaxTaken
  BY <1>1, EthConstants
<1> QED
  BY <1>1, <1>2 DEF WordByte, Byte, Bytes

(* A word that is whole is found in the buffer.                            *)
LEMMA WholeWord ==
  ASSUME NEW first \in Nat, NEW n \in Nat, NEW buf,
         \A i \in 1 .. n * WordLen : buf[i] = WordByte(first, i),
         NEW w \in 1 .. n
  PROVE  WordAt(buf, w) = first + w - 1
<1> DEFINE q == w - 1
           b == SubSeq(buf, q * WordLen + 1, w * WordLen)
<1>0. WordLen \in Nat \ {0} /\ q \in Nat /\ w \in Nat /\ q + 1 = w
  BY EthConstants
<1>1. q * WordLen \in Nat /\ w * WordLen = q * WordLen + WordLen /\ w * WordLen <= n * WordLen
      /\ n * WordLen \in Nat
  <2>1. w * WordLen = q * WordLen + WordLen
    <3>1. \A x \in Nat, y \in Nat : (x + 1) * y = x * y + y
      OBVIOUS
    <3> QED
      BY <1>0, <3>1
  <2>2. q < n
    BY <1>0
  <2>3. q * WordLen + WordLen <= n * WordLen
    BY <1>0, <2>2, LessBytes
  <2> QED
    BY <1>0, <2>1, <2>3, EthConstants
<1>2. ASSUME NEW j \in 1 .. WordLen
      PROVE  /\ q * WordLen + j \in 1 .. n * WordLen
             /\ buf[q * WordLen + j] = Byte(first + q, j - 1)
  <2>1. q * WordLen + j \in 1 .. n * WordLen /\ j - 1 \in 0 .. WordLen - 1
        /\ (q * WordLen + j) - 1 = q * WordLen + (j - 1)
    BY <1>0, <1>1
  <2>2. (q * WordLen + (j - 1)) \div WordLen = q /\ (q * WordLen + (j - 1)) % WordLen = j - 1
    BY <1>0, <2>1, ByteOfWord
  <2>3. buf[q * WordLen + j] = WordByte(first, q * WordLen + j)
    BY <2>1
  <2> QED
    BY <2>1, <2>2, <2>3 DEF WordByte
<1>3. b = [j \in 1 .. WordLen |-> Byte(first + q, j - 1)]
  <2>1. b = [j \in 1 .. WordLen |-> buf[q * WordLen + j]]
    <3> DEFINE m == q * WordLen + 1
               k == w * WordLen
    <3>1. m \in Nat /\ k \in Nat /\ k - m + 1 = WordLen /\ m <= k
      BY <1>0, <1>1
    <3>2. b = [j \in 1 .. WordLen |-> buf[m + j - 1]]
      <4> DEFINE S == {buf[i] : i \in m .. k}
      <4>1. m \in Int /\ k \in Int /\ \A i \in m .. k : buf[i] \in S
        BY <3>1
      <4> HIDE DEF m, k, S
      <4>2. /\ SubSeq(buf, m, k) \in Seq(S)
            /\ Len(SubSeq(buf, m, k)) = IF m <= k THEN k - m + 1 ELSE 0
            /\ \A i \in 1 .. k - m + 1 : SubSeq(buf, m, k)[i] = buf[m + i - 1]
        BY <4>1, SubSeqProperties, SMT
      <4>3. SubSeq(buf, m, k) \in [1 .. WordLen -> S]
        BY <3>1, <4>2, LenProperties
      <4>4. \A i \in 1 .. WordLen : SubSeq(buf, m, k)[i] = buf[m + i - 1]
        BY <3>1, <4>2
      <4>5. SubSeq(buf, m, k) = [j \in 1 .. WordLen |-> buf[m + j - 1]]
        BY <4>3, <4>4
      <4> QED
        BY <4>5 DEF m, k
    <3>3. \A j \in 1 .. WordLen : m + j - 1 = q * WordLen + j
      BY <1>0, <1>1
    <3> HIDE DEF b
    <3> QED
      BY <3>2, <3>3
  <2> HIDE DEF b
  <2> QED
    BY <1>2, <2>1
<1>4. 1 \in 1 .. WordLen
  BY <1>0
<1>5. b[1].word = first + q
  <2> HIDE DEF b
  <2> QED
    BY <1>3, <1>4 DEF Byte
<1>6. Words(first + q, 1) = [j \in 1 .. WordLen |-> Byte(first + q, j - 1)]
  <2>1. \A j \in 1 .. WordLen : (j - 1) \div WordLen = 0 /\ (j - 1) % WordLen = j - 1
    <3> SUFFICES ASSUME NEW j \in 1 .. WordLen
                 PROVE  (j - 1) \div WordLen = 0 /\ (j - 1) % WordLen = j - 1
      OBVIOUS
    <3>1. j - 1 \in 0 .. WordLen - 1 /\ 0 * WordLen + (j - 1) = j - 1
      BY <1>0
    <3> QED
      BY <3>1, ByteOfWord
  <2>2. first + q + 0 = first + q
    BY <1>0
  <2> QED
    BY <1>0, <2>1, <2>2, EthConstants DEF Words
<1>7. first + q = first + w - 1
  BY <1>0
<1> HIDE DEF b
<1>8. WordAt(buf, w) = first + q
  BY <1>3, <1>5, <1>6 DEF WordAt, b
<1> QED
  BY <1>7, <1>8

LEMMA WordAtType ==
  ASSUME NEW buf \in [1 .. MaxTake * WordLen -> Bytes], NEW w \in 1 .. MaxTake
  PROVE  WordAt(buf, w) \in 0 .. MaxTaken
<1> DEFINE m == (w - 1) * WordLen + 1
           k == w * WordLen
<1>0. WordLen \in Nat \ {0} /\ MaxTake \in Nat /\ MaxTaken \in Nat
  BY EthConstants
<1>1. m \in Nat /\ k \in Nat /\ m <= k /\ m \in 1 .. MaxTake * WordLen
      /\ \A i \in m .. k : i \in 1 .. MaxTake * WordLen
  <2> DEFINE q == w - 1
             Q == q * WordLen
             N == MaxTake * WordLen
  <2>1. q \in Nat /\ q + 1 = w /\ q < MaxTake
    BY <1>0
  <2>2. w * WordLen = Q + WordLen
    <3>1. \A x \in Nat, y \in Nat : (x + 1) * y = x * y + y
      OBVIOUS
    <3> QED
      BY <1>0, <2>1, <3>1
  <2>3. Q + WordLen <= N
    BY <1>0, <2>1, LessBytes
  <2>4. Q \in Nat /\ N \in Nat
    BY <1>0, <2>1, EthConstants
  <2>5. m = Q + 1 /\ k = Q + WordLen
    BY <2>2
  <2> HIDE DEF m, k, Q
  <2> QED
    BY <1>0, <2>3, <2>4, <2>5
<1> DEFINE b == SubSeq(buf, m, k)
<1>2. b[1] \in Bytes
  <2>1. m \in Int /\ k \in Int /\ \A i \in m .. k : buf[i] \in Bytes
    BY <1>1
  <2> HIDE DEF m, k, Bytes
  <2>2. \A i \in 1 .. k - m + 1 : b[i] = buf[m + i - 1]
    BY <2>1, SubSeqProperties, SMT
  <2>3. 1 \in 1 .. k - m + 1 /\ m + 1 - 1 = m /\ m \in m .. k
    BY <1>1
  <2> HIDE DEF b
  <2> QED
    BY <2>1, <2>2, <2>3
<1>3. WordAt(buf, w) = IF b = Words(b[1].word, 1) THEN b[1].word ELSE 0
  BY Zenon DEF WordAt
<1> HIDE DEF b
<1>4. b[1].word \in 0 .. MaxTaken /\ 0 \in 0 .. MaxTaken
  BY <1>0, <1>2 DEF Bytes
<1> QED
  BY <1>3, <1>4

LEMMA BytesSkipped ==
  ASSUME NEW S, NEW s \in Seq(S), NEW n \in 0 .. Len(s)
  PROVE  /\ Skip(s, n) \in Seq(S) /\ Len(s) \in Nat /\ Len(Skip(s, n)) = Len(s) - n
         /\ \A i \in 1 .. Len(s) - n : Skip(s, n)[i] = s[i + n]
<1> DEFINE N == Len(s)
<1>1. N \in Nat /\ \A i \in 1 .. N : s[i] \in S
  BY LenProperties, ElementOfSeq
<1>2. n \in 0 .. N
  OBVIOUS
<1> HIDE DEF N
<1>3. n + 1 \in Int /\ N \in Int /\ \A i \in n + 1 .. N : s[i] \in S
  BY <1>1, <1>2
<1>4. /\ SubSeq(s, n + 1, N) \in Seq(S)
      /\ Len(SubSeq(s, n + 1, N)) = IF n + 1 <= N THEN N - (n + 1) + 1 ELSE 0
      /\ \A i \in 1 .. N - (n + 1) + 1 : SubSeq(s, n + 1, N)[i] = s[(n + 1) + i - 1]
  BY <1>3, SubSeqProperties, SMT
<1>5. \A i \in 1 .. N - n : (n + 1) + i - 1 = i + n
  BY <1>1, <1>2
<1>6. N - (n + 1) + 1 = N - n /\ (~(n + 1 <= N) => N - n = 0)
  BY <1>1, <1>2
<1> QED
  BY <1>1, <1>4, <1>5, <1>6 DEF Skip, N

(* The buffer of the server after a piece of a command.                    *)
LEMMA PieceOfCommand ==
  ASSUME up \in Seq(0 .. 3), sbuf \in [1 .. 5 -> 0 .. 3], NEW k \in 1 .. Len(up), k <= 4
  PROVE  /\ Overwritten(1, SubSeq(up, 1, k)) \in [1 .. 5 -> 0 .. 3]
         /\ \A i \in 1 .. 5 : Overwritten(1, SubSeq(up, 1, k))[i] = IF i <= k THEN up[i] ELSE sbuf[i]
         /\ k = 1 => Overwritten(5, SubSeq(up, 1, k)) = [sbuf EXCEPT ![5] = up[1]]
<1> DEFINE p == SubSeq(up, 1, k)
<1>1. Len(up) \in Nat /\ \A i \in 1 .. Len(up) : up[i] \in 0 .. 3
  BY LenProperties, ElementOfSeq
<1>2. k \in Int /\ 1 <= k /\ \A i \in 1 .. k : up[i] \in 0 .. 3
  BY <1>1
<1>3. /\ p \in Seq(0 .. 3) /\ Len(p) = k
      /\ \A i \in 1 .. k : p[i] = up[i]
  <2>1. /\ p \in Seq(0 .. 3)
        /\ Len(p) = IF 1 <= k THEN k - 1 + 1 ELSE 0
        /\ \A i \in 1 .. k - 1 + 1 : p[i] = up[1 + i - 1]
    BY <1>2, SubSeqProperties, SMT
  <2> HIDE DEF p
  <2> QED
    BY <1>2, <2>1
<1> HIDE DEF p
<1>4. DOMAIN p = 1 .. k
  BY <1>3, LenProperties
<1>5. \A i \in 1 .. 5 : /\ i - 1 + 1 = i
                        /\ i \in 1 .. k <=> i <= k
                        /\ (k = 1 => (i - 5 + 1 \in 1 .. k <=> i = 5))
  BY <1>2
<1>6. Overwritten(1, p) = [i \in 1 .. 5 |-> IF i <= k THEN up[i] ELSE sbuf[i]]
  BY <1>2, <1>3, <1>4, <1>5 DEF Overwritten
<1>7. k = 1 => Overwritten(5, p) = [sbuf EXCEPT ![5] = up[1]]
  <2> SUFFICES ASSUME k = 1
               PROVE  Overwritten(5, p) = [sbuf EXCEPT ![5] = up[1]]
    OBVIOUS
  <2>1. p[1] = up[1] /\ 5 - 5 + 1 = 1
    BY <1>3
  <2>2. Overwritten(5, p) = [i \in 1 .. 5 |-> IF i = 5 THEN up[1] ELSE sbuf[i]]
    BY <1>4, <1>5, <2>1 DEF Overwritten
  <2> QED
    BY <2>2
<1> QED
  BY <1>2, <1>6, <1>7 DEF p

-----------------------------------------------------------------------------
(* The invariant.                                                          *)

LEMMA EthTyped == EthInv => EthTypeOK
BY DEF EthInv, EthTypes, EthTypeOK

LEMMA EthNumbers ==
  ASSUME EthTypes
  PROVE  /\ Len(up) \in Nat /\ Len(down) \in Nat /\ Len(file) \in Nat
         /\ \A i \in 1 .. Len(up) : up[i] \in 0 .. 3
         /\ \A i \in 1 .. Len(down) : down[i] \in Bytes
         /\ up = <<>> <=> Len(up) = 0
         /\ down = <<>> <=> Len(down) = 0
         /\ taken \in Nat /\ start \in Nat /\ log_cnt \in Nat /\ len \in Nat
         /\ log_cnt * WordLen \in Nat
<1>1. up \in Seq(0 .. 3) /\ down \in Seq(Bytes) /\ file \in Seq(0 .. MaxTaken)
  BY DEF EthTypes
<1>2. /\ taken \in Nat /\ start \in Nat /\ log_cnt \in Nat
  BY EthConstants DEF EthTypes
<1>3. log_cnt * WordLen \in Nat
  BY <1>2, EthConstants
<1>4. len \in Nat
  BY <1>3 DEF EthTypes
<1> HIDE DEF Bytes
<1>5. /\ Len(up) \in Nat /\ Len(down) \in Nat /\ Len(file) \in Nat
      /\ \A i \in 1 .. Len(up) : up[i] \in 0 .. 3
      /\ \A i \in 1 .. Len(down) : down[i] \in Bytes
  BY <1>1, LenProperties, ElementOfSeq
<1>6. (up = <<>> <=> Len(up) = 0) /\ (down = <<>> <=> Len(down) = 0)
  BY <1>1, EmptySeq
<1> QED
  BY <1>2, <1>3, <1>4, <1>5, <1>6

LEMMA EthInitInv == EthInit => EthInv
<1> SUFFICES ASSUME EthInit
             PROVE  EthInv
  OBVIOUS
<1>0. /\ MaxTake \in Nat /\ MaxTaken \in Nat /\ WordLen \in Nat \ {0} /\ 0 * WordLen = 0
      /\ MaxTake * WordLen \in Nat
  BY EthConstants
<1>1. EthTypes
  <2>1. words \in [1 .. MaxTake * WordLen -> Bytes]
    BY <1>0 DEF EthInit, Byte, Bytes
  <2>2. up \in Seq(0 .. 3) /\ down \in Seq(Bytes) /\ file \in Seq(0 .. MaxTaken)
    BY EmptySeq DEF EthInit
  <2>3. sbuf \in [1 .. 5 -> 0 .. 3]
    BY DEF EthInit
  <2>4. taken \in 0 .. MaxTaken /\ start \in 0 .. MaxTaken /\ log_cnt \in 0 .. MaxTake
        /\ len \in 0 .. log_cnt * WordLen
    BY <1>0 DEF EthInit
  <2> QED
    BY <2>1, <2>2, <2>3, <2>4 DEF EthTypes, EthInit
<1>2. FileRight /\ Live
  <2>1. Len(file) = 0 /\ file = <<>> /\ client = "off"
    BY DEF EthInit
  <2>2. file = [i \in 1 .. 0 |-> start + i]
    BY <2>1
  <2> QED
    BY <2>1, <2>2 DEF FileRight, Live
<1> QED
  BY <1>1, <1>2 DEF EthInv

(* The client comes, goes, or is cut off.                                  *)
LEMMA ConnectKeeps ==
  ASSUME EthInv, Connect
  PROVE  EthInv'
<1>0. /\ MaxTake \in Nat /\ MaxTaken \in Nat /\ WordLen \in Nat \ {0} /\ 0 * WordLen = 0
      /\ MaxTake * WordLen \in Nat
  BY EthConstants
<1>1. /\ client' = "send" /\ server' = "hdr"
      /\ hung' = FALSE /\ broken' = FALSE /\ up' = <<>> /\ down' = <<>>
      /\ log_cnt' = 0 /\ len' = 0 /\ file' = <<>> /\ start' = taken /\ torn' = FALSE
      /\ words' = [i \in 1 .. MaxTake * WordLen |-> Byte(0, 0)]
      /\ sbuf' = sbuf /\ taken' = taken
  BY DEF Connect
<1>2. taken \in 0 .. MaxTaken /\ sbuf \in [1 .. 5 -> 0 .. 3]
  BY DEF EthInv, EthTypes
<1>3. EthTypes'
  <2>1. words' \in [1 .. MaxTake * WordLen -> Bytes]
    BY <1>0, <1>1 DEF Byte, Bytes
  <2>2. up' \in Seq(0 .. 3) /\ down' \in Seq(Bytes) /\ file' \in Seq(0 .. MaxTaken)
    BY <1>1, EmptySeq
  <2>3. log_cnt' \in 0 .. MaxTake /\ len' \in 0 .. log_cnt' * WordLen
    BY <1>0, <1>1
  <2> QED
    BY <1>1, <1>2, <2>1, <2>2, <2>3 DEF EthTypes
<1>4. Len(file') = 0 /\ Len(up') = 0 /\ Len(down') = 0
  BY <1>1
<1>5. FileRight'
  <2>1. file' = [i \in 1 .. 0 |-> start' + i]
    BY <1>1
  <2> QED
    BY <1>4, <2>1 DEF FileRight
<1>6. Live'
  <2>1. AtSend'
    BY <1>1, <1>2, <1>4 DEF AtSend
  <2>2. Unasked'
    BY <1>1, <1>4 DEF Unasked
  <2> QED
    BY <1>1, <2>1, <2>2 DEF Live, EthInStep
<1> QED
  BY <1>3, <1>5, <1>6 DEF EthInv

LEMMA GoneKeeps ==
  ASSUME EthInv, client' = "off", up' = up \/ up' = <<>>, down' \in Seq(Bytes),
         UNCHANGED <<server, hung, broken, torn, sbuf, taken, len, words, file, start>>,
         log_cnt' = log_cnt
  PROVE  EthInv'
<1>1. EthTypes'
  <2>1. up' \in Seq(0 .. 3)
    BY EmptySeq DEF EthInv, EthTypes
  <2> QED
    BY <2>1 DEF EthInv, EthTypes
<1>2. FileRight' /\ Live'
  BY DEF EthInv, FileRight, Live
<1> QED
  BY <1>1, <1>2 DEF EthInv

LEMMA KillKeeps ==
  ASSUME EthInv, Kill
  PROVE  EthInv'
<1>1. down \in Seq(Bytes)
  BY DEF EthInv, EthTypes
<1> QED
  BY <1>1, GoneKeeps DEF Kill, server_vars

LEMMA ResetKeeps ==
  ASSUME EthInv, Reset
  PROVE  EthInv'
<1>1. /\ broken' = TRUE /\ up' = <<>> /\ down' = <<>> /\ Len(down') = 0
      /\ UNCHANGED <<client, log_cnt, len, words, file, start, torn, server, sbuf, taken, hung>>
  BY DEF Reset, client_vars, server_vars
<1>2. EthTypes'
  <2>1. up' \in Seq(0 .. 3) /\ down' \in Seq(Bytes)
    BY <1>1, EmptySeq
  <2> QED
    BY <1>1, <2>1 DEF EthInv, EthTypes
<1>3. FileRight' /\ Live'
  BY <1>1 DEF EthInv, FileRight, Live
<1> QED
  BY <1>2, <1>3 DEF EthInv

LEMMA ClientSendKeeps ==
  ASSUME EthInv, ClientSend
  PROVE  EthInv'
<1>1. /\ client = "send"
      /\ UNCHANGED <<log_cnt, len, words, file, start, torn, server, sbuf, taken, hung, broken, down>>
  BY DEF ClientSend, server_vars
<1>2. CASE client' = "off" /\ up' = up
  <2>1. down' \in Seq(Bytes)
    BY <1>1 DEF EthInv, EthTypes
  <2> QED
    BY <1>1, <1>2, <2>1, GoneKeeps
<1>3. ASSUME ~broken, NEW reserved \in 0 .. 1, up' = up \o Command(reserved), client' = "hdr"
      PROVE  EthInv'
  <2> DEFINE c == Command(reserved)
  <2>1. c \in Seq(0 .. 3) /\ Len(c) = 5 /\ c[1] = 0 /\ c[2] = 1 /\ c[3] = 3 /\ c[5] = 0
    BY DEF Command
  <2>2. up \in Seq(0 .. 3) /\ Len(up) \in Nat
    BY EthNumbers DEF EthInv, EthTypes
  <2>a. up' = up \o c
    BY <1>3
  <2> HIDE DEF c
  <2>3. /\ up' \in Seq(0 .. 3) /\ Len(up') = Len(up) + 5
        /\ \A i \in 1 .. Len(up) + 5 : up'[i] = IF i <= Len(up) THEN up[i] ELSE c[i - Len(up)]
    <3>1. /\ up \o c \in Seq(0 .. 3) /\ Len(up \o c) = Len(up) + Len(c)
          /\ \A i \in 1 .. Len(up) + Len(c) : (up \o c)[i] = IF i <= Len(up) THEN up[i] ELSE c[i - Len(up)]
      BY <2>1, <2>2, ConcatProperties
    <3> QED
      BY <2>a, <2>1, <3>1
  <2>4. EthTypes'
    BY <1>1, <1>3, <2>3 DEF EthInv, EthTypes
  <2>5. FileRight'
    BY <1>1 DEF EthInv, FileRight
  <2>6. AtSend /\ Unasked
    BY <1>1, <1>3 DEF EthInv, Live, AtHeader, AtData, EthInStep
  <2>7. Asked'
    <3>1. CASE Doomed
      <4>1. Len(up) > 0 => Len(up') > 0 /\ up'[1] = up[1]
        BY <2>2, <2>3
      <4>2. Doomed'
        BY <1>1, <3>1, <4>1 DEF Doomed
      <4> QED
        BY <4>2 DEF Asked
    <3>2. CASE server \in {"hdr", "body"} /\ Len(up) = 0
      <4>1. Len(up') = 5 /\ up'[1] = c[1] /\ up'[2] = c[2] /\ up'[3] = c[3] /\ up'[5] = c[5]
        BY <2>3, <3>2
      <4>2. CommandBehind(0)'
        BY <2>1, <4>1 DEF CommandBehind
      <4> QED
        BY <1>1, <3>2, <4>2 DEF Asked
    <3>3. CASE server = "hdr" /\ Len(up) = 1 /\ up[1] = 0 /\ GetLog
      <4>1. Len(up') = 6 /\ up'[1] = 0 /\ up'[2] = c[1] /\ up'[3] = c[2] /\ up'[4] = c[3] /\ up'[6] = c[5]
        BY <2>3, <3>3
      <4>2. CommandBehind(1)'
        BY <2>1, <4>1 DEF CommandBehind
      <4> QED
        BY <1>1, <3>3, <4>1, <4>2 DEF Asked, GetLog
    <3> QED
      BY <2>6, <3>1, <3>2, <3>3 DEF Unasked
  <2>8. Live'
    <3>1. AtHeader' /\ Len(down') = 0
      BY <1>1, <1>3, <2>6 DEF AtSend, AtHeader
    <3> QED
      BY <1>3, <2>7, <3>1 DEF Live, EthInStep
  <2> QED
    BY <2>4, <2>5, <2>8 DEF EthInv
<1> QED
  BY <1>2, <1>3 DEF ClientSend

LEMMA ClientHeaderKeeps ==
  ASSUME EthInv, ClientHeader
  PROVE  EthInv'
<1>0. EthTypes /\ HdrLen \in Nat \ {0} /\ WordLen \in Nat \ {0} /\ 0 * WordLen = 0
      /\ \A n \in Nat : n * WordLen \in Nat
  BY EthConstants DEF EthInv
<1>1. /\ client = "hdr"
      /\ UNCHANGED <<len, words, file, start, torn, server, sbuf, taken, hung, broken, up>>
  BY DEF ClientHeader, server_vars
<1>2. /\ down \in Seq(Bytes) /\ Len(down) \in Nat /\ taken \in Nat /\ start \in Nat /\ Len(file) \in Nat
      /\ MaxTake \in Nat
  BY <1>0, EthNumbers, EthConstants DEF EthTypes
<1>3. CASE client' = "off" /\ down' \in Seq(Bytes) /\ log_cnt' = log_cnt
  BY <1>1, <1>3, GoneKeeps
<1>4. ASSUME NEW k \in Pieces(down, HdrLen), down' = Skip(down, k),
             log_cnt' = IF k = HdrLen THEN down[HdrLen].byte ELSE log_cnt,
             client' = IF k < HdrLen THEN "off" ELSE IF log_cnt' > 0 THEN "data" ELSE "send"
      PROVE  EthInv'
  <2>1. k \in 1 .. Len(down) /\ k <= HdrLen
    BY <1>0, <1>2 DEF Pieces, Least
  <2> HIDE DEF Bytes
  <2>2. /\ down' \in Seq(Bytes) /\ Len(down') = Len(down) - k
        /\ \A i \in 1 .. Len(down) - k : down'[i] = down[i + k]
    <3>1. k \in 0 .. Len(down)
      BY <1>2, <2>1
    <3>2. /\ Skip(down, k) \in Seq(Bytes) /\ Len(Skip(down, k)) = Len(down) - k
          /\ \A i \in 1 .. Len(down) - k : Skip(down, k)[i] = down[i + k]
      BY <1>2, <3>1, BytesSkipped
    <3> QED
      BY <1>4, <3>2
  <2>3. CASE k < HdrLen
    <3>1. client' = "off" /\ log_cnt' = log_cnt
      BY <1>0, <1>4, <2>1, <2>3
    <3> QED
      BY <1>3, <2>2, <3>1
  <2>4. CASE k = HdrLen
    <3>1. ~broken /\ AtHeader /\ Unasked
      BY <1>1, <1>2, <2>1 DEF EthInv, Live, AtSend, AtData, EthInStep
    <3>2. PICK n \in 0 .. MaxTake : AnswerOf(n)
      BY <1>2, <2>1, <3>1 DEF AtHeader
    <3>3. /\ start + Len(file) + n = taken /\ Len(down) = HdrLen + n * WordLen
          /\ \A i \in 1 .. HdrLen : down[i].byte = n
          /\ \A i \in 1 .. n * WordLen : down[i + HdrLen] = WordByte(taken - n + 1, i)
      BY <3>2 DEF AnswerOf
    <3>4. HdrLen \in 1 .. HdrLen /\ n \in Nat
      BY <1>0
    <3>5. log_cnt' = n /\ len = 0
      BY <1>4, <2>4, <3>1, <3>3, <3>4 DEF AtHeader
    <3> DEFINE N == n * WordLen
    <3>6. N \in Nat /\ Len(down') = N /\ \A i \in 1 .. N : down'[i] = WordByte(taken - n + 1, i)
      <4>1. N \in Nat
        BY <1>0, <3>4
      <4>2. Len(down) = HdrLen + N /\ \A i \in 1 .. N : down[i + HdrLen] = WordByte(taken - n + 1, i)
        BY <3>3
      <4> HIDE DEF N
      <4>3. Len(down) - k = N
        BY <1>0, <2>4, <4>1, <4>2
      <4> QED
        BY <2>2, <2>4, <4>1, <4>2, <4>3
    <3>7. EthTypes'
      <4>1. len' \in 0 .. log_cnt' * WordLen
        BY <1>1, <3>5, <3>6
      <4>2. client' \in {"off", "send", "hdr", "data"}
        BY <1>4
      <4>3. log_cnt' \in 0 .. MaxTake
        BY <3>5
      <4> QED
        BY <1>1, <2>2, <4>1, <4>2, <4>3 DEF EthInv, EthTypes
    <3>8. FileRight'
      BY <1>1 DEF EthInv, FileRight
    <3>9. Unasked'
      BY <1>1, <3>1 DEF Unasked, Doomed, GetLog
    <3>10. CASE n = 0
      <4>1. client' = "send"
        BY <1>0, <1>4, <2>4, <3>5, <3>10
      <4>2. Len(down') = 0 /\ start + Len(file) = taken
        BY <1>0, <1>2, <3>3, <3>6, <3>10
      <4>3. AtSend'
        BY <1>1, <3>5, <4>1, <4>2 DEF AtSend
      <4> QED
        BY <1>1, <3>1, <3>7, <3>8, <3>9, <4>1, <4>3 DEF EthInv, Live, EthInStep
    <3>11. CASE n > 0
      <4>1. client' = "data"
        BY <1>0, <1>4, <2>4, <3>5, <3>11
      <4>2. 0 < N
        BY <1>0, <3>4, <3>11, LessBytes
      <4>3. \A i \in 1 .. N : 0 + i = i
        BY <3>6
      <4>4. 0 % WordLen = 0
        BY <1>0
      <4>5. /\ len' = 0 /\ log_cnt' * WordLen = N /\ N - 0 = N
            /\ start' + Len(file') + log_cnt' = taken' /\ taken' - log_cnt' + 1 = taken - n + 1
        BY <1>1, <3>3, <3>5, <3>6
      <4> HIDE DEF N
      <4>6. /\ len' < log_cnt' * WordLen /\ Len(down') = log_cnt' * WordLen - len'
        BY <3>6, <4>2, <4>5
      <4>7. \A i \in 1 .. Len(down') : down'[i] = WordByte(taken' - log_cnt' + 1, len' + i)
        BY <3>6, <4>3, <4>5
      <4>8. len' % WordLen = 0 /\ \A i \in 1 .. len' : FALSE
        BY <4>4, <4>5
      <4>9. AtData'
        BY <4>1, <4>5, <4>6, <4>7, <4>8 DEF AtData
      <4> QED
        BY <1>1, <3>1, <3>7, <3>8, <3>9, <4>1, <4>9 DEF EthInv, Live, EthInStep
    <3> QED
      BY <3>4, <3>10, <3>11
  <2> QED
    BY <1>0, <2>1, <2>3, <2>4
<1> QED
  BY <1>2, <1>3, <1>4 DEF ClientHeader

(* What the client has put together is right, if no word was torn apart.   *)
LEMMA ReceivedWords ==
  ASSUME EthInv, AtData, NEW k \in 1 .. Len(down), Received(k)
  PROVE  /\ words' \in [1 .. MaxTake * WordLen -> Bytes]
         /\ ~torn' => \A i \in 1 .. len + k : words'[i] = WordByte(taken - log_cnt + 1, i)
<1>0. /\ EthTypes /\ WordLen \in Nat \ {0} /\ MaxTake * WordLen \in Nat
      /\ len \in Nat /\ Len(down) \in Nat /\ log_cnt * WordLen \in Nat
  BY EthConstants, EthNumbers DEF EthInv
<1> DEFINE a == At(len) * WordLen
<1>1. a \in Nat
  <2>1. At(len) \in Nat
    BY <1>0, Division DEF At
  <2> QED
    BY <2>1, EthConstants
<1>2. /\ words' = [i \in DOMAIN words |-> IF i - a \in 1 .. k THEN down[i - a] ELSE words[i]]
      /\ torn' = (torn \/ (len + k) % WordLen # 0)
  BY DEF Received
<1>3. ~torn => a = len
  <2>1. ~torn => len % WordLen = 0
    BY DEF AtData
  <2>2. len = WordLen * At(len) + (len % WordLen) /\ At(len) \in Nat
    BY <1>0, Division DEF At
  <2>3. WordLen * At(len) = a /\ a + 0 = a
    BY <1>0, <1>1, <2>2
  <2> QED
    BY <2>1, <2>2, <2>3
<1> HIDE DEF a
<1>4. words \in [1 .. MaxTake * WordLen -> Bytes] /\ \A i \in 1 .. Len(down) : down[i] \in Bytes
  BY <1>0, EthNumbers DEF EthTypes
<1> HIDE DEF Bytes
<1>5. words' \in [1 .. MaxTake * WordLen -> Bytes]
  <2>1. \A i \in 1 .. MaxTake * WordLen : i - a \in 1 .. k => i - a \in 1 .. Len(down)
    BY <1>0, <1>1
  <2> QED
    BY <1>2, <1>4, <2>1
<1>6. ASSUME ~torn', NEW i \in 1 .. len + k
      PROVE  words'[i] = WordByte(taken - log_cnt + 1, i)
  <2>1. ~torn /\ a = len
    BY <1>2, <1>3, <1>6
  <2>2. i \in DOMAIN words
    <3>1. log_cnt \in 0 .. MaxTake /\ Len(down) = log_cnt * WordLen - len
      BY <1>0 DEF EthTypes, AtData
    <3>2. log_cnt * WordLen <= MaxTake * WordLen
      <4>1. log_cnt < MaxTake => log_cnt * WordLen + WordLen <= MaxTake * WordLen
        BY <3>1, EthConstants, LessBytes
      <4> DEFINE L == log_cnt * WordLen
                 M == MaxTake * WordLen
      <4>2. L \in Nat /\ M \in Nat /\ (log_cnt < MaxTake => L + WordLen <= M) /\ (log_cnt = MaxTake => L = M)
        BY <1>0, <4>1
      <4>3. log_cnt < MaxTake \/ log_cnt = MaxTake
        BY <3>1, EthConstants
      <4> HIDE DEF L, M
      <4>4. L <= M
        BY <1>0, <4>2, <4>3
      <4> QED
        BY <4>4 DEF L, M
    <3> DEFINE L == log_cnt * WordLen
               M == MaxTake * WordLen
    <3>3. L \in Nat /\ M \in Nat /\ L <= M /\ Len(down) = L - len /\ DOMAIN words = 1 .. M
      BY <1>0, <1>4, <3>1, <3>2
    <3> HIDE DEF L, M
    <3> QED
      BY <1>0, <3>3
  <2>3. CASE i <= len
    <3>1. i - a \notin 1 .. k /\ i \in 1 .. len
      BY <1>0, <2>1, <2>3
    <3> QED
      BY <1>2, <2>1, <2>2, <3>1 DEF AtData
  <2>4. CASE ~(i <= len)
    <3>1. i - a \in 1 .. k /\ i - a \in 1 .. Len(down) /\ len + (i - a) = i
      BY <1>0, <2>1, <2>4
    <3>2. words'[i] = down[i - a]
      BY <1>2, <2>2, <3>1
    <3>3. down[i - a] = WordByte(taken - log_cnt + 1, len + (i - a))
      BY <3>1 DEF AtData
    <3> QED
      BY <3>1, <3>2, <3>3
  <2> QED
    BY <2>3, <2>4
<1> QED
  BY <1>5, <1>6

LEMMA ClientDataKeeps ==
  ASSUME EthInv, ClientData
  PROVE  EthInv'
<1>0. /\ EthTypes /\ WordLen \in Nat \ {0} /\ MaxTake \in Nat /\ MaxTaken \in Nat
      /\ len \in Nat /\ Len(down) \in Nat /\ log_cnt * WordLen \in Nat
      /\ taken \in 0 .. MaxTaken /\ start \in Nat /\ Len(file) \in Nat /\ log_cnt \in 0 .. MaxTake
      /\ down \in Seq(Bytes) /\ file \in Seq(0 .. MaxTaken)
  BY EthConstants, EthNumbers DEF EthInv, EthTypes
<1>1. PICK k \in Pieces(down, (log_cnt - At(len)) * WordLen) : Received(k)
  BY DEF ClientData
<1>2. client = "data" /\ UNCHANGED <<log_cnt, start, server, sbuf, taken, hung, broken, up>>
  BY DEF ClientData, server_vars
<1>3. k \in 1 .. Len(down)
  <2>1. \A n \in Int : Pieces(down, n) \subseteq 1 .. Len(down)
    BY <1>0 DEF Pieces, Least
  <2>2. At(len) \in Nat
    BY <1>0, Division DEF At
  <2>3. (log_cnt - At(len)) * WordLen \in Int
    BY <1>0, <2>2
  <2> QED
    BY <1>1, <2>1, <2>3
<1>4. ~broken /\ AtData /\ Unasked
  BY <1>0, <1>2, <1>3 DEF EthInv, Live, AtSend, AtHeader, EthInStep
<1> DEFINE L == log_cnt * WordLen
           first == taken - log_cnt + 1
<1>5. /\ start + Len(file) + log_cnt = taken /\ len < L /\ Len(down) = L - len
      /\ \A i \in 1 .. Len(down) : down[i] = WordByte(first, len + i)
  BY <1>4 DEF AtData
<1>6. /\ words' \in [1 .. MaxTake * WordLen -> Bytes]
      /\ ~torn' => \A i \in 1 .. len + k : words'[i] = WordByte(first, i)
  BY <1>1, <1>3, <1>4, ReceivedWords
<1>7. /\ down' \in Seq(Bytes) /\ Len(down') = Len(down) - k
      /\ \A i \in 1 .. Len(down) - k : down'[i] = down[i + k]
  <2> HIDE DEF Bytes
  <2>1. k \in 0 .. Len(down)
    BY <1>0, <1>3
  <2>2. /\ Skip(down, k) \in Seq(Bytes) /\ Len(Skip(down, k)) = Len(down) - k
        /\ \A i \in 1 .. Len(down) - k : Skip(down, k)[i] = down[i + k]
    BY <1>0, <2>1, BytesSkipped
  <2> QED
    BY <1>1, <2>2 DEF Received
<1>8. /\ torn' = (torn \/ (len + k) % WordLen # 0) /\ torn' \in BOOLEAN
  BY <1>0, <1>1 DEF Received, EthTypes
<1>9. Unasked'
  BY <1>2, <1>4 DEF Unasked, Doomed, GetLog
<1>10. CASE len + k = L
  <2> DEFINE new == [i \in 1 .. log_cnt |-> WordAt(words', i)]
  <2>1. file' = file \o new /\ len' = 0 /\ client' = "send"
    BY <1>1, <1>10 DEF Received
  <2>2. new \in Seq(0 .. MaxTaken) /\ Len(new) = log_cnt /\ \A i \in 1 .. log_cnt : new[i] = WordAt(words', i)
    <3>1. \A i \in 1 .. log_cnt : WordAt(words', i) \in 0 .. MaxTaken
      <4>1. \A i \in 1 .. log_cnt : i \in 1 .. MaxTake
        BY <1>0
      <4> QED
        BY <1>6, <4>1, WordAtType
    <3>2. new \in [1 .. log_cnt -> 0 .. MaxTaken]
      BY <3>1
    <3>3. \A f, n : n \in Nat /\ f \in [1 .. n -> 0 .. MaxTaken] => f \in Seq(0 .. MaxTaken) /\ DOMAIN f = 1 .. n
      BY SeqDef
    <3>4. log_cnt \in Nat
      BY <1>0
    <3>a. new \in Seq(0 .. MaxTaken) /\ DOMAIN new = 1 .. log_cnt
      BY <3>2, <3>3, <3>4, Zenon
    <3>b. \A i \in 1 .. log_cnt : new[i] = WordAt(words', i)
      OBVIOUS
    <3> HIDE DEF new
    <3>5. Len(new) = log_cnt
      BY <3>a, <3>4, LenProperties
    <3> QED
      BY <3>5, <3>a, <3>b
  <2>3. ~torn' => \A i \in 1 .. log_cnt : WordAt(words', i) = first + i - 1
    <3> SUFFICES ASSUME ~torn', NEW i \in 1 .. log_cnt
                 PROVE  WordAt(words', i) = first + i - 1
      OBVIOUS
    <3>1. first \in Nat /\ log_cnt \in Nat
      BY <1>0, <1>5
    <3>2. \A j \in 1 .. log_cnt * WordLen : words'[j] = WordByte(first, j)
      BY <1>6, <1>10
    <3> HIDE DEF first
    <3> QED
      BY <3>1, <3>2, WholeWord
  <2> HIDE DEF new
  <2>4. /\ file' \in Seq(0 .. MaxTaken) /\ Len(file') = Len(file) + log_cnt
        /\ \A i \in 1 .. Len(file) + log_cnt : file'[i] = IF i <= Len(file) THEN file[i] ELSE new[i - Len(file)]
    <3>1. /\ file \o new \in Seq(0 .. MaxTaken) /\ Len(file \o new) = Len(file) + Len(new)
          /\ \A i \in 1 .. Len(file) + Len(new) : (file \o new)[i] = IF i <= Len(file) THEN file[i] ELSE new[i - Len(file)]
      BY <1>0, <2>2, ConcatProperties
    <3> QED
      BY <2>1, <2>2, <3>1
  <2>5. EthTypes'
    <3>1. len' \in 0 .. log_cnt' * WordLen
      BY <1>0, <1>2, <2>1
    <3> QED
      BY <1>0, <1>2, <1>6, <1>7, <1>8, <2>1, <2>4, <3>1 DEF EthTypes
  <2>6. FileRight'
    <3> SUFFICES ASSUME ~torn'
                 PROVE  file' = [i \in 1 .. Len(file') |-> start' + i]
      BY DEF FileRight
    <3>1. file = [i \in 1 .. Len(file) |-> start + i]
      BY <1>8 DEF EthInv, FileRight
    <3>2. \A i \in 1 .. Len(file) + log_cnt : file'[i] = start + i
      <4> SUFFICES ASSUME NEW i \in 1 .. Len(file) + log_cnt
                   PROVE  file'[i] = start + i
        OBVIOUS
      <4>1. CASE i <= Len(file)
        <5>1. i \in 1 .. Len(file)
          BY <1>0, <4>1
        <5>2. file[i] = start + i
          BY <3>1, <5>1
        <5> QED
          BY <2>4, <4>1, <5>2
      <4>2. CASE ~(i <= Len(file))
        <5>1. i - Len(file) \in 1 .. log_cnt /\ first + (i - Len(file)) - 1 = start + i
          <6>1. \A s \in Nat, l \in Nat, c \in Nat : \A n \in 1 .. l + c :
                  ~(n <= l) => n - l \in 1 .. c /\ (s + l + c) - c + 1 + (n - l) - 1 = s + n
            OBVIOUS
          <6>2. start \in Nat /\ Len(file) \in Nat /\ log_cnt \in Nat /\ i \in 1 .. Len(file) + log_cnt
            BY <1>0
          <6>3. first = (start + Len(file) + log_cnt) - log_cnt + 1
            BY <1>5
          <6> HIDE DEF first
          <6>4. i - Len(file) \in 1 .. log_cnt
                /\ (start + Len(file) + log_cnt) - log_cnt + 1 + (i - Len(file)) - 1 = start + i
            BY <4>2, <6>1, <6>2, Zenon
          <6> QED
            BY <6>3, <6>4
        <5>2. new[i - Len(file)] = start + i
          BY <2>2, <2>3, <5>1
        <5> QED
          BY <2>4, <4>2, <5>2
      <4> QED
        BY <4>1, <4>2
    <3>3. file' \in [1 .. Len(file) + log_cnt -> 0 .. MaxTaken]
      BY <2>4, LenProperties
    <3>4. file' = [i \in 1 .. Len(file) + log_cnt |-> start + i]
      BY <3>2, <3>3
    <3> QED
      BY <1>2, <2>4, <3>4
  <2>7. AtSend'
    <3>1. Len(down') = 0 /\ start' + Len(file') = taken'
      BY <1>0, <1>2, <1>3, <1>5, <1>7, <1>10, <2>4
    <3> QED
      BY <2>1, <3>1 DEF AtSend
  <2> QED
    BY <1>2, <1>4, <1>9, <2>1, <2>5, <2>6, <2>7 DEF EthInv, Live, EthInStep
<1>11. CASE len + k # L
  <2>1. len' = len + k /\ UNCHANGED <<file, client>>
    BY <1>1, <1>11 DEF Received
  <2> HIDE DEF L
  <2>2. len' \in Nat /\ len' < L /\ L \in Nat /\ Len(down') = L - len' /\ L = log_cnt' * WordLen
    BY <1>0, <1>2, <1>3, <1>5, <1>7, <1>11, <2>1 DEF L
  <2>3. EthTypes'
    <3>1. len' \in 0 .. log_cnt' * WordLen
      BY <2>2
    <3> QED
      BY <1>0, <1>2, <1>6, <1>7, <1>8, <2>1, <3>1 DEF EthTypes
  <2>4. FileRight'
    BY <1>2, <1>8, <2>1 DEF EthInv, FileRight
  <2>5. \A i \in 1 .. Len(down') : down'[i] = WordByte(first, len' + i)
    <3> HIDE DEF first
    <3>1. \A i \in 1 .. Len(down') : i \in 1 .. Len(down) - k /\ i + k \in 1 .. Len(down)
                                     /\ len + (i + k) = (len + k) + i
      BY <1>0, <1>3, <1>7
    <3> QED
      BY <1>5, <1>7, <2>1, <3>1
  <2>6. AtData'
    <3>1. ~torn' => len' % WordLen = 0 /\ \A i \in 1 .. len' : words'[i] = WordByte(first, i)
      BY <1>6, <1>8, <2>1
    <3> QED
      BY <1>2, <1>5, <2>1, <2>2, <2>5, <3>1 DEF AtData
  <2> QED
    BY <1>2, <1>4, <1>9, <2>1, <2>3, <2>4, <2>6 DEF EthInv, Live, EthInStep
<1> QED
  BY <1>10, <1>11

(* The server reads: unless it closes, it is as far behind as before.      *)
LEMMA ServerHeaderKeeps ==
  ASSUME EthInv, ServerHeader
  PROVE  EthInv'
<1>0. /\ EthTypes /\ up \in Seq(0 .. 3) /\ Len(up) \in Nat /\ sbuf \in [1 .. 5 -> 0 .. 3]
      /\ \A i \in 1 .. Len(up) : up[i] \in 0 .. 3
      /\ (up = <<>> <=> Len(up) = 0)
  BY EthNumbers DEF EthInv, EthTypes
<1>1. /\ server = "hdr"
      /\ UNCHANGED <<taken, client, log_cnt, len, words, file, start, torn, broken, down>>
  BY DEF ServerHeader, client_vars
<1>2. FileRight'
  BY <1>1 DEF EthInv, FileRight
<1>3. ASSUME up' \in Seq(0 .. 3), sbuf' \in [1 .. 5 -> 0 .. 3], server' \in {"accept", "hdr", "body", "answer"},
             hung' \in BOOLEAN, Unasked => Unasked', Asked => Asked'
      PROVE  EthInv'
  <2>1. EthTypes'
    BY <1>0, <1>1, <1>3 DEF EthTypes
  <2>2. (AtSend => AtSend') /\ (AtHeader => AtHeader') /\ (AtData => AtData')
    BY <1>1, Zenon DEF AtSend, AtHeader, AtData, AnswerOf
  <2>3. EthInStep => EthInStep'
    BY <1>1, <1>3 DEF EthInStep
  <2>4. Live'
    BY <1>1, <2>2, <2>3 DEF EthInv, Live
  <2> QED
    BY <1>2, <2>1, <2>4 DEF EthInv
<1>4. CASE server' = "accept" /\ hung' = (client # "off") /\ UNCHANGED <<sbuf, up>>
  BY <1>0, <1>3, <1>4 DEF Unasked, Asked, Doomed
<1>5. ASSUME NEW k \in Pieces(up, 4), sbuf' = Overwritten(1, SubSeq(up, 1, k)), up' = Skip(up, k),
             LET length == 256 * sbuf'[1] + sbuf'[2]
                 cmdno == sbuf'[3]
             IN  IF cmdno \notin 1 .. 3 \/ length > 1 THEN Close
                 ELSE /\ server' = IF length > 0 THEN "body" ELSE "answer"
                      /\ UNCHANGED hung
      PROVE  EthInv'
  <2>1. k \in 1 .. Len(up) /\ k \in 1 .. 4
    BY <1>0 DEF Pieces, Least
  <2>2. /\ sbuf' \in [1 .. 5 -> 0 .. 3]
        /\ \A i \in 1 .. 5 : sbuf'[i] = IF i <= k THEN up[i] ELSE sbuf[i]
    BY <1>0, <1>5, <2>1, PieceOfCommand
  <2>3. /\ up' \in Seq(0 .. 3) /\ Len(up') = Len(up) - k
        /\ \A i \in 1 .. Len(up) - k : up'[i] = up[i + k]
    <3>1. k \in 0 .. Len(up)
      BY <1>0, <2>1
    <3>2. /\ Skip(up, k) \in Seq(0 .. 3) /\ Len(Skip(up, k)) = Len(up) - k
          /\ \A i \in 1 .. Len(up) - k : Skip(up, k)[i] = up[i + k]
      BY <1>0, <3>1, BytesSkipped
    <3> QED
      BY <1>5, <3>2
  <2>4. server' \in {"accept", "hdr", "body", "answer"} /\ hung' \in BOOLEAN
    BY <1>0, <1>5 DEF Close, EthTypes
  <2>5. /\ sbuf'[1] \in 0 .. 3 /\ sbuf'[2] \in 0 .. 3 /\ sbuf'[3] \in 0 .. 3
        /\ sbuf'[1] = up[1]
        /\ sbuf'[2] = IF k >= 2 THEN up[2] ELSE sbuf[2]
        /\ sbuf'[3] = IF k >= 3 THEN up[3] ELSE sbuf[3]
        /\ up[1] \in 0 .. 3
    BY <1>0, <2>1, <2>2
  <2>6. up[1] # 0 => server' = "accept"
    <3>1. \A a \in 0 .. 3, b \in 0 .. 3 : (a # 0 => 256 * a + b > 1)
      OBVIOUS
    <3>2. up[1] # 0 => 256 * sbuf'[1] + sbuf'[2] > 1
      BY <2>5, <3>1, Zenon
    <3> QED
      BY <1>5, <3>2 DEF Close
  <2>7. up[1] = 0 => \/ server' = "accept"
                     \/ server' = "body" /\ sbuf'[2] = 1
                     \/ server' = "answer" /\ sbuf'[2] = 0
    <3>1. \A b \in 0 .. 3 : 256 * 0 + b = b /\ (b > 1 \/ b = 1 \/ b = 0)
      OBVIOUS
    <3> SUFFICES ASSUME up[1] = 0
                 PROVE  \/ server' = "accept"
                        \/ server' = "body" /\ sbuf'[2] = 1
                        \/ server' = "answer" /\ sbuf'[2] = 0
      OBVIOUS
    <3>2. 256 * sbuf'[1] + sbuf'[2] = sbuf'[2] /\ (sbuf'[2] > 1 \/ sbuf'[2] = 1 \/ sbuf'[2] = 0)
      BY <2>5, <3>1
    <3>3. CASE sbuf'[2] > 1
      BY <1>5, <3>2, <3>3 DEF Close
    <3>4. CASE sbuf'[2] = 1
      BY <1>5, <3>2, <3>4 DEF Close
    <3>5. CASE sbuf'[2] = 0
      BY <1>5, <3>2, <3>5 DEF Close
    <3> QED
      BY <3>2, <3>3, <3>4, <3>5
  <2>8. CASE server' = "accept"
    BY <1>3, <2>2, <2>3, <2>4, <2>8 DEF Unasked, Asked, Doomed
  <2>9. CASE server' # "accept"
    <3>0. up[1] = 0 /\ \/ server' = "body" /\ sbuf'[2] = 1
                       \/ server' = "answer" /\ sbuf'[2] = 0
      BY <2>6, <2>7, <2>9
    <3>1. ~Doomed
      BY <1>1, <3>0 DEF Doomed
    <3>2. Unasked => Unasked'
      <4> SUFFICES ASSUME Unasked
                   PROVE  Unasked'
        OBVIOUS
      <4>1. Len(up) = 1 /\ GetLog
        BY <1>0, <1>1, <2>1, <3>1 DEF Unasked
      <4>2. k = 1 /\ Len(up') = 0 /\ sbuf'[2] = 1
        BY <2>1, <2>3, <2>5, <4>1 DEF GetLog
      <4> QED
        BY <3>0, <4>2 DEF Unasked
    <3>3. Asked => Asked'
      <4>1. CASE CommandBehind(0)
        <5>1. Len(up) = 5 /\ up[1] = 0 /\ up[2] = 1 /\ up[3] = 3 /\ up[5] = 0
          BY <4>1 DEF CommandBehind
        <5>2. CASE k = 1
          <6>1. Len(up') = 4 /\ up'[1] = 1
            BY <2>3, <5>1, <5>2
          <6> QED
            BY <3>0, <6>1 DEF Asked, Doomed
        <5>3. CASE k = 2
          <6>1. Len(up') = 3 /\ up'[1] = 3 /\ sbuf'[2] = 1
            BY <2>3, <2>5, <5>1, <5>3
          <6> QED
            BY <3>0, <6>1 DEF Asked, Doomed
        <5>4. CASE k = 3
          <6>1. Len(up') = 2 /\ up'[2] = 0 /\ sbuf'[2] = 1 /\ sbuf'[3] = 3
            BY <2>3, <2>5, <5>1, <5>4
          <6> QED
            BY <3>0, <6>1 DEF Asked, GetLog
        <5>5. CASE k = 4
          <6>1. Len(up') = 1 /\ up'[1] = 0 /\ sbuf'[2] = 1 /\ sbuf'[3] = 3
            BY <2>3, <2>5, <5>1, <5>5
          <6> QED
            BY <3>0, <6>1 DEF Asked
        <5> QED
          BY <2>1, <5>2, <5>3, <5>4, <5>5
      <4>2. CASE CommandBehind(1) /\ GetLog
        <5>1. Len(up) = 6 /\ up[2] = 0 /\ up[3] = 1 /\ up[4] = 3 /\ up[6] = 0 /\ sbuf[2] = 1 /\ sbuf[3] = 3
          BY <4>2 DEF CommandBehind, GetLog
        <5>2. CASE k = 1
          <6>1. /\ Len(up') = 5 /\ up'[1] = 0 /\ up'[2] = 1 /\ up'[3] = 3 /\ up'[5] = 0
                /\ sbuf'[2] = 1
            BY <2>3, <2>5, <5>1, <5>2
          <6> QED
            BY <3>0, <6>1 DEF Asked, CommandBehind
        <5>3. CASE k = 2
          <6>1. Len(up') = 4 /\ up'[1] = 1 /\ sbuf'[2] = 0
            BY <2>3, <2>5, <5>1, <5>3
          <6> QED
            BY <3>0, <6>1 DEF Asked
        <5>4. CASE k \in {3, 4}
          <6>1. sbuf'[2] = 0 /\ sbuf'[3] = 1
            BY <2>5, <5>1, <5>4
          <6> QED
            BY <3>0, <6>1 DEF Asked, Doomed
        <5> QED
          BY <2>1, <5>2, <5>3, <5>4
      <4> QED
        BY <1>1, <3>1, <4>1, <4>2 DEF Asked
    <3> QED
      BY <1>3, <2>2, <2>3, <2>4, <3>2, <3>3
  <2> QED
    BY <2>8, <2>9
<1> QED
  BY <1>4, <1>5 DEF ServerHeader, Close

LEMMA ServerBodyKeeps ==
  ASSUME EthInv, ServerBody
  PROVE  EthInv'
<1>0. /\ EthTypes /\ up \in Seq(0 .. 3) /\ Len(up) \in Nat /\ sbuf \in [1 .. 5 -> 0 .. 3]
      /\ \A i \in 1 .. Len(up) : up[i] \in 0 .. 3
      /\ (up = <<>> <=> Len(up) = 0)
  BY EthNumbers DEF EthInv, EthTypes
<1>1. /\ server = "body"
      /\ UNCHANGED <<taken, client, log_cnt, len, words, file, start, torn, broken, down>>
  BY DEF ServerBody, client_vars
<1>2. FileRight'
  BY <1>1 DEF EthInv, FileRight
<1>3. ASSUME up' \in Seq(0 .. 3), sbuf' \in [1 .. 5 -> 0 .. 3], server' \in {"accept", "hdr", "body", "answer"},
             hung' \in BOOLEAN, Unasked => Unasked', Asked => Asked'
      PROVE  EthInv'
  <2>1. EthTypes'
    BY <1>0, <1>1, <1>3 DEF EthTypes
  <2>2. (AtSend => AtSend') /\ (AtHeader => AtHeader') /\ (AtData => AtData')
    BY <1>1, Zenon DEF AtSend, AtHeader, AtData, AnswerOf
  <2>3. EthInStep => EthInStep'
    BY <1>1, <1>3 DEF EthInStep
  <2>4. Live'
    BY <1>1, <2>2, <2>3 DEF EthInv, Live
  <2> QED
    BY <1>2, <2>1, <2>4 DEF EthInv
<1>4. CASE server' = "accept" /\ hung' = (client # "off") /\ UNCHANGED <<sbuf, up>>
  BY <1>0, <1>3, <1>4 DEF Unasked, Asked, Doomed
<1>5. CASE /\ up # <<>> /\ sbuf' = Overwritten(5, SubSeq(up, 1, 1))
           /\ up' = Tail(up) /\ server' = "answer" /\ UNCHANGED hung
  <2>1. Len(up) > 0 /\ 1 \in 1 .. Len(up)
    BY <1>0, <1>5
  <2>2. sbuf' = [sbuf EXCEPT ![5] = up[1]] /\ up[1] \in 0 .. 3
    <3>1. 1 \in 1 .. Len(up) /\ 1 <= 4
      BY <2>1
    <3>2. 1 = 1 => Overwritten(5, SubSeq(up, 1, 1)) = [sbuf EXCEPT ![5] = up[1]]
      BY <1>0, <3>1, PieceOfCommand, Zenon
    <3>3. up[1] \in 0 .. 3
      BY <1>0, <2>1
    <3> QED
      BY <1>5, <3>2, <3>3, Zenon
  <2>3. sbuf' \in [1 .. 5 -> 0 .. 3] /\ sbuf'[5] = up[1] /\ sbuf'[2] = sbuf[2] /\ sbuf'[3] = sbuf[3]
    BY <1>0, <2>2
  <2>4. /\ up' \in Seq(0 .. 3) /\ Len(up') = Len(up) - 1
        /\ \A i \in 1 .. Len(up) - 1 : up'[i] = up[i + 1]
    BY <1>0, <1>5, HeadTailProperties
  <2>5. Unasked => Unasked'
    <3>1. Unasked => up[1] # 0
      BY <1>1, <2>1 DEF Unasked, Doomed
    <3> QED
      BY <1>5, <2>3, <3>1 DEF Unasked, Doomed
  <2>6. Asked => Asked'
    <3>1. CASE up[1] # 0
      BY <1>5, <2>3, <3>1 DEF Asked, Doomed
    <3>2. CASE CommandBehind(0)
      <4>1. Len(up') = 4 /\ up'[1] = 1
        BY <2>4, <3>2 DEF CommandBehind
      <4> QED
        BY <1>5, <4>1 DEF Asked
    <3>3. CASE Len(up) = 1
      <4>1. Len(up') = 0
        BY <2>4, <3>3
      <4> QED
        BY <1>5, <4>1 DEF Asked
    <3>4. CASE Len(up) = 2 /\ up[2] = 0 /\ GetLog
      <4>1. Len(up') = 1 /\ up'[1] = 0
        BY <2>4, <3>4
      <4> QED
        BY <1>5, <2>3, <3>4, <4>1 DEF Asked, GetLog
    <3> QED
      BY <1>1, <3>1, <3>2, <3>3, <3>4 DEF Asked, Doomed
  <2> QED
    BY <1>0, <1>3, <1>5, <2>3, <2>4, <2>5, <2>6 DEF EthTypes
<1> QED
  BY <1>4, <1>5 DEF ServerBody, Close

LEMMA AnswerTypes ==
  ASSUME NEW n \in 0 .. MaxTake, NEW first \in Nat \ {0}, first + n <= MaxTaken + 1
  PROVE  /\ Header(n) \in Seq(Bytes) /\ Len(Header(n)) = HdrLen
         /\ \A i \in 1 .. HdrLen : Header(n)[i].byte = n
         /\ Words(first, n) \in Seq(Bytes) /\ Len(Words(first, n)) = n * WordLen
         /\ \A i \in 1 .. n * WordLen : Words(first, n)[i] = WordByte(first, i)
<1>0. /\ HdrLen \in Nat /\ n \in Nat /\ n * WordLen \in Nat /\ MaxTaken \in Nat /\ MaxTake \in Nat
  BY EthConstants
<1>1. Byte(0, n) \in Bytes /\ Byte(0, n).byte = n
  BY <1>0 DEF Byte, Bytes
<1>2. \A i \in 1 .. n * WordLen : WordByte(first, i) \in Bytes
  BY <1>0, WordByteType
<1> HIDE DEF Bytes
<1>3. \A f, N : N \in Nat /\ f \in [1 .. N -> Bytes] => f \in Seq(Bytes) /\ DOMAIN f = 1 .. N
  BY SeqDef
<1>4. \A f, N : N \in Nat /\ f \in [1 .. N -> Bytes] => Len(f) = N
  <2> SUFFICES ASSUME NEW f, NEW N \in Nat, f \in [1 .. N -> Bytes]
               PROVE  Len(f) = N
    OBVIOUS
  <2>1. f \in Seq(Bytes) /\ DOMAIN f = 1 .. N
    BY <1>3, Zenon
  <2> QED
    BY <2>1, LenProperties
<1>5. Header(n) \in [1 .. HdrLen -> Bytes] /\ \A i \in 1 .. HdrLen : Header(n)[i].byte = n
  BY <1>1 DEF Header
<1>6. /\ Words(first, n) \in [1 .. n * WordLen -> Bytes]
      /\ \A i \in 1 .. n * WordLen : Words(first, n)[i] = WordByte(first, i)
  BY <1>2 DEF Words, WordByte
<1> QED
  BY <1>0, <1>3, <1>4, <1>5, <1>6, Zenon

LEMMA ServerAnswerKeeps ==
  ASSUME EthInv, ServerAnswer
  PROVE  EthInv'
<1>0. /\ EthTypes /\ taken \in Nat /\ Len(down) \in Nat /\ down \in Seq(Bytes)
      /\ MaxTake \in Nat /\ MaxTaken \in Nat /\ taken <= MaxTaken /\ HdrLen \in Nat \ {0}
      /\ start \in Nat /\ Len(file) \in Nat
  BY EthNumbers, EthConstants DEF EthInv, EthTypes
<1>1. /\ server = "answer"
      /\ UNCHANGED <<sbuf, client, log_cnt, len, words, file, start, torn, broken, up>>
  BY DEF ServerAnswer, client_vars
<1>2. FileRight'
  BY <1>1 DEF EthInv, FileRight
<1>3. CASE server' = "accept" /\ hung' = (client # "off") /\ UNCHANGED <<taken, down>>
  <2>1. EthTypes'
    BY <1>0, <1>1, <1>3 DEF EthTypes
  <2>2. (AtSend => AtSend') /\ (AtHeader => AtHeader') /\ (AtData => AtData')
    BY <1>1, <1>3, Zenon DEF AtSend, AtHeader, AtData, AnswerOf
  <2>3. EthInStep'
    BY <1>3 DEF EthInStep, Asked, Unasked, Doomed
  <2>4. Live'
    BY <1>1, <1>3, <2>2, <2>3 DEF EthInv, Live
  <2> QED
    BY <1>2, <2>1, <2>4 DEF EthInv
<1>4. ASSUME ~(sbuf[3] # 3 \/ sbuf[5] # 0), NEW n \in 0 .. Least(MaxTake, MaxTaken - taken), taken' = taken + n,
             IF client # "off" /\ ~broken
               THEN /\ down' = down \o Header(n) \o Words(taken + 1, n)
                    /\ server' = "hdr" /\ UNCHANGED hung
               ELSE /\ Close \/ (server' = "hdr" /\ UNCHANGED hung)
                    /\ UNCHANGED down
      PROVE  EthInv'
  <2>1. n \in 0 .. MaxTake /\ taken + n <= MaxTaken /\ taken' \in 0 .. MaxTaken
    BY <1>0, <1>4 DEF Least
  <2>2. CASE ~(client # "off" /\ ~broken)
    <3>1. down' = down /\ server' \in {"accept", "hdr"} /\ hung' \in BOOLEAN
      BY <1>0, <1>4, <2>2 DEF Close, EthTypes
    <3>2. EthTypes'
      BY <1>0, <1>1, <2>1, <3>1 DEF EthTypes
    <3>3. Live'
      BY <1>1, <2>2, <3>1 DEF EthInv, Live
    <3> QED
      BY <1>2, <3>2, <3>3 DEF EthInv
  <2>3. CASE client # "off" /\ ~broken
    <3>1. /\ down' = down \o Header(n) \o Words(taken + 1, n)
          /\ server' = "hdr" /\ hung' = hung
      BY <1>4, <2>3
    <3>2. ~Doomed /\ ~Unasked
      BY <1>1, <1>4 DEF Doomed, Unasked
    <3>3. client = "hdr" /\ Len(down) = 0 /\ Asked
      BY <2>3, <3>2 DEF EthInv, Live, EthInStep
    <3>4. start + Len(file) = taken /\ len = 0
      <4>1. AtHeader
        BY <2>3, <3>3 DEF EthInv, Live, AtSend, AtData
      <4>2. \A m \in 0 .. MaxTake : ~AnswerOf(m)
        <5> SUFFICES ASSUME NEW m \in 0 .. MaxTake, AnswerOf(m)
                     PROVE  FALSE
          OBVIOUS
        <5>1. m * WordLen \in Nat /\ Len(down) = HdrLen + m * WordLen
          BY EthConstants DEF AnswerOf
        <5> QED
          BY <1>0, <3>3, <5>1
      <4> QED
        BY <4>1, <4>2 DEF AtHeader
    <3> DEFINE first == taken + 1
               N == n * WordLen
               h == Header(n)
               w == Words(first, n)
    <3>5. /\ h \in Seq(Bytes) /\ Len(h) = HdrLen
          /\ \A i \in 1 .. HdrLen : h[i].byte = n
          /\ w \in Seq(Bytes) /\ Len(w) = N
          /\ \A i \in 1 .. N : w[i] = WordByte(first, i)
      <4>1. first \in Nat \ {0} /\ first + n <= MaxTaken + 1
        BY <1>0, <2>1
      <4> HIDE DEF first
      <4> QED
        BY <2>1, <4>1, AnswerTypes
    <3>6. N \in Nat
      BY <2>1, EthConstants
    <3>7. down' = down \o h \o w
      BY <3>1
    <3> HIDE DEF h, w, N, Bytes
    <3>8. down' = h \o w
      <4>1. down = <<>>
        BY <1>0, <3>3, EmptySeq
      <4>2. <<>> \o h = h
        BY <3>5, ConcatEmptySeq
      <4> QED
        BY <3>7, <4>1, <4>2
    <3>9. /\ down' \in Seq(Bytes) /\ Len(down') = HdrLen + N
          /\ \A i \in 1 .. HdrLen + N : down'[i] = IF i <= HdrLen THEN h[i] ELSE w[i - HdrLen]
      BY <3>5, <3>8, ConcatProperties
    <3>10. EthTypes'
      BY <1>0, <1>1, <2>1, <3>1, <3>9 DEF EthTypes
    <3>11. AnswerOf(n)'
      <4>1. \A i \in 1 .. HdrLen : i \in 1 .. HdrLen + N /\ i <= HdrLen
        BY <1>0, <3>6
      <4>2. \A i \in 1 .. HdrLen : down'[i].byte = n
        BY <3>5, <3>9, <4>1
      <4>3. \A i \in 1 .. N : /\ i + HdrLen \in 1 .. HdrLen + N /\ ~(i + HdrLen <= HdrLen)
                              /\ (i + HdrLen) - HdrLen = i
        BY <1>0, <3>6
      <4>4. \A i \in 1 .. N : down'[i + HdrLen] = WordByte(first, i)
        BY <3>5, <3>9, <4>3
      <4>5. taken' - n + 1 = first /\ start' + Len(file') + n = taken'
        BY <1>0, <1>1, <1>4, <2>1, <3>4
      <4> HIDE DEF first
      <4>6. \A i \in 1 .. n * WordLen : down'[i + HdrLen] = WordByte(taken' - n + 1, i)
        BY <4>4, <4>5 DEF N
      <4>7. Len(down') = HdrLen + n * WordLen
        BY <3>9 DEF N
      <4> QED
        BY <4>2, <4>5, <4>6, <4>7 DEF AnswerOf
    <3>12. AtHeader'
      BY <1>1, <2>1, <3>3, <3>4, <3>11 DEF AtHeader
    <3>13. Unasked'
      BY <1>1, <3>1, <3>2, <3>3 DEF Asked, Unasked, Doomed, GetLog
    <3>14. Len(down') # 0
      BY <1>0, <3>6, <3>9
    <3> QED
      BY <1>1, <1>2, <2>3, <3>10, <3>12, <3>13, <3>14 DEF EthInv, Live, EthInStep
  <2> QED
    BY <2>2, <2>3
<1> QED
  BY <1>3, <1>4 DEF ServerAnswer, Close

LEMMA EthStepKeeps == EthInv /\ [EthNext]_ethvars => EthInv'
<1> SUFFICES ASSUME EthInv, [EthNext]_ethvars
             PROVE  EthInv'
  OBVIOUS
<1>1. CASE UNCHANGED ethvars
  BY <1>1 DEF ethvars, server_vars, client_vars, EthInv, EthTypes, FileRight, Live, EthInStep, AtSend, AtHeader,
              AtData, AnswerOf, Asked, Unasked, Doomed, CommandBehind, GetLog
<1>2. CASE EthNext
  BY <1>2, ConnectKeeps, KillKeeps, ResetKeeps, ClientSendKeeps, ClientHeaderKeeps, ClientDataKeeps,
     ServerHeaderKeeps, ServerBodyKeeps, ServerAnswerKeeps DEF EthNext, ClientStep, ServerStep
<1> QED
  BY <1>1, <1>2

LEMMA EthInvariant == EthSpec => []EthInv
  BY EthInitInv, EthStepKeeps, PTL DEF EthSpec

(* Every variable of server, client and connection has its type, for any   *)
(* length of headers, words and answers.                                   *)
THEOREM EthTyping == EthSpec => []EthTypeOK
BY EthInvariant, EthTyped, PTL

(* However commands and answers are cut to pieces, and whoever is killed   *)
(* or cut off when: what is in the client's file are the words that were   *)
(* taken out of the log since it came, each once and in order, as long as  *)
(* no piece ended inside a word.                                           *)
THEOREM WordsInOrder == EthSpec => []FileRight
<1>1. EthInv => FileRight
  BY DEF EthInv
<1> QED
  BY EthInvariant, <1>1, PTL

-----------------------------------------------------------------------------
(* The ADC/DAC demo: values stay with their channel.                       *)

AdcVals == [sel : AdcChans, n : 0 .. MaxConversions]

(* Values of channel c, the newest first.                                  *)
OfChannel(vals, c) ==
  /\ vals \in Seq(AdcVals) /\ Len(vals) <= 10
  /\ \A i \in 1 .. Len(vals) : vals[i].sel = chansel(c)
  /\ \A i \in 2 .. Len(vals) : vals[i].n < vals[i - 1].n

NoneAfter(vals, n) == \A i \in 1 .. Len(vals) : vals[i].n <= n

AdcTypes ==
  /\ adc_pc \in {"init", "dac", "clear", "select", "start", "wait", "try", "exit"}
  /\ adc_chan \in AdcChans /\ adc_adr \in AdcChans /\ adc_sem \in 0 .. 1 /\ adc_irq \in BOOLEAN
  /\ adc_core \in [state : {"idle", "ongoing", "done", "failed"}, sel : AdcChans, n : 0 .. MaxConversions]
  /\ adc_last_val \in [AdcChans -> Nat]
  /\ adcvals \in [AdcChans -> Seq(AdcVals)]
  /\ adc_started \in 0 .. MaxConversions /\ adc_good \in 0 .. adc_started
  /\ adc_spurious \in 0 .. MaxSpurious

(* The task has a conversion under way, or a value of its channel that is  *)
(* newer than all it has; otherwise the converter does nothing.            *)
AdcAtWork ==
  IF adc_pc \in {"wait", "try"}
    THEN /\ adc_core.state # "idle" /\ adc_core.sel = chansel(adc_chan) /\ adc_core.n = adc_started
         /\ adc_good < adc_started
         /\ \A c \in AdcChans : NoneAfter(adcvals[c], adc_started - 1)
    ELSE /\ adc_core.state # "ongoing"
         /\ \A c \in AdcChans : NoneAfter(adcvals[c], adc_started)

AdcInv ==
  /\ AdcTypes /\ AdcAtWork
  /\ \A c \in AdcChans : OfChannel(adcvals[c], c)
  /\ adc_pc = "start" => adc_adr = chansel(adc_chan)
  /\ adc_pc = "wait" /\ adc_sem = 0 => adc_core.state = "ongoing" \/ adc_irq

LEMMA AdcChannels ==
  /\ AdcChans = 0 .. 3 /\ 0 \in AdcChans
  /\ \A c \in AdcChans : chansel(c) \in AdcChans /\ (c + 1) % MAX_CHANS \in AdcChans
BY DEF AdcChans, chansel, MAX_CHANS

LEMMA AdcInitInv == AdcInit => AdcInv
<1> SUFFICES ASSUME AdcInit PROVE AdcInv
  OBVIOUS
<1>1. \A c \in AdcChans : adcvals[c] = <<>>
  BY DEF AdcInit
<1>2. <<>> \in Seq(AdcVals) /\ Len(<<>>) = 0 /\ 0 \in 0 .. MaxConversions /\ 0 \in 0 .. MaxSpurious
  BY AdcBounds
<1>3. AdcTypes
  <2>1. adc_core \in [state : {"idle", "ongoing", "done", "failed"}, sel : AdcChans, n : 0 .. MaxConversions]
    BY <1>2, AdcChannels DEF AdcInit
  <2>2. adc_last_val \in [AdcChans -> Nat] /\ adcvals \in [AdcChans -> Seq(AdcVals)]
    BY <1>2 DEF AdcInit
  <2>3. adc_irq \in BOOLEAN /\ adc_pc \in {"init", "dac", "clear", "select", "start", "wait", "try", "exit"}
    BY DEF AdcInit
  <2>4. adc_chan \in AdcChans /\ adc_adr \in AdcChans /\ adc_sem \in 0 .. 1
    BY AdcChannels DEF AdcInit
  <2>5. adc_started \in 0 .. MaxConversions /\ adc_good \in 0 .. adc_started /\ adc_spurious \in 0 .. MaxSpurious
    BY <1>2 DEF AdcInit
  <2> QED
    BY <2>1, <2>2, <2>3, <2>4, <2>5 DEF AdcTypes
<1>4. \A c \in AdcChans : OfChannel(adcvals[c], c) /\ NoneAfter(adcvals[c], 0)
  <2>1. \A c \in AdcChans : OfChannel(<<>>, c) /\ NoneAfter(<<>>, 0)
    BY <1>2 DEF OfChannel, NoneAfter
  <2> QED
    BY <1>1, <2>1, Zenon
<1> QED
  BY <1>3, <1>4 DEF AdcInit, AdcInv, AdcAtWork

(* Another value before those there are.                                   *)
LEMMA NewestFirst ==
  ASSUME NEW v \in AdcVals, NEW vals \in Seq(AdcVals), Len(vals) <= 10
  PROVE  /\ Newest(v, vals) \in Seq(AdcVals) /\ Len(Newest(v, vals)) \in 1 .. 10
         /\ Len(Newest(v, vals)) <= Len(vals) + 1
         /\ \A i \in 1 .. Len(Newest(v, vals)) :
              Newest(v, vals)[i] = IF i = 1 THEN v ELSE vals[i - 1]
<1> DEFINE k == IF Len(vals) < 10 THEN Len(vals) + 1 ELSE 10
           t == <<v>>
           u == t \o vals
<1>1. t \in Seq(AdcVals) /\ Len(t) = 1 /\ t[1] = v
  OBVIOUS
<1>2. Len(vals) \in Nat /\ k \in 1 .. 10 /\ k <= Len(vals) + 1
  BY LenProperties
<1> HIDE DEF t, k
<1>3. /\ t \o vals \in Seq(AdcVals) /\ Len(t \o vals) = Len(t) + Len(vals)
      /\ \A i \in 1 .. Len(t) + Len(vals) : (t \o vals)[i] = IF i <= Len(t) THEN t[i] ELSE vals[i - Len(t)]
  BY <1>1, ConcatProperties
<1>4. /\ u \in Seq(AdcVals) /\ Len(u) = Len(vals) + 1
      /\ \A i \in 1 .. Len(vals) + 1 : u[i] = IF i = 1 THEN v ELSE vals[i - 1]
  BY <1>1, <1>2, <1>3
<1> HIDE DEF u
<1>5. 1 \in 1 .. Len(u) + 1 /\ k \in 0 .. Len(u) /\ Len(u) \in Nat
  BY <1>2, <1>4
<1>6. /\ SubSeq(u, 1, k) \in Seq(AdcVals) /\ Len(SubSeq(u, 1, k)) = IF 1 <= k THEN k - 1 + 1 ELSE 0
      /\ \A i \in 1 .. k - 1 + 1 : SubSeq(u, 1, k)[i] = u[1 + i - 1]
  BY <1>4, <1>5, SubSeqProperties, SMT
<1>7. /\ Len(SubSeq(u, 1, k)) = k
      /\ \A i \in 1 .. k : SubSeq(u, 1, k)[i] = u[i]
  BY <1>2, <1>6
<1>8. Newest(v, vals) = SubSeq(u, 1, k)
  BY DEF Newest, u, t, k
<1>9. \A i \in 1 .. k : SubSeq(u, 1, k)[i] = IF i = 1 THEN v ELSE vals[i - 1]
  BY <1>2, <1>4, <1>7
<1> QED
  BY <1>2, <1>6, <1>7, <1>8, <1>9

LEMMA StoredKeeps ==
  ASSUME AdcInv, adc_pc = "try", adc_core.state = "done", Stored
  PROVE  /\ \A c \in AdcChans : OfChannel(adcvals'[c], c) /\ NoneAfter(adcvals'[c], adc_started)
         /\ adcvals' \in [AdcChans -> Seq(AdcVals)] /\ adc_last_val' \in [AdcChans -> Nat]
         /\ adc_good' \in 0 .. adc_started
<1>0. /\ AdcTypes /\ adc_chan \in AdcChans
      /\ adc_core.sel = chansel(adc_chan) /\ adc_core.n = adc_started /\ adc_good < adc_started
      /\ \A c \in AdcChans : OfChannel(adcvals[c], c) /\ NoneAfter(adcvals[c], adc_started - 1)
      /\ adc_started \in 0 .. MaxConversions /\ MaxConversions \in Nat
  BY AdcBounds DEF AdcInv, AdcTypes, AdcAtWork
<1> DEFINE v    == [sel |-> adc_core.sel, n |-> adc_core.n]
           old  == adcvals[adc_chan]
           new  == Newest(v, old)
<1>1. v \in AdcVals /\ v.sel = chansel(adc_chan) /\ v.n = adc_started
  BY <1>0, AdcChannels DEF AdcVals
<1>2. /\ old \in Seq(AdcVals) /\ Len(old) <= 10 /\ Len(old) \in Nat
      /\ \A i \in 1 .. Len(old) : /\ old[i].sel = chansel(adc_chan) /\ old[i].n <= adc_started - 1
                                  /\ old[i].n \in 0 .. MaxConversions
      /\ \A i \in 2 .. Len(old) : old[i].n < old[i - 1].n
  <2>1. old \in Seq(AdcVals) /\ Len(old) <= 10 /\ Len(old) \in Nat
    BY <1>0, LenProperties DEF OfChannel
  <2>2. \A i \in 1 .. Len(old) : old[i] \in AdcVals
    BY <2>1, ElementOfSeq
  <2> HIDE DEF old
  <2>3. OfChannel(old, adc_chan) /\ NoneAfter(old, adc_started - 1)
    BY <1>0 DEF old
  <2> QED
    BY <2>1, <2>2, <2>3 DEF OfChannel, NoneAfter, AdcVals
<1>3. /\ adcvals' = [adcvals EXCEPT ![adc_chan] = new]
      /\ adc_last_val' = [adc_last_val EXCEPT ![adc_chan] = Sample(adc_core.n)]
      /\ adc_good' = adc_good + 1
  BY DEF Stored
<1> HIDE DEF v, old
<1>4. /\ new \in Seq(AdcVals) /\ Len(new) \in 1 .. 10 /\ Len(new) <= Len(old) + 1
      /\ \A i \in 1 .. Len(new) : new[i] = IF i = 1 THEN v ELSE old[i - 1]
  BY <1>1, <1>2, NewestFirst
<1> HIDE DEF new
<1>5. OfChannel(new, adc_chan)
  <2>1. \A i \in 1 .. Len(new) : new[i].sel = chansel(adc_chan)
    BY <1>1, <1>2, <1>4
  <2>2. ASSUME NEW i \in 2 .. Len(new) PROVE new[i].n < new[i - 1].n
    <3>1. /\ new[i] = old[i - 1] /\ i - 1 \in 1 .. Len(old) /\ i \in 1 .. Len(new) /\ i - 1 \in 1 .. Len(new)
      BY <1>2, <1>4
    <3>2. CASE i = 2
      BY <1>0, <1>1, <1>2, <1>4, <3>1, <3>2
    <3>3. CASE i # 2
      <4>1. new[i - 1] = old[i - 1 - 1] /\ i - 1 \in 2 .. Len(old)
        BY <1>4, <3>1, <3>3
      <4> QED
        BY <1>2, <3>1, <4>1
    <3> QED
      BY <3>2, <3>3
  <2>3. new \in Seq(AdcVals) /\ Len(new) <= 10
    <3>1. \A x \in 1 .. 10 : x <= 10
      OBVIOUS
    <3> QED
      BY <1>4, <3>1, Zenon
  <2> QED
    BY <2>1, <2>2, <2>3, Zenon DEF OfChannel
<1>6. NoneAfter(new, adc_started)
  <2> SUFFICES ASSUME NEW i \in 1 .. Len(new) PROVE new[i].n <= adc_started
    BY DEF NoneAfter
  <2>1. CASE i = 1
    BY <1>0, <1>1, <1>4, <2>1
  <2>2. CASE i # 1
    <3>1. new[i] = old[i - 1] /\ i - 1 \in 1 .. Len(old)
      BY <1>2, <1>4, <2>2
    <3>2. old[i - 1].n <= adc_started - 1 /\ old[i - 1].n \in 0 .. MaxConversions
      BY <1>2, <3>1
    <3> QED
      BY <1>0, <3>1, <3>2
  <2> QED
    BY <2>1, <2>2
<1>7. adcvals' \in [AdcChans -> Seq(AdcVals)]
      /\ \A c \in AdcChans : adcvals'[c] = IF c = adc_chan THEN new ELSE adcvals[c]
  BY <1>0, <1>3, <1>4 DEF AdcTypes
<1>8. \A c \in AdcChans : NoneAfter(adcvals[c], adc_started)
  <2> SUFFICES ASSUME NEW c \in AdcChans, NEW i \in 1 .. Len(adcvals[c])
               PROVE  adcvals[c][i].n <= adc_started
    BY DEF NoneAfter
  <2>1. adcvals[c][i].n <= adc_started - 1
    BY <1>0 DEF NoneAfter
  <2>2. adcvals[c] \in Seq(AdcVals)
    BY <1>0 DEF OfChannel
  <2>3. adcvals[c][i] \in AdcVals
    BY <2>2, ElementOfSeq
  <2>4. adcvals[c][i].n \in 0 .. MaxConversions
    BY <2>3 DEF AdcVals
  <2> QED
    BY <1>0, <2>1, <2>4
<1>9. \A c \in AdcChans : OfChannel(adcvals'[c], c) /\ NoneAfter(adcvals'[c], adc_started)
  BY <1>0, <1>5, <1>6, <1>7, <1>8
<1>10. adc_last_val' \in [AdcChans -> Nat]
  <2>1. Sample(adc_core.n) \in Nat
    BY <1>0 DEF Sample
  <2> QED
    BY <1>0, <1>3, <2>1 DEF AdcTypes
<1>11. adc_good' \in 0 .. adc_started
  BY <1>0, <1>3 DEF AdcTypes
<1> QED
  BY <1>7, <1>9, <1>10, <1>11

LEMMA AdcTryKeeps ==
  ASSUME AdcInv, AdcTry
  PROVE  AdcInv'
<1>0. /\ adc_pc = "try" /\ AdcTypes /\ AdcAtWork
      /\ UNCHANGED <<adc_adr, adc_sem, adc_core, adc_irq, adc_started, adc_spurious>>
  BY DEF AdcInv, AdcTry
<1>1. NextChan => adc_chan' \in AdcChans /\ adc_pc' = "clear"
  BY <1>0, AdcChannels DEF NextChan, AdcTypes
<1>2. CASE adc_core.state = "done" /\ Stored /\ NextChan
  <2>1. /\ \A c \in AdcChans : OfChannel(adcvals'[c], c) /\ NoneAfter(adcvals'[c], adc_started)
        /\ adcvals' \in [AdcChans -> Seq(AdcVals)] /\ adc_last_val' \in [AdcChans -> Nat]
        /\ adc_good' \in 0 .. adc_started
    BY <1>0, <1>2, StoredKeeps
  <2>2. AdcTypes'
    BY <1>0, <1>1, <1>2, <2>1 DEF AdcTypes
  <2>3. AdcAtWork'
    BY <1>0, <1>1, <1>2, <2>1 DEF AdcAtWork
  <2> QED
    BY <1>1, <1>2, <2>1, <2>2, <2>3 DEF AdcInv
<1>3. CASE adc_core.state = "failed" /\ NextChan /\ UNCHANGED AdcValues
  <2>1. UNCHANGED <<adcvals, adc_last_val, adc_good>>
    BY <1>3 DEF AdcValues
  <2>2. AdcTypes'
    BY <1>0, <1>1, <1>3, <2>1 DEF AdcTypes
  <2>3. \A c \in AdcChans : NoneAfter(adcvals[c], adc_started)
    <3>1. \A c \in AdcChans : OfChannel(adcvals[c], c) /\ NoneAfter(adcvals[c], adc_started - 1)
      BY <1>0 DEF AdcInv, AdcAtWork
    <3> SUFFICES ASSUME NEW c \in AdcChans, NEW i \in 1 .. Len(adcvals[c])
                 PROVE  adcvals[c][i].n <= adc_started
      BY DEF NoneAfter
    <3>2. adcvals[c][i].n <= adc_started - 1 /\ adcvals[c] \in Seq(AdcVals)
      BY <3>1 DEF NoneAfter, OfChannel
    <3>3. adcvals[c][i] \in AdcVals
      BY <3>2, ElementOfSeq
    <3>4. adcvals[c][i].n \in 0 .. MaxConversions /\ adc_started \in 0 .. MaxConversions
      BY <1>0, <3>3 DEF AdcVals, AdcTypes
    <3> QED
      BY <3>2, <3>4
  <2>4. AdcAtWork'
    BY <1>0, <1>1, <1>3, <2>1, <2>3 DEF AdcAtWork
  <2> QED
    BY <1>1, <1>3, <2>1, <2>2, <2>4 DEF AdcInv
<1>4. CASE adc_core.state = "ongoing" /\ adc_pc' = "wait" /\ UNCHANGED <<adc_chan, AdcValues>>
  <2>1. UNCHANGED <<adcvals, adc_last_val, adc_good, adc_chan>>
    BY <1>4 DEF AdcValues
  <2>2. AdcTypes'
    BY <1>0, <1>4, <2>1 DEF AdcTypes
  <2>3. AdcAtWork'
    BY <1>0, <1>4, <2>1 DEF AdcAtWork
  <2> QED
    BY <1>0, <1>4, <2>1, <2>2, <2>3 DEF AdcInv
<1> QED
  BY <1>2, <1>3, <1>4 DEF AdcTry

LEMMA AdcStartKeeps ==
  ASSUME AdcInv, AdcStart
  PROVE  AdcInv'
<1>0. /\ adc_pc = "start" /\ adc_pc' = "wait" /\ adc_started' = adc_started + 1
      /\ adc_started + 1 \in 0 .. MaxConversions /\ adc_started \in Nat
      /\ AdcTypes /\ adc_adr = chansel(adc_chan) /\ adc_core.state # "ongoing"
      /\ \A c \in AdcChans : OfChannel(adcvals[c], c) /\ NoneAfter(adcvals[c], adc_started)
      /\ adc_good \in 0 .. adc_started
      /\ UNCHANGED <<adc_chan, adc_adr, adc_sem, adc_irq, adcvals, adc_last_val, adc_good, adc_spurious>>
  BY AdcBounds DEF AdcInv, AdcStart, AdcTypes, AdcAtWork, AdcValues
<1>1. adc_core' = [state |-> "ongoing", sel |-> adc_adr, n |-> adc_started + 1]
  BY <1>0 DEF AdcStart
<1>2. /\ adc_core' \in [state : {"idle", "ongoing", "done", "failed"}, sel : AdcChans, n : 0 .. MaxConversions]
      /\ adc_core'.state = "ongoing" /\ adc_core'.sel = chansel(adc_chan) /\ adc_core'.n = adc_started + 1
  BY <1>0, <1>1 DEF AdcTypes
<1>3. adc_good \in 0 .. adc_started + 1 /\ adc_good < adc_started + 1 /\ adc_started + 1 - 1 = adc_started
  BY <1>0
<1>4. AdcTypes'
  BY <1>0, <1>2, <1>3 DEF AdcTypes
<1>5. AdcAtWork'
  BY <1>0, <1>2, <1>3 DEF AdcAtWork
<1> QED
  BY <1>0, <1>2, <1>4, <1>5 DEF AdcInv

LEMMA AdcStepKeeps == AdcInv /\ [AdcNext]_adc_vars => AdcInv'
<1> SUFFICES ASSUME AdcInv, [AdcNext]_adc_vars PROVE AdcInv'
  OBVIOUS
<1> USE AdcBounds DEF AdcInv, AdcTypes, AdcAtWork, AdcValues
<1>1. CASE AdcOpen
  BY <1>1 DEF AdcOpen
<1>8. CASE AdcDac
  BY <1>8, AdcChannels DEF AdcDac
<1>9. CASE AdcClear
  BY <1>9 DEF AdcClear
<1>2. CASE AdcSelect
  BY <1>2, AdcChannels DEF AdcSelect
<1>3. CASE AdcWait
  BY <1>3 DEF AdcWait
<1>10. CASE adc_isr
  <2>1. adc_irq' \in BOOLEAN /\ adc_sem' \in 0 .. 1 /\ adc_sem' # 0
    <3>1. adc_irq' = FALSE /\ adc_sem' = 1
      BY <1>10 DEF adc_isr
    <3>2. 1 \in 0 .. 1 /\ 1 # 0
      OBVIOUS
    <3> QED
      BY <3>1, <3>2, Zenon
  <2> QED
    BY <1>10, <2>1, Zenon DEF adc_isr
<1>4. CASE AdcComplete
  <2>1. PICK how \in {"done", "failed"} : adc_core' = [adc_core EXCEPT !.state = how]
    BY <1>4 DEF AdcComplete
  <2>2. /\ adc_core' \in [state : {"idle", "ongoing", "done", "failed"}, sel : AdcChans, n : 0 .. MaxConversions]
        /\ adc_core'.state = how /\ adc_core'.sel = adc_core.sel /\ adc_core'.n = adc_core.n
    BY <2>1
  <2> QED
    BY <1>4, <2>2 DEF AdcComplete
<1>5. CASE AdcSpurious
  BY <1>5 DEF AdcSpurious
<1>6. CASE AdcStart \/ AdcTry
  BY <1>6, AdcStartKeeps, AdcTryKeeps
<1>7. CASE UNCHANGED adc_vars
  BY <1>7 DEF adc_vars
<1> QED
  BY <1>1, <1>2, <1>3, <1>4, <1>5, <1>6, <1>7, <1>8, <1>9, <1>10 DEF AdcNext, AdcTask

LEMMA AdcInvariant == AdcSpec => []AdcInv
  BY AdcInitInv, AdcStepKeeps, PTL DEF AdcSpec

LEMMA AdcTyped == AdcInv => AdcTypeOK
<1> SUFFICES ASSUME AdcInv PROVE AdcTypeOK
  OBVIOUS
<1>1. \A c \in AdcChans : Len(adcvals[c]) <= 10 /\ adc_last_val[c] \in Nat
  BY DEF AdcInv, AdcTypes, OfChannel
<1>2. adc_good \in 0 .. MaxConversions
  BY AdcBounds DEF AdcInv, AdcTypes
<1> QED
  BY <1>1, <1>2 DEF AdcInv, AdcTypes, AdcTypeOK

(* Every variable of the demo and of the converter has its type, for any   *)
(* number of conversions and of interrupts that none asked for.            *)
THEOREM AdcTyping == AdcSpec => []AdcTypeOK
<1>1. AdcInv => AdcTypeOK
  BY AdcTyped
<1> QED
  BY AdcInvariant, <1>1, PTL

(* For any number of conversions, and whenever interrupts come that none   *)
(* asked for: the values of a channel are of that channel, the newest      *)
(* first and each once, and the task never waits for an interrupt that has *)
(* been.                                                                   *)
THEOREM ValuesKept == AdcSpec => []AdcKept
<1>1. AdcInv => AdcKept
  <2> SUFFICES ASSUME AdcInv PROVE AdcKept
    OBVIOUS
  <2>1. \A c \in AdcChans : OfChannel(adcvals[c], c) /\ DOMAIN adcvals[c] = 1 .. Len(adcvals[c])
    BY LenProperties DEF AdcInv, OfChannel
  <2> QED
    BY <2>1 DEF AdcInv, AdcKept, OfChannel
<1> QED
  BY AdcInvariant, <1>1, PTL

-----------------------------------------------------------------------------
(* The filter.  The first weight is 45 per cent of all, and no value is    *)
(* larger than the first.                                                  *)
LEMMA WeightsAre ==
  /\ weight[1] = 4500 /\ weight[2] = 1500 /\ weight[3] = 1000 /\ weight[4] = 1000 /\ weight[5] = 500
  /\ weight[6] = 500 /\ weight[7] = 500 /\ weight[8] = 200 /\ weight[9] = 200 /\ weight[10] = 100
  BY DEF weight

LEMMA SumWithin ==
  ASSUME NEW n1 \in Nat, NEW n2 \in Nat, NEW n3 \in Nat, NEW n4 \in Nat, NEW n5 \in Nat,
         NEW n6 \in Nat, NEW n7 \in Nat, NEW n8 \in Nat, NEW n9 \in Nat, NEW n10 \in Nat,
         n2 <= n1, n3 <= n2, n4 <= n3, n5 <= n4, n6 <= n5, n7 <= n6, n8 <= n7, n9 <= n8, n10 <= n9
  PROVE  LET s == 500 * n1 * 4500 + 500 * n2 * 1500 + 500 * n3 * 1000 + 500 * n4 * 1000
                  + 500 * n5 * 500 + 500 * n6 * 500 + 500 * n7 * 500 + 500 * n8 * 200
                  + 500 * n9 * 200 + 500 * n10 * 100
         IN  (500 * n1 * 45) \div 100 <= s \div 10000 /\ s \div 10000 <= 500 * n1
<1> DEFINE s == 500 * n1 * 4500 + 500 * n2 * 1500 + 500 * n3 * 1000 + 500 * n4 * 1000
                + 500 * n5 * 500 + 500 * n6 * 500 + 500 * n7 * 500 + 500 * n8 * 200
                + 500 * n9 * 200 + 500 * n10 * 100
<1>1. s \in Nat /\ s >= 2250000 * n1 /\ s <= 5000000 * n1
  BY SMT
<1> HIDE DEF s
<1>2. 225 * n1 <= s \div 10000 /\ s \div 10000 <= 500 * n1
  BY <1>1, SMT
<1>3. (500 * n1 * 45) \div 100 = 225 * n1
  BY SMT
<1> QED
  BY <1>2, <1>3, SMT DEF s

LEMMA WithinTheFirst ==
  ASSUME NEW c \in AdcChans, NEW vals, OfChannel(vals, c), Len(vals) >= 1
  PROVE  /\ Sample(vals[1].n) \in Nat
         /\ (Sample(vals[1].n) * 45) \div 100 <= adc_calc(vals)
         /\ adc_calc(vals) <= Sample(vals[1].n)
<1> DEFINE N(i) == IF i \in DOMAIN vals THEN vals[i].n ELSE 0
<1>1. vals \in Seq(AdcVals) /\ Len(vals) \in 1 .. 10 /\ DOMAIN vals = 1 .. Len(vals)
      /\ \A i \in 2 .. Len(vals) : vals[i].n < vals[i - 1].n
  <2>1. vals \in Seq(AdcVals) /\ \A i \in 2 .. Len(vals) : vals[i].n < vals[i - 1].n
    BY Zenon DEF OfChannel
  <2>2. Len(vals) \in Nat /\ DOMAIN vals = 1 .. Len(vals)
    BY <2>1, LenProperties
  <2>3. Len(vals) <= 10
    BY Zenon DEF OfChannel
  <2> DEFINE k == Len(vals)
  <2>5. k \in Nat /\ k >= 1 /\ k <= 10
    BY <2>2, <2>3, Zenon
  <2> HIDE DEF k
  <2>6. k \in 1 .. 10
    BY <2>5
  <2>4. Len(vals) \in 1 .. 10
    BY <2>6, Zenon DEF k
  <2> QED
    BY <2>1, <2>2, <2>4, Zenon
<1>2. \A i \in 1 .. Len(vals) : vals[i].n \in Nat
  <2>1. \A i \in 1 .. Len(vals) : vals[i] \in AdcVals
    BY <1>1, ElementOfSeq
  <2>2. \A v \in AdcVals : v.n \in Nat
    BY AdcBounds DEF AdcVals
  <2> QED
    BY <2>1, <2>2, Zenon
<1>3. \A i \in 1 .. 10 : N(i) \in Nat
  BY <1>1, <1>2
<1>4. ASSUME NEW i \in 2 .. 10 PROVE N(i) <= N(i - 1)
  <2>1. CASE i \in 2 .. Len(vals)
    <3>1. vals[i].n < vals[i - 1].n /\ i \in 1 .. Len(vals) /\ i - 1 \in 1 .. Len(vals)
      <4>1. i \in 1 .. Len(vals) /\ i - 1 \in 1 .. Len(vals)
        BY <1>1, <2>1
      <4>2. vals[i].n < vals[i - 1].n
        BY <1>1, <2>1, Zenon
      <4> QED
        BY <4>1, <4>2
    <3> QED
      BY <1>1, <1>2, <3>1
  <2>2. CASE i \notin 2 .. Len(vals)
    <3>1. i \notin DOMAIN vals /\ i - 1 \in 1 .. 10
      BY <1>1, <2>2
    <3> QED
      BY <1>3, <3>1, SMTT(30)
  <2> QED
    BY <2>1, <2>2
<1>5. ASSUME NEW i \in 1 .. 10, NEW w \in Nat, weight[i] = w
      PROVE  Weighted(vals, i) = 500 * N(i) * w
  <2>1. CASE i \in DOMAIN vals
    BY <1>5, <2>1 DEF Weighted, Sample
  <2>2. CASE i \notin DOMAIN vals
    BY <1>5, <2>2 DEF Weighted
  <2> QED
    BY <2>1, <2>2
<1>6. Sample(vals[1].n) = 500 * N(1)
  BY <1>1 DEF Sample
<1> HIDE DEF N
<1> HIDE DEF N
<1>21. PICK n1 \in Nat : n1 = N(1)
  BY <1>3
<1>22. PICK n2 \in Nat : n2 = N(2)
  BY <1>3
<1>23. PICK n3 \in Nat : n3 = N(3)
  BY <1>3
<1>24. PICK n4 \in Nat : n4 = N(4)
  BY <1>3
<1>25. PICK n5 \in Nat : n5 = N(5)
  BY <1>3
<1>26. PICK n6 \in Nat : n6 = N(6)
  BY <1>3
<1>27. PICK n7 \in Nat : n7 = N(7)
  BY <1>3
<1>28. PICK n8 \in Nat : n8 = N(8)
  BY <1>3
<1>29. PICK n9 \in Nat : n9 = N(9)
  BY <1>3
<1>30. PICK n10 \in Nat : n10 = N(10)
  BY <1>3
<1>41. Weighted(vals, 1) = 500 * n1 * 4500
  BY <1>5, <1>21, WeightsAre, SMTT(30)
<1>42. Weighted(vals, 2) = 500 * n2 * 1500
  BY <1>5, <1>22, WeightsAre, SMT
<1>43. Weighted(vals, 3) = 500 * n3 * 1000
  BY <1>5, <1>23, WeightsAre, SMT
<1>44. Weighted(vals, 4) = 500 * n4 * 1000
  BY <1>5, <1>24, WeightsAre, SMT
<1>45. Weighted(vals, 5) = 500 * n5 * 500
  BY <1>5, <1>25, WeightsAre, SMT
<1>46. Weighted(vals, 6) = 500 * n6 * 500
  BY <1>5, <1>26, WeightsAre, SMT
<1>47. Weighted(vals, 7) = 500 * n7 * 500
  BY <1>5, <1>27, WeightsAre, SMT
<1>48. Weighted(vals, 8) = 500 * n8 * 200
  BY <1>5, <1>28, WeightsAre, SMT
<1>49. Weighted(vals, 9) = 500 * n9 * 200
  BY <1>5, <1>29, WeightsAre, SMT
<1>50. Weighted(vals, 10) = 500 * n10 * 100
  BY <1>5, <1>30, WeightsAre, SMT
<1>7. /\ n2 <= n1 /\ n3 <= n2 /\ n4 <= n3 /\ n5 <= n4 /\ n6 <= n5
      /\ n7 <= n6 /\ n8 <= n7 /\ n9 <= n8 /\ n10 <= n9
  <2>1. /\ N(2) <= N(2 - 1) /\ N(3) <= N(3 - 1) /\ N(4) <= N(4 - 1) /\ N(5) <= N(5 - 1)
        /\ N(6) <= N(6 - 1) /\ N(7) <= N(7 - 1) /\ N(8) <= N(8 - 1) /\ N(9) <= N(9 - 1)
        /\ N(10) <= N(10 - 1)
    BY <1>4
  <2>2. /\ N(2) <= N(1) /\ N(3) <= N(2) /\ N(4) <= N(3) /\ N(5) <= N(4) /\ N(6) <= N(5)
        /\ N(7) <= N(6) /\ N(8) <= N(7) /\ N(9) <= N(8) /\ N(10) <= N(9)
    BY <2>1
  <2> QED
    BY <2>2, <1>21, <1>22, <1>23, <1>24, <1>25, <1>26, <1>27, <1>28, <1>29, <1>30
<1> DEFINE s == 500 * n1 * 4500 + 500 * n2 * 1500 + 500 * n3 * 1000 + 500 * n4 * 1000
                + 500 * n5 * 500 + 500 * n6 * 500 + 500 * n7 * 500 + 500 * n8 * 200
                + 500 * n9 * 200 + 500 * n10 * 100
<1>8. (500 * n1 * 45) \div 100 <= s \div 10000 /\ s \div 10000 <= 500 * n1
  BY <1>7, SumWithin, SMT
<1>9. adc_calc(vals) = s \div 10000
  <2> DEFINE p1 == 500 * n1 * 4500
             p2 == 500 * n2 * 1500
             p3 == 500 * n3 * 1000
             p4 == 500 * n4 * 1000
             p5 == 500 * n5 * 500
             p6 == 500 * n6 * 500
             p7 == 500 * n7 * 500
             p8 == 500 * n8 * 200
             p9 == 500 * n9 * 200
             p10 == 500 * n10 * 100
             total == Weighted(vals, 1) + Weighted(vals, 2) + Weighted(vals, 3) + Weighted(vals, 4)
                      + Weighted(vals, 5) + Weighted(vals, 6) + Weighted(vals, 7) + Weighted(vals, 8)
                      + Weighted(vals, 9) + Weighted(vals, 10)
  <2>1. adc_calc(vals) = total \div 10000
    BY DEF adc_calc
  <2>2. /\ Weighted(vals, 1) = p1 /\ Weighted(vals, 2) = p2 /\ Weighted(vals, 3) = p3
        /\ Weighted(vals, 4) = p4 /\ Weighted(vals, 5) = p5 /\ Weighted(vals, 6) = p6
        /\ Weighted(vals, 7) = p7 /\ Weighted(vals, 8) = p8 /\ Weighted(vals, 9) = p9
        /\ Weighted(vals, 10) = p10
    BY <1>41, <1>42, <1>43, <1>44, <1>45, <1>46, <1>47, <1>48, <1>49, <1>50, SMT
  <2>3. s = p1 + p2 + p3 + p4 + p5 + p6 + p7 + p8 + p9 + p10
    BY SMT
  <2> HIDE DEF p1, p2, p3, p4, p5, p6, p7, p8, p9, p10, s
  <2>4. total = s
    BY <2>2, <2>3, Zenon
  <2> HIDE DEF total
  <2> QED
    BY <2>1, <2>4, SMT
<1>10. Sample(vals[1].n) = 500 * n1 /\ 500 * n1 \in Nat
  BY <1>6, <1>21, SMT
<1> HIDE DEF s
<1> QED
  BY <1>8, <1>9, <1>10, SMT

(* What is shown of each channel is what was computed of its values.       *)
AdcShown ==
  /\ adc_filtered_val \in [AdcChans -> Int]
  /\ \A c \in AdcChans :
       IF Len(adcvals[c]) = 0 THEN adc_filtered_val[c] = 0 /\ adc_last_val[c] = 0
       ELSE adc_filtered_val[c] = adc_calc(adcvals[c]) /\ adc_last_val[c] = Sample(adcvals[c][1].n)

LEMMA FilterWithin == AdcInv /\ AdcShown => AdcRight
<1> SUFFICES ASSUME AdcInv, AdcShown PROVE AdcRight
  OBVIOUS
<1>1. AdcKept
  <2>1. \A c \in AdcChans : OfChannel(adcvals[c], c) /\ DOMAIN adcvals[c] = 1 .. Len(adcvals[c])
    BY LenProperties DEF AdcInv, OfChannel
  <2> QED
    BY <2>1 DEF AdcInv, AdcKept, OfChannel
<1>2. ASSUME NEW c \in AdcChans
      PROVE  /\ (adc_last_val[c] * 45) \div 100 <= adc_filtered_val[c]
             /\ adc_filtered_val[c] <= adc_last_val[c]
  <2>1. OfChannel(adcvals[c], c) /\ Len(adcvals[c]) \in Nat
    BY LenProperties DEF AdcInv, OfChannel
  <2>2. CASE Len(adcvals[c]) = 0
    BY <2>2 DEF AdcShown
  <2>3. CASE Len(adcvals[c]) # 0
    <3>1. Len(adcvals[c]) >= 1
      BY <2>1, <2>3
    <3>2. adc_filtered_val[c] = adc_calc(adcvals[c]) /\ adc_last_val[c] = Sample(adcvals[c][1].n)
      BY <2>3 DEF AdcShown
    <3> QED
      BY <2>1, <3>1, <3>2, WithinTheFirst
  <2> QED
    BY <2>2, <2>3
<1> QED
  BY <1>1, <1>2 DEF AdcRight

LEMMA AdcShownInit == AdcInit => AdcShown
<1> SUFFICES ASSUME AdcInit PROVE AdcShown
  OBVIOUS
<1>1. \A c \in AdcChans : adcvals[c] = <<>> /\ adc_filtered_val[c] = 0 /\ adc_last_val[c] = 0
  BY DEF AdcInit
<1>2. Len(<<>>) = 0 /\ adc_filtered_val \in [AdcChans -> Int]
  BY DEF AdcInit
<1> QED
  BY <1>1, <1>2, Zenon DEF AdcShown

LEMMA AdcShownStays == AdcInv /\ AdcShown /\ [AdcNext]_adc_vars => AdcShown'
<1> SUFFICES ASSUME AdcInv, AdcShown, [AdcNext]_adc_vars PROVE AdcShown'
  OBVIOUS
<1>1. ASSUME UNCHANGED AdcValues PROVE AdcShown'
  BY <1>1, Zenon DEF AdcShown, AdcValues
<1>2. ASSUME AdcTry, Stored, adc_core.state = "done" PROVE AdcShown'
  <2> DEFINE v   == [sel |-> adc_core.sel, n |-> adc_core.n]
             old == adcvals[adc_chan]
             new == Newest(v, old)
  <2>1. /\ adcvals' = [adcvals EXCEPT ![adc_chan] = new]
        /\ adc_filtered_val' = [adc_filtered_val EXCEPT ![adc_chan] = adc_calc(adcvals'[adc_chan])]
        /\ adc_last_val' = [adc_last_val EXCEPT ![adc_chan] = Sample(adc_core.n)]
    BY <1>2 DEF Stored
  <2>2. adc_chan \in AdcChans /\ adcvals \in [AdcChans -> Seq(AdcVals)] /\ v \in AdcVals
        /\ adc_last_val \in [AdcChans -> Nat]
    BY DEF AdcInv, AdcTypes, AdcVals
  <2>3. old \in Seq(AdcVals) /\ Len(old) <= 10
    BY <2>2 DEF AdcInv, OfChannel
  <2>4. v.n = adc_core.n
    OBVIOUS
  <2> HIDE DEF v, old
  <2>5. Len(new) \in 1 .. 10 /\ new[1] = v
    <3>1. /\ Len(Newest(v, old)) \in 1 .. 10
          /\ \A i \in 1 .. Len(Newest(v, old)) : Newest(v, old)[i] = IF i = 1 THEN v ELSE old[i - 1]
      BY <2>2, <2>3, NewestFirst
    <3>2. 1 \in 1 .. Len(new)
      BY <3>1, SMTT(30)
    <3> QED
      BY <3>1, <3>2
  <2> HIDE DEF new
  <2>6. adcvals'[adc_chan] = new /\ \A c \in AdcChans : c # adc_chan => adcvals'[c] = adcvals[c]
    BY <2>1, <2>2
  <2>7. OfChannel(adcvals'[adc_chan], adc_chan)
    BY <1>2, StoredKeeps, <2>2 DEF AdcTry
  <2>8. adc_calc(new) \in Int
    <3>1. \A i \in 1 .. 10 : Weighted(new, i) \in Int
      <4>1. \A i \in DOMAIN new : new[i] \in AdcVals
        BY <2>6, <2>7, ElementOfSeq DEF OfChannel
      <4>2. \A i \in DOMAIN new : new[i].n \in Int
        BY <4>1, AdcBounds DEF AdcVals
      <4>3. \A i \in 1 .. 10 : weight[i] \in Int
        BY WeightsAre
      <4> QED
        BY <4>2, <4>3 DEF Weighted, Sample
    <3> QED
      BY <3>1 DEF adc_calc
  <2>9. adc_filtered_val' \in [AdcChans -> Int] /\ adc_filtered_val'[adc_chan] = adc_calc(new)
        /\ \A c \in AdcChans : c # adc_chan => adc_filtered_val'[c] = adc_filtered_val[c]
    BY <2>1, <2>2, <2>6, <2>8 DEF AdcShown
  <2>10. adc_last_val'[adc_chan] = Sample(new[1].n)
         /\ \A c \in AdcChans : c # adc_chan => adc_last_val'[c] = adc_last_val[c]
    BY <2>1, <2>2, <2>4, <2>5
  <2>11. Len(new) # 0
    BY <2>5
  <2> QED
    BY <2>6, <2>9, <2>10, <2>11, Zenon DEF AdcShown
<1>3. CASE AdcTry
  BY <1>1, <1>2, <1>3 DEF AdcTry, AdcValues
<1> QED
  BY <1>1, <1>3, Zenon DEF AdcNext, AdcTask, AdcOpen, AdcDac, AdcClear, AdcSelect, AdcStart, AdcWait,
     AdcComplete, AdcSpurious, adc_isr, adc_vars, AdcValues

(* And as the input rises, what is shown of a channel is never more than   *)
(* its last value nor less than 45 per cent of it.                         *)
THEOREM FilterRight == AdcSpec => []AdcRight
<1>1. AdcSpec => []AdcShown
  BY AdcShownInit, AdcShownStays, AdcInvariant, PTL DEF AdcSpec
<1> QED
  BY <1>1, AdcInvariant, FilterWithin, PTL

-----------------------------------------------------------------------------
(* The AD7891: each value is printed under its channel.                    *)

AdChans == 0 .. AdChannels - 1
AdParams == [channel : 0 .. AdChannels, periodic_mode : 0 .. 1, channles : Seq(AdChans), started : 0 .. 1]

AdTypes ==
  /\ ad_params \in AdParams
  /\ ad_tx \in Seq(AdChans) /\ ad_rx \in Seq(AdValues) /\ Len(ad_rx) = Len(ad_tx)
  /\ ad_next \in 0 .. Len(ad_tx)
  /\ ad_chip \in AdValues /\ ad_prevchannum \in AdValues /\ ad_channum \in AdChans
  /\ ad_print \in Seq([label : AdValues, chan : AdValues])
  /\ ad_failed \in 0 .. 2 /\ ad_refused \in BOOLEAN /\ ad_reads \in 0 .. MaxReads

Commands(chans) == [i \in DOMAIN chans |-> CommandFor(chans[i])]

(* Periodic transfers run with the registers of the parameters, if the     *)
(* core did what it was told.                                              *)
AdRunning ==
  ad_next > 0 /\ ~ad_refused =>
    ad_params.started = 1 /\ ad_params.periodic_mode = 1 /\ ad_tx = Commands(ad_params.channles)

(* Whatever was printed, but for the line after a failure.                 *)
AdPrinted ==
  ad_failed = 1 \/ \A i \in DOMAIN ad_print :
    None \in {ad_print[i].label, ad_print[i].chan} \/ ad_print[i].label = ad_print[i].chan

(* One read after the other: the channel commanded last is the one asked   *)
(* for last, unless that transfer failed.                                  *)
AdSingle ==
  ad_user = "single" => ad_next = 0 /\ (ad_failed # 2 => ad_chip = ad_prevchannum)

(* The channel before channel i - 1.                                       *)
ChanBefore(i) == IF i = 1 THEN AdChannels - 1 ELSE i - 2

(* The registers of all channels: register i gets the channel before its   *)
(* own.                                                                    *)
AdWritten ==
  /\ Len(ad_tx) = AdChannels /\ ad_next > 0
  /\ \A i \in 1 .. AdChannels : ad_tx[i] = i - 1 /\ ad_rx[i] \in {None, ChanBefore(i)}
  /\ ad_chip \in {None, ChanBefore(ad_next)}

(* Periodically: the demo has started the transfers of all channels, or    *)
(* the registers are those never written.                                  *)
AdPeriodic ==
  ad_user = "periodic" =>
    /\ ad_channum = 0 /\ ad_prevchannum \in {None, AdChannels - 1} /\ ad_failed = 0
    /\ ad_params.started = 0 => ad_rx = <<>> /\ ad_next = 0 /\ ad_chip = None
    /\ ad_params.started = 0 => ad_tx = <<>>
    /\ ad_params.started = 1 => Len(ad_params.channles) = AdChannels /\ (AdWritten \/ ad_tx = <<>>)

AdCalled == ad_user = "calls" => ad_print = <<>>

AdInv ==
  /\ ad_user \in {"single", "periodic", "calls"}
  /\ AdTypes /\ AdRunning /\ AdPrinted /\ AdSingle /\ AdPeriodic /\ AdCalled

LEMMA AdConstants ==
  /\ AdChannels \in Nat \ {0} /\ MaxReads \in Nat
  /\ \A x \in Nat : x % AdChannels \in AdChans
  /\ \A x \in AdChans : x % AdChannels = x
  /\ AdChannels % AdChannels = 0
<1>1. AdChannels \in Nat \ {0} /\ MaxReads \in Nat
  BY AdBounds
<1>2. \A x \in Nat, n \in Nat \ {0} : x % n \in 0 .. n - 1
  OBVIOUS
<1>3. \A n \in Nat \ {0} : \A x \in 0 .. n - 1 : x % n = x
  OBVIOUS
<1>4. \A n \in Nat \ {0} : n % n = 0
  OBVIOUS
<1> QED
  BY <1>1, <1>2, <1>3, <1>4 DEF AdChans

LEMMA AdNumbers ==
  ASSUME AdTypes
  PROVE  /\ Len(ad_tx) \in Nat /\ DOMAIN ad_tx = 1 .. Len(ad_tx) /\ DOMAIN ad_rx = 1 .. Len(ad_tx)
         /\ \A i \in 1 .. Len(ad_tx) : ad_tx[i] \in AdChans /\ ad_rx[i] \in AdValues
         /\ ad_next \in Nat /\ ad_channum \in Nat /\ ad_params.started \in 0 .. 1
         /\ AdChans \subseteq AdValues /\ None \in AdValues
<1>1. AdChans \subseteq AdValues /\ None \in AdValues /\ \A x \in AdChans : x \in Nat
  BY AdConstants DEF AdChans, AdValues, None
<1>2. ad_params.started \in 0 .. 1
  BY DEF AdTypes, AdParams
<1>3. /\ Len(ad_tx) \in Nat /\ DOMAIN ad_tx = 1 .. Len(ad_tx)
      /\ \A i \in 1 .. Len(ad_tx) : ad_tx[i] \in AdChans
  BY LenProperties, ElementOfSeq DEF AdTypes
<1>4. Len(ad_rx) = Len(ad_tx) /\ DOMAIN ad_rx = 1 .. Len(ad_rx)
      /\ \A i \in 1 .. Len(ad_rx) : ad_rx[i] \in AdValues
  BY LenProperties, ElementOfSeq DEF AdTypes
<1>5. ad_next \in Nat
  BY <1>3 DEF AdTypes
<1> QED
  BY <1>1, <1>2, <1>3, <1>4, <1>5 DEF AdTypes

LEMMA AdTyped == AdInv => AdTypeOK
<1> SUFFICES ASSUME AdInv PROVE AdTypeOK
  OBVIOUS
<1>1. AdTypes
  BY DEF AdInv
<1>2. AdChans \subseteq AdValues \ {None}
  BY AdConstants DEF AdChans, AdValues, None
<1>3. ad_tx \in Seq(AdValues \ {None})
  <2>1. Len(ad_tx) \in Nat /\ \A i \in 1 .. Len(ad_tx) : ad_tx[i] \in AdValues \ {None}
    BY <1>1, <1>2, AdNumbers
  <2> QED
    BY <1>1, <2>1, LenProperties, ElementOfSeq, SeqDef DEF AdTypes
<1>4. /\ ad_params.channel \in 0 .. AdChannels
      /\ ad_params.periodic_mode \in 0 .. 1 /\ ad_params.started \in 0 .. 1
  BY <1>1 DEF AdTypes, AdParams
<1> QED
  BY <1>1, <1>3, <1>4 DEF AdTypes, AdTypeOK, AdChans

LEMMA AdInitInv == AdInit => AdInv
<1> SUFFICES ASSUME AdInit PROVE AdInv
  OBVIOUS
<1>1. AdTypes
  <2>1. ad_params \in AdParams
    BY AdConstants DEF AdInit, AdParams
  <2> QED
    <3>1. ad_refused \in BOOLEAN
      BY DEF AdInit
    <3> QED
      BY <2>1, <3>1, AdConstants DEF AdInit, AdTypes, AdChans, AdValues, None
<1> QED
  BY <1>1 DEF AdInit, AdInv, AdRunning, AdPrinted, AdSingle, AdPeriodic, AdCalled

(* The registers for a list of channels.                                   *)
LEMMA CommandsTyped ==
  ASSUME NEW chans \in Seq(AdChans)
  PROVE  /\ Commands(chans) \in Seq(AdChans) /\ Len(Commands(chans)) = Len(chans)
         /\ [i \in DOMAIN chans |-> None] \in Seq(AdValues)
         /\ Len([i \in DOMAIN chans |-> None]) = Len(chans)
         /\ Len(chans) \in Nat /\ DOMAIN chans = 1 .. Len(chans) /\ (chans = <<>> <=> Len(chans) = 0)
         /\ \A i \in 1 .. Len(chans) : Commands(chans)[i] = chans[i]
<1>1. /\ Len(chans) \in Nat /\ DOMAIN chans = 1 .. Len(chans) /\ (chans = <<>> <=> Len(chans) = 0)
      /\ \A i \in 1 .. Len(chans) : chans[i] \in AdChans
  BY LenProperties, ElementOfSeq, EmptySeq
<1>2. \A i \in 1 .. Len(chans) : CommandFor(chans[i]) = chans[i]
  BY <1>1, AdConstants DEF CommandFor
<1>3. Commands(chans) = [i \in 1 .. Len(chans) |-> CommandFor(chans[i])]
  BY <1>1 DEF Commands
<1>4. None \in AdValues
  BY AdConstants DEF AdValues, None
<1>5. Commands(chans) \in Seq(AdChans) /\ Len(Commands(chans)) = Len(chans)
  BY <1>1, <1>2, <1>3
<1>6. [i \in DOMAIN chans |-> None] \in Seq(AdValues) /\ Len([i \in DOMAIN chans |-> None]) = Len(chans)
  BY <1>1, <1>4
<1> QED
  BY <1>1, <1>2, <1>3, <1>5, <1>6

StartedWith(params, enable, chans, started) ==
  [params EXCEPT !.periodic_mode = enable, !.channles = chans, !.started = started]

LEMMA ParamsStarted ==
  ASSUME NEW params \in AdParams, NEW enable \in 0 .. 1, NEW chans \in Seq(AdChans),
         NEW started \in 0 .. 1
  PROVE  /\ StartedWith(params, enable, chans, started) \in AdParams
         /\ StartedWith(params, enable, chans, started).started = started
         /\ StartedWith(params, enable, chans, started).periodic_mode = enable
         /\ StartedWith(params, enable, chans, started).channles = chans
BY DEF AdParams, StartedWith

LEMMA AdStarts ==
  ASSUME AdTypes, AdRunning, NEW cfg \in [enable : 0 .. 1, chans : Seq(AdChans)], AdStart(cfg)
  PROVE  /\ ad_params' \in AdParams /\ ad_tx' \in Seq(AdChans) /\ ad_rx' \in Seq(AdValues)
         /\ Len(ad_rx') = Len(ad_tx') /\ ad_next' \in 0 .. Len(ad_tx')
         /\ ad_refused' \in BOOLEAN /\ AdRunning'
         /\ ad_params.started = 0 /\ cfg.enable = 1 =>
              /\ ad_params'.started = 1 /\ ad_params'.channles = cfg.chans
              /\ \/ /\ ad_tx' = Commands(cfg.chans)
                    /\ ad_rx' = [i \in DOMAIN cfg.chans |-> None]
                    /\ ad_next' = IF cfg.chans = <<>> THEN 0 ELSE 1
                 \/ /\ UNCHANGED <<ad_tx, ad_rx>>
                    /\ ad_next' = IF ad_tx = <<>> THEN 0 ELSE 1
<1>0. cfg.enable \in 0 .. 1 /\ cfg.chans \in Seq(AdChans)
  OBVIOUS
<1>1. CASE ad_params.started = 1
  <2>1. PeriodStart(ad_params, cfg).params = ad_params /\ PeriodStart(ad_params, cfg).rc = "in_use"
    BY <1>1 DEF PeriodStart
  <2>2. UNCHANGED <<ad_params, ad_tx, ad_rx, ad_next, ad_refused>>
    BY <2>1 DEF AdStart
  <2> QED
    BY <1>1, <2>2 DEF AdTypes, AdRunning
<1>2. CASE ad_params.started = 0
  <2>0. ad_refused \/ ad_next = 0
    BY <1>2, AdNumbers DEF AdRunning
  <2> DEFINE p == PeriodStart(ad_params, cfg).params
  <2>1. /\ PeriodStart(ad_params, cfg).rc = "ok" /\ p \in AdParams
        /\ p.started = 1 /\ p.periodic_mode = cfg.enable /\ p.channles = cfg.chans
    <3> DEFINE on == 1
    <3>0. on \in 0 .. 1 /\ on = 1
      OBVIOUS
    <3>1. ad_params.started # 1
      BY <1>2
    <3>2. PeriodStart(ad_params, cfg) =
            [rc |-> "ok", params |-> StartedWith(ad_params, cfg.enable, cfg.chans, on)]
      BY <3>1, Zenon DEF PeriodStart, StartedWith
    <3>3. PeriodStart(ad_params, cfg).rc = "ok" /\ p = StartedWith(ad_params, cfg.enable, cfg.chans, on)
      BY <3>2
    <3> HIDE DEF p
    <3>4. ad_params \in AdParams
      BY DEF AdTypes
    <3> HIDE DEF on
    <3>5. /\ StartedWith(ad_params, cfg.enable, cfg.chans, on) \in AdParams
          /\ StartedWith(ad_params, cfg.enable, cfg.chans, on).started = on
          /\ StartedWith(ad_params, cfg.enable, cfg.chans, on).periodic_mode = cfg.enable
          /\ StartedWith(ad_params, cfg.enable, cfg.chans, on).channles = cfg.chans
      BY <1>0, <3>4, <3>0, ParamsStarted, SMTT(30)
    <3> QED
      BY <3>3, <3>5, <3>0
  <2>2. ad_params' = p
    BY DEF AdStart
  <2>3. CASE cfg.enable = 0
    <3>1. UNCHANGED <<ad_tx, ad_rx, ad_next, ad_refused>>
      BY <2>3 DEF AdStart
    <3> HIDE DEF p
    <3>2. AdRunning'
      BY <2>0, <3>1, AdNumbers DEF AdRunning
    <3> QED
      BY <2>1, <2>2, <2>3, <3>1, <3>2, AdNumbers DEF AdTypes
  <2>4. CASE cfg.enable = 1
    <3>1. PeriodicStart(p)
      BY <2>1, <2>4 DEF AdStart
    <3> HIDE DEF p
    <3>2. CASE /\ ad_refused' = FALSE
               /\ ad_tx' = [i \in DOMAIN p.channles |-> CommandFor(p.channles[i])]
               /\ ad_rx' = [i \in DOMAIN p.channles |-> None]
               /\ ad_next' = IF p.channles = <<>> THEN 0 ELSE 1
      <4>2. /\ ad_tx' = Commands(cfg.chans) /\ ad_rx' = [i \in DOMAIN cfg.chans |-> None]
            /\ ad_next' = IF cfg.chans = <<>> THEN 0 ELSE 1
        BY <2>1, <3>2 DEF Commands
      <4>3. ad_next' \in 0 .. Len(ad_tx')
        BY <1>0, <4>2, CommandsTyped
      <4>4. ad_tx' \in Seq(AdChans) /\ ad_rx' \in Seq(AdValues) /\ Len(ad_rx') = Len(ad_tx')
        BY <1>0, <4>2, CommandsTyped
      <4>5. AdRunning'
        BY <2>1, <2>2, <2>4, <4>2 DEF AdRunning
      <4> QED
        BY <2>1, <2>2, <2>4, <3>2, <4>2, <4>3, <4>4, <4>5
    <3>3. CASE /\ ad_refused' = TRUE /\ UNCHANGED <<ad_tx, ad_rx>>
               /\ ad_next' = IF ad_tx = <<>> THEN 0 ELSE 1
      <4>1. ad_next' \in 0 .. Len(ad_tx')
        BY <3>3, AdNumbers, EmptySeq DEF AdTypes
      <4>2. AdRunning'
        BY <3>3 DEF AdRunning
      <4> QED
        BY <2>1, <2>2, <2>4, <3>3, <4>1, <4>2 DEF AdTypes
    <3> QED
      BY <3>1, <3>2, <3>3 DEF PeriodicStart
  <2> QED
    BY <1>0, <2>3, <2>4
<1> QED
  BY <1>1, <1>2, AdNumbers

LEMMA SingleKeeps ==
  ASSUME AdInv, SingleRead
  PROVE  AdInv'
<1>0. /\ AdTypes /\ AdSingle /\ AdRunning /\ ad_user = "single" /\ ad_next = 0
      /\ ad_channum \in Nat /\ ad_channum \in AdChans /\ ad_chip \in AdValues /\ ad_prevchannum \in AdValues
      /\ AdChans \subseteq AdValues /\ None \in AdValues
  BY AdNumbers DEF AdInv, SingleRead, AdTypes, AdSingle
<1> DEFINE p == ConfigNextChan(ad_params, ad_channum).params
<1>1. p \in AdParams /\ p.channel = ad_channum /\ CommandFor(p.channel) = ad_channum
  <2>1. ad_channum \in 0 .. AdChannels
    BY <1>0, AdConstants DEF AdChans
  <2>2. p = [ad_params EXCEPT !.channel = ad_channum]
    BY <2>1 DEF ConfigNextChan
  <2>3. ad_channum % AdChannels = ad_channum
    BY <1>0, AdConstants, Zenon
  <2> HIDE DEF p
  <2> QED
    BY <1>0, <2>1, <2>2, <2>3 DEF AdTypes, AdParams, CommandFor
<1>2. /\ ad_params' = p /\ ad_reads' \in 0 .. MaxReads
      /\ UNCHANGED <<ad_user, ad_tx, ad_rx, ad_next, ad_refused>>
  BY <1>0, AdConstants DEF SingleRead, AdReadCnt, AdTypes
<1>3. ASSUME NEW v \in AdValues, Printed(<<v>>)
      PROVE  /\ ad_print' = [i \in 1 .. 1 |-> [label |-> ad_prevchannum, chan |-> v]]
             /\ ad_print' \in Seq([label : AdValues, chan : AdValues])
             /\ ad_prevchannum' = ad_channum /\ ad_channum' \in AdChans
  <2>1. ad_print' = [i \in 1 .. 1 |-> [label |-> ad_prevchannum, chan |-> v]]
    <3>1. DOMAIN <<v>> = 1 .. 1 /\ <<v>>[1] = v
      OBVIOUS
    <3> QED
      BY <1>3, <3>1 DEF Printed
  <2>2. Len(<<v>>) = 1 /\ ad_channum + 1 - 1 = ad_channum /\ ad_channum + 1 \in Nat
    BY <1>0
  <2>3. ad_channum % AdChannels = ad_channum /\ (ad_channum + 1) % AdChannels \in AdChans
    BY <1>0, <2>2, AdConstants, Zenon
  <2>4. ad_prevchannum' = ad_channum /\ ad_channum' \in AdChans
    BY <1>3, <2>2, <2>3 DEF Printed
  <2>5. [label |-> ad_prevchannum, chan |-> v] \in [label : AdValues, chan : AdValues]
    BY <1>0
  <2> QED
    BY <2>1, <2>4, <2>5
<1> HIDE DEF p
<1>4. CASE /\ ad_failed' = ad_failed \div 2 /\ ad_chip' = CommandFor(p.channel)
           /\ Printed(<<ad_chip>>)
  <2>1. /\ ad_print' = [i \in 1 .. 1 |-> [label |-> ad_prevchannum, chan |-> ad_chip]]
        /\ ad_print' \in Seq([label : AdValues, chan : AdValues])
        /\ ad_prevchannum' = ad_channum /\ ad_channum' \in AdChans
    BY <1>0, <1>3, <1>4
  <2>2. ad_failed \in 0 .. 2 /\ ad_failed' \in 0 .. 1 /\ (ad_failed = 2 => ad_failed' = 1)
    BY <1>0, <1>4 DEF AdTypes
  <2>3. AdTypes'
    BY <1>0, <1>1, <1>2, <1>4, <2>1, <2>2 DEF AdTypes
  <2>4. AdPrinted'
    BY <1>0, <2>1, <2>2 DEF AdPrinted, AdSingle
  <2>5. AdSingle' /\ AdRunning' /\ AdPeriodic' /\ AdCalled'
    BY <1>0, <1>1, <1>2, <1>4, <2>1 DEF AdSingle, AdRunning, AdPeriodic, AdCalled
  <2> QED
    BY <1>0, <1>2, <2>3, <2>4, <2>5 DEF AdInv
<1>5. CASE ad_failed' = 2 /\ UNCHANGED ad_chip /\ Printed(<<None>>)
  <2>1. /\ ad_print' = [i \in 1 .. 1 |-> [label |-> ad_prevchannum, chan |-> None]]
        /\ ad_print' \in Seq([label : AdValues, chan : AdValues])
        /\ ad_prevchannum' = ad_channum /\ ad_channum' \in AdChans
    BY <1>0, <1>3, <1>5
  <2>3. AdTypes'
    BY <1>0, <1>1, <1>2, <1>5, <2>1 DEF AdTypes
  <2>4. AdPrinted'
    BY <2>1 DEF AdPrinted
  <2>5. AdSingle' /\ AdRunning' /\ AdPeriodic' /\ AdCalled'
    BY <1>0, <1>2, <1>5 DEF AdSingle, AdRunning, AdPeriodic, AdCalled
  <2> QED
    BY <1>0, <1>2, <2>3, <2>4, <2>5 DEF AdInv
<1> QED
  BY <1>4, <1>5 DEF SingleRead, p

LEMMA ConfigKeeps ==
  ASSUME AdInv, PeriodicConfig
  PROVE  AdInv'
<1>0. /\ AdTypes /\ AdPeriodic /\ AdRunning /\ AdPrinted /\ ad_user = "periodic" /\ ad_params.started = 0
      /\ UNCHANGED <<ad_user, ad_chip, ad_channum, ad_prevchannum, ad_print, ad_failed, ad_reads>>
  BY DEF AdInv, PeriodicConfig
<1>1. AllChans \in Seq(AdChans) /\ Len(AllChans) = AdChannels /\ \A i \in 1 .. AdChannels : AllChans[i] = i - 1
  BY AdConstants DEF AllChans, AdChans
<1> DEFINE cfg == [enable |-> 1, chans |-> AllChans]
<1>2. cfg \in [enable : 0 .. 1, chans : Seq(AdChans)] /\ cfg.enable = 1 /\ cfg.chans = AllChans
  BY <1>1
<1>3. AdStart(cfg)
  BY DEF PeriodicConfig
<1> HIDE DEF cfg
<1>4. /\ ad_params' \in AdParams /\ ad_tx' \in Seq(AdChans) /\ ad_rx' \in Seq(AdValues)
      /\ Len(ad_rx') = Len(ad_tx') /\ ad_next' \in 0 .. Len(ad_tx')
      /\ ad_refused' \in BOOLEAN /\ AdRunning'
      /\ ad_params'.started = 1 /\ ad_params'.channles = AllChans
      /\ \/ /\ ad_tx' = Commands(AllChans)
            /\ ad_rx' = [i \in DOMAIN AllChans |-> None]
            /\ ad_next' = IF AllChans = <<>> THEN 0 ELSE 1
         \/ /\ UNCHANGED <<ad_tx, ad_rx>>
            /\ ad_next' = IF ad_tx = <<>> THEN 0 ELSE 1
  BY <1>0, <1>2, <1>3, AdStarts
<1>5. AdTypes'
  BY <1>0, <1>4 DEF AdTypes
<1>6. ASSUME /\ ad_tx' = Commands(AllChans) /\ ad_rx' = [i \in DOMAIN AllChans |-> None]
             /\ ad_next' = IF AllChans = <<>> THEN 0 ELSE 1
      PROVE  AdWritten'
  <2>1. /\ Len(Commands(AllChans)) = AdChannels /\ AllChans # <<>> /\ DOMAIN AllChans = 1 .. AdChannels
        /\ \A i \in 1 .. AdChannels : Commands(AllChans)[i] = AllChans[i]
    <3>1. /\ Len(Commands(AllChans)) = Len(AllChans) /\ (AllChans = <<>> <=> Len(AllChans) = 0)
          /\ DOMAIN AllChans = 1 .. Len(AllChans)
          /\ \A i \in 1 .. Len(AllChans) : Commands(AllChans)[i] = AllChans[i]
      BY <1>1, CommandsTyped
    <3> QED
      BY <1>1, <3>1, AdConstants
  <2>2. ad_next' = 1 /\ Len(ad_tx') = AdChannels
        /\ \A i \in 1 .. AdChannels : ad_tx'[i] = i - 1 /\ ad_rx'[i] = None
    BY <1>1, <1>6, <2>1
  <2>3. ad_chip' = None
    BY <1>0 DEF AdPeriodic
  <2> QED
    BY <1>0, <2>2, <2>3 DEF AdWritten
<1>7. UNCHANGED ad_tx => ad_tx' = <<>>
  BY <1>0 DEF AdPeriodic
<1>8. AdPeriodic'
  <2>1. AdWritten' \/ ad_tx' = <<>>
    BY <1>4, <1>6, <1>7
  <2> QED
    BY <1>0, <1>1, <1>4, <2>1 DEF AdPeriodic
<1> QED
  BY <1>0, <1>4, <1>5, <1>8 DEF AdInv, AdPrinted, AdSingle, AdCalled

(* A function on 1 .. n is a sequence: the lines of one print.                *)
LEMMA TableIsSequence ==
  ASSUME NEW S, NEW n \in Nat, NEW f \in [1 .. n -> S]
  PROVE  f \in Seq(S)
  OBVIOUS

LEMMA ReadKeeps ==
  ASSUME AdInv, PeriodicRead
  PROVE  AdInv'
<1>0. /\ AdTypes /\ AdPeriodic /\ AdRunning /\ ad_user = "periodic" /\ ad_params.started = 1
      /\ UNCHANGED <<ad_user, ad_params, ad_tx, ad_rx, ad_next, ad_chip, ad_failed, ad_refused>>
      /\ ad_reads' \in 0 .. MaxReads
  BY AdConstants DEF AdInv, PeriodicRead, AdReadCnt, AdTypes
<1>12. PICK readable \in {DOMAIN ad_rx, {}} :
        Printed([i \in DOMAIN ad_params.channles |-> IF i \in readable THEN ad_rx[i] ELSE None])
  BY DEF PeriodicRead
<1> DEFINE v == [i \in DOMAIN ad_params.channles |-> IF i \in readable THEN ad_rx[i] ELSE None]
<1>10. DOMAIN ad_params.channles = 1 .. AdChannels /\ AdChannels \in Nat
  <2>1. ad_params.channles \in Seq(AdChans) /\ Len(ad_params.channles) = AdChannels
    BY <1>0 DEF AdTypes, AdParams, AdPeriodic
  <2> QED
    BY <2>1, LenProperties, AdConstants
<1>11. v = [i \in 1 .. AdChannels |-> IF i \in readable THEN ad_rx[i] ELSE None]
  BY <1>10
<1>1. /\ ad_channum = 0 /\ ad_prevchannum \in {None, AdChannels - 1} /\ Len(v) = AdChannels
      /\ DOMAIN v = 1 .. AdChannels
      /\ \A i \in 1 .. AdChannels : v[i] \in {None, ChanBefore(i)}
      /\ None \in AdValues /\ AdChans \subseteq AdValues
      /\ \A i \in 1 .. AdChannels : v[i] \in AdValues
  <2>1. /\ ad_channum = 0 /\ ad_prevchannum \in {None, AdChannels - 1}
        /\ None \in AdValues /\ AdChans \subseteq AdValues
    BY <1>0, AdNumbers DEF AdPeriodic
  <2>2. Len(v) = AdChannels /\ DOMAIN v = 1 .. AdChannels
    BY <1>11, <1>10
  <2>3. ASSUME NEW i \in 1 .. AdChannels
        PROVE  v[i] \in {None, ChanBefore(i)} /\ v[i] \in AdValues
    <3>1. v[i] = IF i \in readable THEN ad_rx[i] ELSE None
      BY <1>11
    <3>2. CASE i \notin readable
      BY <2>1, <3>1, <3>2
    <3>3. CASE i \in readable
      <4>1. readable = DOMAIN ad_rx /\ i \in 1 .. Len(ad_tx) /\ ad_rx[i] \in AdValues
        BY <1>0, <3>3, AdNumbers
      <4>2. ad_tx # <<>>
        BY <4>1
      <4>3. AdWritten
        BY <1>0, <4>2 DEF AdPeriodic
      <4> QED
        BY <3>1, <3>3, <4>1, <4>3 DEF AdWritten
    <3> QED
      BY <3>2, <3>3
  <2> QED
    BY <2>1, <2>2, <2>3
<1>13. Printed(v)
  BY <1>12
<1> HIDE DEF v
<1> DEFINE label(i) == IF i = 1 THEN ad_prevchannum ELSE i - 2
<1>2. \A i \in 1 .. AdChannels :
        label(i) = (IF i = 1 THEN ad_prevchannum ELSE (ad_channum + i - 2) % AdChannels)
  <2> SUFFICES ASSUME NEW i \in 1 .. AdChannels, i # 1
               PROVE  (ad_channum + i - 2) % AdChannels = i - 2
    OBVIOUS
  <2>1. i - 2 \in AdChans /\ ad_channum + i - 2 = i - 2
    BY <1>1, AdConstants DEF AdChans
  <2> QED
    BY <2>1, AdConstants
<1>3. ad_print' = [i \in 1 .. AdChannels |-> [label |-> label(i), chan |-> v[i]]]
  BY <1>13, <1>1, <1>2 DEF Printed
<1>4. \A i \in 1 .. AdChannels : label(i) \in {None, ChanBefore(i)} /\ label(i) \in AdValues
  <2> SUFFICES ASSUME NEW i \in 1 .. AdChannels
               PROVE  label(i) \in {None, ChanBefore(i)} /\ label(i) \in AdValues
    OBVIOUS
  <2>1. AdChannels - 1 \in AdValues /\ (i # 1 => i - 2 \in AdValues)
    BY AdConstants DEF AdValues, None
  <2> QED
    BY <1>1, <2>1 DEF ChanBefore
<1>5. ad_prevchannum' = AdChannels - 1 /\ ad_channum' = 0
  <2>1. /\ ad_channum + AdChannels - 1 = AdChannels - 1 /\ AdChannels - 1 \in AdChans
        /\ ad_channum + AdChannels = AdChannels
    BY <1>1, AdConstants DEF AdChans
  <2>2. (AdChannels - 1) % AdChannels = AdChannels - 1 /\ AdChannels % AdChannels = 0
    BY <2>1, AdConstants, Zenon
  <2> QED
    BY <1>13, <1>1, <2>1, <2>2 DEF Printed
<1> HIDE DEF label
<1>6. ad_print' \in Seq([label : AdValues, chan : AdValues])
  <2>1. \A i \in 1 .. AdChannels : [label |-> label(i), chan |-> v[i]] \in [label : AdValues, chan : AdValues]
    BY <1>1, <1>4
  <2>2. [i \in 1 .. AdChannels |-> [label |-> label(i), chan |-> v[i]]]
          \in [1 .. AdChannels -> [label : AdValues, chan : AdValues]]
    BY <2>1, Zenon
  <2>3. AdChannels \in Nat
    BY AdConstants
  <2> QED
    BY <1>3, <2>2, <2>3, TableIsSequence, Zenon
<1>7. AdTypes'
  <2>1. AdChannels - 1 \in AdValues /\ 0 \in AdChans
    BY AdConstants DEF AdValues, AdChans, None
  <2> QED
    BY <1>0, <1>5, <1>6, <2>1 DEF AdTypes
<1>8. AdPrinted'
  <2>1. \A i \in DOMAIN ad_print' : i \in 1 .. AdChannels /\ ad_print'[i].label = label(i) /\ ad_print'[i].chan = v[i]
    BY <1>3
  <2> QED
    BY <1>1, <1>4, <2>1 DEF AdPrinted
<1>9. AdPeriodic' /\ AdRunning'
  BY <1>0, <1>5 DEF AdPeriodic, AdWritten, AdRunning
<1> QED
  BY <1>0, <1>7, <1>8, <1>9 DEF AdInv, AdSingle, AdCalled

LEMMA TransferKeeps ==
  ASSUME AdInv, PeriodicTransfer
  PROVE  AdInv'
<1>0. /\ AdTypes /\ AdPeriodic /\ AdRunning /\ ad_next > 0 /\ AdPrinted /\ AdCalled /\ AdSingle
      /\ ad_user \in {"single", "periodic", "calls"}
      /\ ad_rx' = [ad_rx EXCEPT ![ad_next] = ad_chip] /\ ad_chip' = ad_tx[ad_next]
      /\ ad_next' = IF ad_next = Len(ad_tx) THEN 1 ELSE ad_next + 1
      /\ UNCHANGED <<ad_user, ad_params, ad_tx, ad_channum, ad_prevchannum, ad_print, ad_failed,
                      ad_refused, ad_reads>>
  BY DEF AdInv, PeriodicTransfer
<1>1. /\ ad_next \in 1 .. Len(ad_tx) /\ ad_next' \in 1 .. Len(ad_tx) /\ DOMAIN ad_rx = 1 .. Len(ad_tx)
      /\ ad_tx[ad_next] \in AdChans /\ ad_tx[ad_next] \in AdValues /\ Len(ad_tx) \in Nat
  <2>1. ad_next \in 1 .. Len(ad_tx) /\ Len(ad_tx) \in Nat
    BY <1>0, AdNumbers DEF AdTypes
  <2>2. ad_next' \in 1 .. Len(ad_tx)
    BY <1>0, <2>1
  <2>3. DOMAIN ad_rx = 1 .. Len(ad_tx) /\ ad_tx[ad_next] \in AdChans /\ AdChans \subseteq AdValues
    BY <1>0, <2>1, AdNumbers
  <2> QED
    BY <2>1, <2>2, <2>3
<1>2. ad_rx' \in Seq(AdValues) /\ Len(ad_rx') = Len(ad_tx)
  BY <1>0, <1>1, ExceptSeq DEF AdTypes
<1>3. AdTypes'
  <2>1. ad_next' \in 0 .. Len(ad_tx)
    BY <1>1
  <2> QED
    BY <1>0, <1>1, <1>2, <2>1 DEF AdTypes
<1>4. AdPeriodic'
  <2> SUFFICES ASSUME ad_user = "periodic"
               PROVE  /\ ad_params.started = 1 /\ Len(ad_tx) = AdChannels /\ ad_next' > 0
                      /\ \A i \in 1 .. AdChannels : ad_tx[i] = i - 1 /\ ad_rx'[i] \in {None, ChanBefore(i)}
                      /\ ad_chip' \in {None, ChanBefore(ad_next')}
    BY <1>0 DEF AdPeriodic, AdWritten
  <2>0. ad_params.started = 1 /\ AdWritten
    <3>1. ad_params.started \in 0 .. 1 /\ ad_next # 0 /\ ad_tx # <<>>
      <4>1. ad_params.started \in 0 .. 1
        BY <1>0, AdNumbers
      <4> QED
        BY <1>1, <4>1
    <3> QED
      BY <1>0, <3>1 DEF AdPeriodic
  <2>1. /\ Len(ad_tx) = AdChannels /\ ad_tx[ad_next] = ad_next - 1
        /\ ad_chip \in {None, ChanBefore(ad_next)}
        /\ \A i \in 1 .. AdChannels : ad_rx[i] \in {None, ChanBefore(i)}
    BY <1>1, <2>0 DEF AdWritten
  <2>2. \A i \in 1 .. AdChannels : ad_rx'[i] = IF i = ad_next THEN ad_chip ELSE ad_rx[i]
    BY <1>0, <1>1, <2>1
  <2>3. ad_chip' = ChanBefore(ad_next')
    <3>1. ad_chip' = ad_next - 1
      BY <1>0, <2>1
    <3>2. CASE ad_next = AdChannels
      <4>1. ad_next' = 1
        BY <1>0, <2>1, <3>2
      <4> QED
        BY <3>1, <3>2, <4>1 DEF ChanBefore
    <3>3. CASE ad_next # AdChannels
      <4>1. ad_next' = ad_next + 1
        BY <1>0, <2>1, <3>3
      <4>2. ChanBefore(ad_next + 1) = ad_next - 1
        BY <1>1 DEF ChanBefore
      <4> QED
        BY <3>1, <4>1, <4>2, Zenon
    <3> QED
      BY <3>2, <3>3
  <2>4. ad_next' > 0
    BY <1>1
  <2> QED
    BY <2>0, <2>1, <2>2, <2>3, <2>4 DEF AdWritten
<1>5. AdRunning' /\ AdPrinted' /\ AdCalled' /\ AdSingle'
  BY <1>0, AdNumbers DEF AdRunning, AdPrinted, AdCalled, AdSingle
<1> QED
  BY <1>0, <1>3, <1>4, <1>5 DEF AdInv

LEMMA CallsKeep ==
  ASSUME AdInv, Calls
  PROVE  AdInv'
<1>0. /\ AdTypes /\ AdRunning /\ ad_user = "calls" /\ ad_print = <<>>
      /\ UNCHANGED <<ad_user, ad_chip, ad_channum, ad_prevchannum, ad_print, ad_failed>>
      /\ ad_reads' \in 0 .. MaxReads
  BY AdConstants DEF AdInv, Calls, AdReadCnt, AdTypes, AdCalled
<1>1. ASSUME /\ ad_params' \in AdParams /\ ad_tx' \in Seq(AdChans) /\ ad_rx' \in Seq(AdValues)
             /\ Len(ad_rx') = Len(ad_tx') /\ ad_next' \in 0 .. Len(ad_tx') /\ ad_refused' \in BOOLEAN,
             AdRunning'
      PROVE  AdInv'
  <2>1. AdTypes'
    BY <1>0, <1>1 DEF AdTypes
  <2>2. DOMAIN ad_print' = {}
    BY <1>0
  <2> QED
    BY <1>0, <1>1, <2>1, <2>2 DEF AdInv, AdPrinted, AdSingle, AdPeriodic, AdCalled
<1>2. CASE \E chan \in -1 .. AdChannels + 1 :
             /\ ad_params' = ConfigNextChan(ad_params, chan).params
             /\ UNCHANGED <<ad_tx, ad_rx, ad_next, ad_refused>>
  <2>1. PICK chan \in -1 .. AdChannels + 1 : ad_params' = ConfigNextChan(ad_params, chan).params
    BY <1>2
  <2>2. /\ ad_params' \in AdParams /\ ad_params'.started = ad_params.started
        /\ ad_params'.periodic_mode = ad_params.periodic_mode /\ ad_params'.channles = ad_params.channles
    <3>1. CASE chan \notin 0 .. AdChannels
      BY <1>0, <2>1, <3>1 DEF ConfigNextChan, AdTypes
    <3>2. CASE chan \in 0 .. AdChannels
      <4>1. ad_params' = [ad_params EXCEPT !.channel = chan]
        BY <2>1, <3>2 DEF ConfigNextChan
      <4> QED
        BY <1>0, <3>2, <4>1 DEF AdTypes, AdParams
    <3> QED
      BY <3>1, <3>2
  <2>3. AdRunning'
    BY <1>0, <1>2, <2>2 DEF AdRunning
  <2> QED
    BY <1>0, <1>1, <1>2, <2>2, <2>3 DEF AdTypes
<1>3. CASE \E enable \in 0 .. 1, chans \in {<<>>, AllChans, <<AdChannels - 1, 0>>} :
             AdStart([enable |-> enable, chans |-> chans])
  <2>1. PICK enable \in 0 .. 1, chans \in {<<>>, AllChans, <<AdChannels - 1, 0>>} :
          AdStart([enable |-> enable, chans |-> chans])
    BY <1>3
  <2>2. chans \in Seq(AdChans)
    <3>1. AdChannels - 1 \in AdChans /\ 0 \in AdChans
      BY AdConstants DEF AdChans
    <3>2. <<AdChannels - 1, 0>> \in Seq(AdChans) /\ <<>> \in Seq(AdChans)
      BY <3>1
    <3>3. AllChans \in Seq(AdChans)
      BY AdConstants DEF AllChans, AdChans
    <3> QED
      BY <3>2, <3>3
  <2> DEFINE cfg == [enable |-> enable, chans |-> chans]
  <2>3. cfg \in [enable : 0 .. 1, chans : Seq(AdChans)] /\ AdStart(cfg)
    BY <2>1, <2>2
  <2> HIDE DEF cfg
  <2> QED
    BY <1>0, <1>1, <2>3, AdStarts
<1>4. CASE AdStop
  <2>0. /\ ad_params' = [ad_params EXCEPT !.started = 0] /\ UNCHANGED <<ad_tx, ad_rx>>
        /\ ad_next' = 0 \/ (ad_next' = ad_next /\ ad_refused')
        /\ ad_refused' \in BOOLEAN
    BY <1>4, Zenon DEF AdStop
  <2>1. ad_params' \in AdParams
    BY <1>0, <2>0 DEF AdTypes, AdParams
  <2>2. ad_next' \in 0 .. Len(ad_tx)
    BY <1>0, <2>0, AdNumbers DEF AdTypes
  <2>3. AdRunning'
    BY <2>0 DEF AdRunning
  <2> QED
    BY <1>0, <1>1, <2>0, <2>1, <2>2, <2>3 DEF AdTypes
<1> QED
  BY <1>2, <1>3, <1>4 DEF Calls

LEMMA AdStepKeeps == AdInv /\ [AdNext]_ad_vars => AdInv'
<1> SUFFICES ASSUME AdInv, [AdNext]_ad_vars PROVE AdInv'
  OBVIOUS
<1>1. CASE AdNext
  BY <1>1, SingleKeeps, ConfigKeeps, ReadKeeps, TransferKeeps, CallsKeep DEF AdNext
<1>2. CASE UNCHANGED ad_vars
  BY <1>2 DEF ad_vars, AdInv, AdTypes, AdRunning, AdPrinted, AdSingle, AdPeriodic, AdWritten, AdCalled
<1> QED
  BY <1>1, <1>2

LEMMA AdInvariant == AdSpec => []AdInv
  BY AdInitInv, AdStepKeeps, PTL DEF AdSpec

(* Every register, parameter and printed line of the AD7891 demo has its   *)
(* type, for any number of channels and reads.                             *)
THEOREM AdTyping == AdSpec => []AdTypeOK
BY AdInvariant, AdTyped, PTL

LEMMA AdPrints == AdInv => AdRight
  BY DEF AdInv, AdRight, AdRunning, AdPrinted, Commands

(* For any number of channels the demo prints each value under its own     *)
(* channel, but for the one after a transfer that failed, and periodic     *)
(* transfers run with the registers of the parameters whatever another     *)
(* program calls, until the core refuses a stop or a register write.       *)
THEOREM ValuesOfTheirChannels == AdSpec => []AdRight
<1>1. AdInv => AdRight
  BY AdPrints
<1> QED
  BY AdInvariant, <1>1, PTL

-----------------------------------------------------------------------------
(* The SpaceWire receiver: "data errors" counts the gaps.                  *)

(* The first byte of packet k, counted from 0, and the start of it.        *)
FirstByte(k) == (k * PktSize) % ByteValues
DataOf(k) == [j \in 1 .. 3 |-> (FirstByte(k) + j - 1) % ByteValues]
SentAs(k) == IF spw_strips THEN DataOf(k) ELSE <<1, 1>> \o DataOf(k)

LEMMA SpwConstants ==
  /\ PktSize \in Nat \ {0} /\ SpwRing \in Nat \ {0} /\ ByteValues \in Nat \ {0}
  /\ ByteValues # 1 /\ MaxTxPkts \in Nat /\ MaxLost \in Nat
BY SpwSizes

LEMMA Bytes1To3 ==
  ASSUME NEW k \in Nat
  PROVE  /\ k * PktSize \in Nat /\ FirstByte(k) \in 0 .. ByteValues - 1
         /\ DataOf(k)[1] = FirstByte(k) /\ (DataOf(k)[1] = 1 => DataOf(k)[2] # 1)
         /\ DataOf(k) \in Seq(0 .. ByteValues - 1) /\ Len(DataOf(k)) = 3
<1>1. k * PktSize \in Nat
  <2>1. \A x, y \in Nat : x * y \in Nat
    OBVIOUS
  <2> QED
    BY <2>1, SpwConstants
<1>2. \A x \in Nat : x % ByteValues \in 0 .. ByteValues - 1
  BY SpwConstants
<1>3. FirstByte(k) \in 0 .. ByteValues - 1
  BY <1>1, <1>2 DEF FirstByte
<1> DEFINE f == FirstByte(k)
<1> HIDE DEF f
<1>4. f \in 0 .. ByteValues - 1 /\ f \in Nat
  BY <1>3, SpwConstants DEF f
<1>5. \A j \in 1 .. 3 : f + j - 1 \in Nat
  BY <1>4
<1>6. \A j \in 1 .. 3 : (f + j - 1) % ByteValues \in 0 .. ByteValues - 1
  BY <1>2, <1>5, Zenon
<1>7. f % ByteValues = f
  BY <1>4, SpwConstants
<1>8. f = 1 => (f + 1) % ByteValues # 1
  <2> SUFFICES ASSUME f = 1 PROVE 2 % ByteValues # 1
    OBVIOUS
  <2>1. ByteValues = 2 \/ ByteValues > 2
    BY SpwConstants
  <2>2. CASE ByteValues = 2
    BY <2>2
  <2>3. CASE ByteValues > 2
    <3>1. 2 \in 0 .. ByteValues - 1
      BY <2>3, SpwConstants
    <3>2. \A b \in Nat \ {0} : \A x \in 0 .. b - 1 : x % b = x
      OBVIOUS
    <3> QED
      BY <3>1, <3>2, SpwConstants
  <2> QED
    BY <2>1, <2>2, <2>3
<1>9. DataOf(k) = [j \in 1 .. 3 |-> (f + j - 1) % ByteValues]
  BY DEF DataOf, f
<1>10. DataOf(k)[1] = f /\ DataOf(k)[2] = (f + 1) % ByteValues
  <2>1. f + 1 - 1 = f /\ f + 2 - 1 = f + 1
    BY <1>4
  <2> QED
    BY <1>7, <1>9, <2>1
<1>11. DataOf(k) \in Seq(0 .. ByteValues - 1) /\ Len(DataOf(k)) = 3
  BY <1>6, <1>9
<1> QED
  BY <1>1, <1>3, <1>8, <1>10, <1>11 DEF f

(* What the receiver takes for the first byte.                             *)
LEMMA FirstOfSent ==
  ASSUME NEW k \in Nat, spw_strips \in BOOLEAN
  PROVE  /\ SentAs(k) \in Seq(0 .. ByteValues - 1)
         /\ SentAs(k)[Skipped(SentAs(k)) + 1] = FirstByte(k)
         /\ Skipped(SentAs(k)) = IF spw_strips THEN 0 ELSE 2
<1> DEFINE d == DataOf(k)
<1>1. /\ d[1] = FirstByte(k) /\ (d[1] = 1 => d[2] # 1)
      /\ d \in Seq(0 .. ByteValues - 1) /\ Len(d) = 3
  BY Bytes1To3
<1> HIDE DEF d
<1>2. CASE spw_strips
  <2>1. SentAs(k) = d /\ Skipped(d) = 0
    BY <1>1, <1>2 DEF SentAs, Skipped, d
  <2> QED
    BY <1>1, <1>2, <2>1
<1>3. CASE ~spw_strips
  <2> DEFINE t == <<1, 1>>
  <2>1. t \in Seq(0 .. ByteValues - 1) /\ Len(t) = 2 /\ t[1] = 1 /\ t[2] = 1
    BY SpwConstants
  <2> HIDE DEF t
  <2>2. /\ t \o d \in Seq(0 .. ByteValues - 1)
        /\ (t \o d)[1] = 1 /\ (t \o d)[2] = 1 /\ (t \o d)[3] = d[1]
    <3>1. /\ t \o d \in Seq(0 .. ByteValues - 1)
          /\ \A i \in 1 .. Len(t) + Len(d) : (t \o d)[i] = IF i <= Len(t) THEN t[i] ELSE d[i - Len(t)]
      BY <1>1, <2>1, ConcatProperties
    <3>2. 1 \in 1 .. 2 + 3 /\ 2 \in 1 .. 2 + 3 /\ 3 \in 1 .. 2 + 3
      OBVIOUS
    <3> QED
      BY <1>1, <2>1, <3>1, <3>2
  <2>3. SentAs(k) = t \o d
    BY <1>3 DEF SentAs, d, t
  <2> DEFINE u == t \o d
  <2>4. u[1] = 1 /\ u[2] = 1 /\ u[3] = d[1]
    BY <2>2
  <2>5. SentAs(k) = u /\ u \in Seq(0 .. ByteValues - 1)
    BY <2>2, <2>3
  <2> HIDE DEF u
  <2>6. Skipped(u) = 2
    BY <2>4 DEF Skipped
  <2> QED
    BY <1>1, <1>3, <2>4, <2>5, <2>6
<1> QED
  BY <1>2, <1>3

(* The packets under way are the last that were sent, and the receiver     *)
(* expects the one after the last that came.                               *)
SpwInv ==
  /\ spw_strips \in BOOLEAN /\ spw_task1 \in {"run", "sleep"} /\ spw_task2 \in {"run", "sleep"}
  /\ tx_pkts \in 0 .. MaxTxPkts /\ rx_pkts \in Nat /\ rx_bytes \in Nat /\ rx_errors \in Nat /\ spw_gaps \in Nat
  /\ spw_lost \in 0 .. MaxLost /\ spw_run \in 0 .. spw_lost
  /\ spw_link \in Seq(Seq(0 .. ByteValues - 1)) /\ Len(spw_link) <= SpwRing
  /\ SpwErrors
  /\ spw_tx_i = FirstByte(tx_pkts)
  /\ spw_rx_i = FirstByte(rx_pkts + spw_lost - spw_run)
  /\ \A i \in 1 .. Len(spw_link) : spw_link[i] = SentAs(rx_pkts + spw_lost + i - 1)

LEMMA SpwNumbers ==
  ASSUME SpwInv
  PROVE  /\ tx_pkts \in Nat /\ rx_pkts \in Nat /\ rx_bytes \in Nat /\ rx_errors \in Nat /\ spw_gaps \in Nat
         /\ spw_lost \in Nat /\ spw_run \in Nat /\ spw_run <= spw_lost
         /\ rx_pkts + spw_lost - spw_run \in Nat /\ rx_pkts + spw_lost \in Nat
         /\ spw_link \in Seq(Seq(0 .. ByteValues - 1)) /\ Len(spw_link) \in Nat
         /\ (spw_link # <<>> => Len(spw_link) > 0)
         /\ tx_pkts = rx_pkts + spw_lost + Len(spw_link)
<1>1. Len(spw_link) \in Nat /\ (spw_link # <<>> => Len(spw_link) > 0)
  BY LenProperties, EmptySeq DEF SpwInv
<1> QED
  BY <1>1, SpwConstants DEF SpwInv, SpwErrors

(* A packet on: the first byte PktSize further.                            *)
LEMMA NextPacket ==
  ASSUME NEW k \in Nat
  PROVE  (FirstByte(k) + PktSize) % ByteValues = FirstByte(k + 1)
<1>1. k * PktSize \in Nat
  BY Bytes1To3
<1>2. (k + 1) * PktSize = k * PktSize + PktSize
  BY SpwConstants
<1> DEFINE a == k * PktSize
<1> HIDE DEF a
<1>3. ((a % ByteValues) + PktSize) % ByteValues = (a + PktSize) % ByteValues
  BY <1>1, SpwConstants, RemainderOfSum DEF a
<1> QED
  BY <1>2, <1>3, Zenon DEF FirstByte, a

(* A gap shows when the bytes of the packets that are missing do not count *)
(* round.                                                                  *)
LEMMA GapShows ==
  ASSUME NEW k \in Nat, NEW n \in Nat
  PROVE  FirstByte(k + n) = FirstByte(k) <=> (n * PktSize) % ByteValues = 0
<1>1. k * PktSize \in Nat /\ n * PktSize \in Nat
  BY Bytes1To3
<1>2. (k + n) * PktSize = k * PktSize + n * PktSize
  BY SpwConstants
<1> DEFINE a == k * PktSize
           c == n * PktSize
<1> HIDE DEF a, c
<1>3. (a + c) % ByteValues = a % ByteValues <=> c % ByteValues = 0
  BY <1>1, SpwConstants, RemainderOfSum, ZenonT(60) DEF a, c
<1> QED
  BY <1>2, <1>3, Zenon DEF FirstByte, a, c

LEMMA SpwTyped == SpwInv => SpwTypeOK
<1> SUFFICES ASSUME SpwInv PROVE SpwTypeOK
  OBVIOUS
<1>1. spw_tx_i \in 0 .. ByteValues - 1 /\ spw_rx_i \in 0 .. ByteValues - 1
  <2>1. FirstByte(tx_pkts) \in 0 .. ByteValues - 1
    BY SpwNumbers, Bytes1To3
  <2>2. FirstByte(rx_pkts + spw_lost - spw_run) \in 0 .. ByteValues - 1
    BY SpwNumbers, Bytes1To3
  <2> QED
    BY <2>1, <2>2 DEF SpwInv
<1> QED
  BY <1>1 DEF SpwInv, SpwTypeOK

LEMMA SpwInitInv == SpwInit => SpwInv
<1> SUFFICES ASSUME SpwInit PROVE SpwInv
  OBVIOUS
<1>1. FirstByte(0) = 0
  <2>1. 0 * PktSize = 0 /\ 0 % ByteValues = 0
    BY SpwConstants
  <2> QED
    BY <2>1 DEF FirstByte
<1>2. SpwErrors
  BY SpwConstants DEF SpwInit, SpwErrors
<1>3. 0 + 0 - 0 = 0 /\ Len(<<>>) = 0 /\ <<>> \in Seq(Seq(0 .. ByteValues - 1))
  OBVIOUS
<1> QED
  BY <1>1, <1>2, <1>3, SpwConstants DEF SpwInit, SpwInv

LEMMA WriteKeeps ==
  ASSUME SpwInv, spw_task1_write
  PROVE  SpwInv'
<1>0. /\ spw_task1 = "run" /\ tx_pkts < MaxTxPkts /\ Len(spw_link) < SpwRing
      /\ tx_pkts' = tx_pkts + 1 /\ spw_tx_i' = (spw_tx_i + PktSize) % ByteValues
      /\ UNCHANGED <<spw_strips, spw_task1, spw_task2, spw_rx_i, rx_pkts, rx_bytes, rx_errors,
                     spw_gaps, spw_lost, spw_run>>
      /\ spw_strips \in BOOLEAN /\ spw_tx_i = FirstByte(tx_pkts)
  BY DEF spw_task1_write, SpwReceiver, SpwInv
<1> DEFINE m == SentAs(tx_pkts)
<1>1. spw_link' = Append(spw_link, m)
  BY <1>0 DEF spw_task1_write, SentAs, DataOf
<1>2. m \in Seq(0 .. ByteValues - 1)
  BY <1>0, SpwNumbers, FirstOfSent
<1>3. spw_tx_i' = FirstByte(tx_pkts + 1)
  <2>1. (FirstByte(tx_pkts) + PktSize) % ByteValues = FirstByte(tx_pkts + 1)
    BY SpwNumbers, NextPacket
  <2> QED
    BY <1>0, <2>1, Zenon
<1> HIDE DEF m
<1>4. /\ spw_link' \in Seq(Seq(0 .. ByteValues - 1)) /\ Len(spw_link') = Len(spw_link) + 1
      /\ \A i \in 1 .. Len(spw_link) : spw_link'[i] = spw_link[i]
      /\ spw_link'[Len(spw_link) + 1] = m
  BY <1>1, <1>2, SpwNumbers, AppendProperties
<1>5. \A k \in Nat : SentAs(k)' = SentAs(k)
  BY <1>0 DEF SentAs
<1>6. \A i \in 1 .. Len(spw_link) + 1 : spw_link'[i] = SentAs(rx_pkts + spw_lost + i - 1)
  <2> SUFFICES ASSUME NEW i \in 1 .. Len(spw_link) + 1
               PROVE  spw_link'[i] = SentAs(rx_pkts + spw_lost + i - 1)
    OBVIOUS
  <2>1. CASE i \in 1 .. Len(spw_link)
    BY <1>4, <2>1 DEF SpwInv
  <2>2. CASE i = Len(spw_link) + 1
    <3>1. rx_pkts + spw_lost + i - 1 = tx_pkts
      BY <2>2, SpwNumbers
    <3> QED
      BY <1>4, <2>2, <3>1, Zenon DEF m
  <2> QED
    BY <2>1, <2>2, SpwNumbers, SMTT(30)
<1>7. \A i \in 1 .. Len(spw_link') : spw_link'[i] = SentAs(rx_pkts + spw_lost + i - 1)'
  <2>0. /\ tx_pkts \in Nat /\ rx_pkts \in Nat /\ spw_lost \in Nat /\ Len(spw_link) \in Nat
        /\ tx_pkts = rx_pkts + spw_lost + Len(spw_link)
    BY SpwNumbers
  <2>1. \A i \in 1 .. Len(spw_link) + 1 : rx_pkts + spw_lost + i - 1 \in Nat
    BY <2>0
  <2>2. \A i \in 1 .. Len(spw_link) + 1 : SentAs(rx_pkts + spw_lost + i - 1)' = SentAs(rx_pkts + spw_lost + i - 1)
    BY <1>0, <1>5, <2>1 DEF SentAs
  <2> QED
    BY <1>4, <1>6, <2>2
<1>8. tx_pkts' \in 0 .. MaxTxPkts /\ Len(spw_link') <= SpwRing
      /\ tx_pkts' = rx_pkts + spw_lost + Len(spw_link')
  <2>0. /\ tx_pkts \in Nat /\ rx_pkts \in Nat /\ spw_lost \in Nat /\ Len(spw_link) \in Nat
        /\ tx_pkts = rx_pkts + spw_lost + Len(spw_link)
    BY SpwNumbers
  <2>1. tx_pkts + 1 \in 0 .. MaxTxPkts /\ Len(spw_link) + 1 <= SpwRing
        /\ tx_pkts + 1 = rx_pkts + spw_lost + (Len(spw_link) + 1)
    BY <1>0, <2>0, SpwConstants
  <2> QED
    BY <1>0, <1>4, <2>1
<1>9. SpwErrors'
  BY <1>0, <1>8 DEF SpwErrors, SpwInv
<1>10. spw_tx_i' = FirstByte(tx_pkts)' /\ spw_rx_i' = FirstByte(rx_pkts + spw_lost - spw_run)'
  BY <1>0, <1>3 DEF FirstByte, SpwInv
<1> QED
  BY <1>0, <1>4, <1>7, <1>8, <1>9, <1>10 DEF SpwInv

(* The packets behind the first one.                                       *)
LEMMA FirstGone ==
  ASSUME SpwInv, spw_link # <<>>, spw_link' = Tail(spw_link), spw_strips' = spw_strips,
         (rx_pkts + spw_lost)' = rx_pkts + spw_lost + 1
  PROVE  /\ spw_link' \in Seq(Seq(0 .. ByteValues - 1)) /\ Len(spw_link') = Len(spw_link) - 1
         /\ (\A i \in 1 .. Len(spw_link) : spw_link[i] = SentAs(rx_pkts + spw_lost + i - 1))'
         /\ Head(spw_link) = SentAs(rx_pkts + spw_lost)
<1>1. /\ spw_link' \in Seq(Seq(0 .. ByteValues - 1)) /\ Len(spw_link') = Len(spw_link) - 1
      /\ \A i \in 1 .. Len(spw_link) - 1 : spw_link'[i] = spw_link[i + 1]
      /\ Head(spw_link) = spw_link[1]
  BY SpwNumbers, HeadTailProperties
<1>2. Head(spw_link) = SentAs(rx_pkts + spw_lost)
  <2>1. 1 \in 1 .. Len(spw_link) /\ rx_pkts + spw_lost + 1 - 1 = rx_pkts + spw_lost
    BY SpwNumbers, SMTT(30)
  <2>2. spw_link[1] = SentAs(rx_pkts + spw_lost + 1 - 1)
    BY <2>1 DEF SpwInv
  <2> QED
    BY <1>1, <2>1, <2>2, Zenon
<1>3. ASSUME NEW i \in 1 .. Len(spw_link) - 1
      PROVE  spw_link'[i] = SentAs(rx_pkts + spw_lost + i - 1)'
  <2>1. i + 1 \in 1 .. Len(spw_link) /\ rx_pkts + spw_lost + (i + 1) - 1 = rx_pkts + spw_lost + 1 + i - 1
    BY SpwNumbers
  <2>2. spw_link[i + 1] = SentAs(rx_pkts + spw_lost + (i + 1) - 1)
    BY <2>1 DEF SpwInv
  <2>3. SentAs(rx_pkts + spw_lost + i - 1)' = SentAs(rx_pkts + spw_lost + 1 + i - 1)
    BY DEF SentAs
  <2> QED
    BY <1>1, <2>1, <2>2, <2>3
<1> QED
  BY <1>1, <1>2, <1>3

LEMMA Spw2ReadKeeps ==
  ASSUME SpwInv, spw_task2_read
  PROVE  SpwInv'
<1> DEFINE pkt   == Head(spw_link)
           first == pkt[Skipped(pkt) + 1]
           bytes == PktSize + (IF spw_strips THEN 0 ELSE 2)
           n     == rx_pkts + spw_lost
<1>0. /\ spw_link # <<>> /\ spw_link' = Tail(spw_link) /\ rx_pkts' = rx_pkts + 1
      /\ rx_errors' = rx_errors + (IF first # spw_rx_i THEN 1 ELSE 0)
      /\ spw_rx_i' = (first + bytes - Skipped(pkt)) % ByteValues
      /\ rx_bytes' = rx_bytes + bytes
      /\ spw_gaps' = spw_gaps + (IF (spw_run * PktSize) % ByteValues # 0 THEN 1 ELSE 0)
      /\ spw_run' = 0
      /\ UNCHANGED <<spw_strips, spw_task1, spw_task2, spw_tx_i, tx_pkts, spw_lost>>
      /\ spw_strips \in BOOLEAN
  BY DEF spw_task2_read, SpwInv
<1>1. rx_pkts' \in Nat /\ (rx_pkts + spw_lost)' = n + 1 /\ n \in Nat
  <2>0. /\ tx_pkts \in Nat /\ rx_pkts \in Nat /\ spw_lost \in Nat /\ Len(spw_link) \in Nat
        /\ tx_pkts = rx_pkts + spw_lost + Len(spw_link)
    BY SpwNumbers
  <2>1. rx_pkts + 1 \in Nat /\ rx_pkts + 1 + spw_lost = n + 1 /\ n \in Nat
    BY <2>0
  <2> HIDE DEF n
  <2> QED
    BY <1>0, <2>1
<1>2. /\ spw_link' \in Seq(Seq(0 .. ByteValues - 1)) /\ Len(spw_link') = Len(spw_link) - 1
      /\ (\A i \in 1 .. Len(spw_link) : spw_link[i] = SentAs(rx_pkts + spw_lost + i - 1))'
      /\ pkt = SentAs(n)
  BY <1>0, <1>1, FirstGone
<1>3. first = FirstByte(n) /\ Skipped(pkt) = IF spw_strips THEN 0 ELSE 2
  BY <1>0, <1>1, <1>2, FirstOfSent, Zenon
<1> HIDE DEF pkt, first
<1>4. first + bytes - Skipped(pkt) = FirstByte(n) + PktSize
  <2>1. FirstByte(n) \in Nat
    BY <1>1, Bytes1To3, SpwConstants
  <2> QED
    BY <1>3, <2>1, SpwConstants
<1>5. spw_rx_i' = FirstByte(n + 1)
  <2>1. (FirstByte(n) + PktSize) % ByteValues = FirstByte(n + 1)
    BY <1>1, NextPacket
  <2> QED
    BY <1>0, <1>4, <2>1, Zenon
<1>6. first # spw_rx_i <=> (spw_run * PktSize) % ByteValues # 0
  <2> DEFINE k == n - spw_run
  <2>1. k \in Nat /\ k + spw_run = n /\ spw_run \in Nat
    BY SpwNumbers, SMTT(30)
  <2>2. spw_rx_i = FirstByte(k)
    BY DEF SpwInv
  <2> HIDE DEF k, n
  <2>3. FirstByte(k + spw_run) = FirstByte(k) <=> (spw_run * PktSize) % ByteValues = 0
    BY <2>1, GapShows
  <2> QED
    BY <1>3, <2>1, <2>2, <2>3, Zenon
<1>7. rx_errors' = spw_gaps' /\ rx_errors' \in Nat
  BY <1>0, <1>6, SpwNumbers DEF SpwInv, SpwErrors
<1>8. /\ rx_bytes' \in Nat /\ rx_bytes' = (rx_pkts + 1) * bytes
  <2>1. rx_bytes = rx_pkts * bytes /\ bytes \in Nat
    BY <1>0, SpwConstants DEF SpwInv, SpwErrors
  <2> HIDE DEF bytes
  <2>2. \A x, y \in Nat : (x + 1) * y = x * y + y /\ x * y + y \in Nat
    OBVIOUS
  <2>3. rx_pkts \in Nat
    BY SpwNumbers
  <2>4. (rx_pkts + 1) * bytes = rx_pkts * bytes + bytes /\ rx_pkts * bytes + bytes \in Nat
    BY <2>1, <2>2, <2>3, Zenon
  <2>5. rx_bytes' = rx_pkts * bytes + bytes
    BY <1>0, <2>1, Zenon
  <2> QED
    BY <2>4, <2>5, Zenon
<1>9. SpwErrors'
  <2>1. tx_pkts = rx_pkts + 1 + spw_lost + (Len(spw_link) - 1)
    BY SpwNumbers, SMTT(30)
  <2>2. (PktSize + (IF spw_strips THEN 0 ELSE 2))' = bytes
    BY <1>0
  <2> QED
    BY <1>0, <1>2, <1>7, <1>8, <2>1, <2>2 DEF SpwErrors
<1>10. spw_tx_i' = FirstByte(tx_pkts)' /\ spw_rx_i' = FirstByte(rx_pkts + spw_lost - spw_run)'
  <2>1. rx_pkts + 1 + spw_lost - 0 = n + 1
    BY SpwNumbers
  <2>2. FirstByte(rx_pkts + spw_lost - spw_run)' = FirstByte(rx_pkts + 1 + spw_lost - 0)
    BY <1>0 DEF FirstByte
  <2>3. spw_tx_i' = FirstByte(tx_pkts)'
    BY <1>0 DEF FirstByte, SpwInv
  <2> QED
    BY <1>5, <2>1, <2>2, <2>3, Zenon
<1>11. Len(spw_link') <= SpwRing /\ spw_run' \in 0 .. spw_lost /\ spw_gaps' \in Nat
  BY <1>0, <1>2, <1>7, SpwNumbers, SpwConstants DEF SpwInv
<1> QED
  BY <1>0, <1>1, <1>2, <1>7, <1>8, <1>9, <1>10, <1>11 DEF SpwInv

LEMMA LossKeeps ==
  ASSUME SpwInv, SpwLoses
  PROVE  SpwInv'
<1>0. /\ spw_link # <<>> /\ spw_link' = Tail(spw_link) /\ spw_lost < MaxLost
      /\ spw_lost' = spw_lost + 1 /\ spw_run' = spw_run + 1
      /\ UNCHANGED <<spw_strips, spw_task1, spw_tx_i, tx_pkts, spw_task2, spw_rx_i, rx_pkts, rx_bytes,
                     rx_errors, spw_gaps>>
  BY DEF SpwLoses, SpwReceiver
<1>1. (rx_pkts + spw_lost)' = rx_pkts + spw_lost + 1
  BY <1>0, SpwNumbers
<1>2. /\ spw_link' \in Seq(Seq(0 .. ByteValues - 1)) /\ Len(spw_link') = Len(spw_link) - 1
      /\ (\A i \in 1 .. Len(spw_link) : spw_link[i] = SentAs(rx_pkts + spw_lost + i - 1))'
  BY <1>0, <1>1, FirstGone
<1>3. spw_tx_i' = FirstByte(tx_pkts)' /\ spw_rx_i' = FirstByte(rx_pkts + spw_lost - spw_run)'
  <2>1. rx_pkts + (spw_lost + 1) - (spw_run + 1) = rx_pkts + spw_lost - spw_run
    BY SpwNumbers
  <2>2. FirstByte(rx_pkts + spw_lost - spw_run)' = FirstByte(rx_pkts + (spw_lost + 1) - (spw_run + 1))
    BY <1>0 DEF FirstByte
  <2>3. spw_tx_i' = FirstByte(tx_pkts)' /\ spw_rx_i' = FirstByte(rx_pkts + spw_lost - spw_run)
    BY <1>0 DEF FirstByte, SpwInv
  <2> QED
    BY <2>1, <2>2, <2>3, Zenon
<1>4. SpwErrors'
  <2>0. /\ tx_pkts \in Nat /\ rx_pkts \in Nat /\ spw_lost \in Nat /\ Len(spw_link) \in Nat
        /\ tx_pkts = rx_pkts + spw_lost + Len(spw_link)
    BY SpwNumbers
  <2>1. tx_pkts = rx_pkts + (spw_lost + 1) + (Len(spw_link) - 1)
    BY <2>0
  <2> QED
    BY <1>0, <1>2, <2>1 DEF SpwErrors, SpwInv
<1>5. Len(spw_link') <= SpwRing /\ spw_lost' \in 0 .. MaxLost /\ spw_run' \in 0 .. spw_lost'
  BY <1>0, <1>2, SpwNumbers, SpwConstants DEF SpwInv
<1> QED
  BY <1>0, <1>2, <1>3, <1>4, <1>5 DEF SpwInv

LEMMA SpwStepKeeps == SpwInv /\ [SpwNext]_spw_vars => SpwInv'
<1> SUFFICES ASSUME SpwInv, [SpwNext]_spw_vars PROVE SpwInv'
  OBVIOUS
<1>1. CASE spw_task1_write \/ spw_task2_read \/ SpwLoses
  BY <1>1, WriteKeeps, Spw2ReadKeeps, LossKeeps
<1>2. CASE SpwFails
  BY <1>2 DEF SpwFails, SpwInv, SpwErrors, FirstByte, SentAs
<1>3. CASE UNCHANGED spw_vars
  BY <1>3 DEF spw_vars, SpwInv, SpwErrors, FirstByte, SentAs
<1> QED
  BY <1>1, <1>2, <1>3 DEF SpwNext

LEMMA SpwInvariant == SpwSpec => []SpwInv
  BY SpwInitInv, SpwStepKeeps, PTL DEF SpwSpec

(* Every counter of the two tasks and every packet has its type, for any   *)
(* size of packets and values of a byte.                                   *)
THEOREM SpwTyping == SpwSpec => []SpwTypeOK
BY SpwInvariant, SpwTyped, PTL

(* For any size of packets and any values of a byte, the receiver's "data  *)
(* errors" are the gaps in what it received, but for those of so many      *)
(* packets that their bytes count round to where they began.               *)
THEOREM GapsCounted == SpwSpec => []SpwErrors
<1>1. SpwInv => SpwErrors
  BY DEF SpwInv
<1> QED
  BY SpwInvariant, <1>1, PTL

-----------------------------------------------------------------------------
(* The SpaceWire test of two boards.  The packets under way are the last   *)
(* that were written; all but the first are whole, and the first is whole  *)
(* if its number was not read.                                             *)
SptPacket == [i : 0 .. 9, left : 1 .. PktLen]

PartlyRead == spt_link # <<>> /\ spt_link[1].left # PktLen

SptTypes ==
  /\ spt_keeps \in BOOLEAN /\ spt_on \subseteq {"tx", "rx"}
  /\ spt_tx \in {"open", "start", "stop", "restart", "write", "exit"}
  /\ spt_rx \in {"open", "start", "read", "exit"}

SptPackets ==
  /\ spt_writes \in 0 .. MaxWrites /\ spt_i = spt_writes % 10
  /\ spt_link \in Seq(SptPacket) /\ Len(spt_link) <= LinkRoom
  /\ spt_got \in Seq(0 .. 9) /\ spt_written \in Seq(0 .. MaxWrites - 1)
  /\ Len(spt_got) = Len(spt_written) - Len(spt_link) + (IF PartlyRead THEN 1 ELSE 0)
  /\ \A k \in 2 .. Len(spt_link) : spt_link[k].left = PktLen
  /\ Len(spt_link) <= Len(spt_written)
  /\ \A k \in 1 .. Len(spt_link) :
       spt_link[k].i = spt_written[Len(spt_written) - Len(spt_link) + k] % 10
  /\ \A k \in 1 .. Len(spt_got) : spt_got[k] = spt_written[k] % 10

SptInv == SptTypes /\ SptPackets

LEMMA SptConstants ==
  PktLen \in Nat \ {0} /\ ReadLen \in Nat \ {0} /\ LinkRoom \in Nat \ {0} /\ MaxWrites \in Nat
  BY SpwTestSizes

LEMMA Digits == \A n \in Nat : n % 10 \in 0 .. 9 /\ (n + 1) % 10 = (IF (n % 10) + 1 > 9 THEN 0 ELSE (n % 10) + 1)
  OBVIOUS

LEMMA SptTyped == SptInv => SptTypeOK /\ ReadInOrder
<1> SUFFICES ASSUME SptInv PROVE SptTypeOK /\ ReadInOrder
  OBVIOUS
<1>1. SptTypes /\ SptPackets
  BY DEF SptInv
<1>2. spt_writes \in Nat
  BY <1>1, SptConstants DEF SptPackets
<1>3. spt_i \in 0 .. 9
  BY <1>1, <1>2, Digits DEF SptPackets
<1>4. SptTypeOK
  BY <1>1, <1>3, Zenon DEF SptTypes, SptPackets, SptTypeOK, SptPacket
<1>5. spt_got \in Seq(0 .. 9) /\ DOMAIN spt_got = 1 .. Len(spt_got)
  BY <1>1 DEF SptPackets
<1>6. Len(spt_got) <= Len(spt_written)
  <2>1. CASE PartlyRead
    <3>1. Len(spt_link) >= 1
      BY <1>1, <2>1 DEF SptPackets, PartlyRead
    <3> QED
      BY <1>1, <2>1, <3>1 DEF SptPackets
  <2>2. CASE ~PartlyRead
    BY <1>1, <2>2 DEF SptPackets
  <2> QED
    BY <2>1, <2>2
<1>7. ReadInOrder
  BY <1>1, <1>5, <1>6, Zenon DEF SptPackets, ReadInOrder
<1> QED
  BY <1>4, <1>7

LEMMA SptInvInit == SptInit => SptInv
<1> SUFFICES ASSUME SptInit PROVE SptInv
  OBVIOUS
<1>1. spt_writes \in 0 .. MaxWrites /\ spt_i = spt_writes % 10
  BY SptConstants DEF SptInit
<1>2. spt_link \in Seq(SptPacket) /\ Len(spt_link) = 0 /\ spt_got \in Seq(0 .. 9) /\ Len(spt_got) = 0
      /\ spt_written \in Seq(0 .. MaxWrites - 1) /\ Len(spt_written) = 0 /\ ~PartlyRead
  BY DEF SptInit, PartlyRead
<1>3. SptPackets
  BY <1>1, <1>2, SptConstants DEF SptPackets
<1> QED
  BY <1>3 DEF SptInit, SptInv, SptTypes

(* A step that leaves the packets alone.                                   *)
LEMMA PacketsStay ==
  ASSUME SptPackets, UNCHANGED SptData
  PROVE  SptPackets'
  BY Zenon DEF SptPackets, PartlyRead, SptData

LEMMA TxWriteKeeps == SptInv /\ TxWrite => SptInv'
<1> SUFFICES ASSUME SptInv, TxWrite PROVE SptInv'
  OBVIOUS
<1> DEFINE pkt == [i |-> spt_i, left |-> PktLen]
           L == Len(spt_link)
           W == Len(spt_written)
<1>1. SptTypes /\ SptPackets
  BY DEF SptInv
<1>2. /\ \/ /\ Len(spt_link) < LinkRoom
            /\ spt_link' = Append(spt_link, pkt)
            /\ spt_written' = Append(spt_written, spt_writes)
         \/ UNCHANGED <<spt_link, spt_written>>
      /\ spt_writes < MaxWrites /\ spt_writes' = spt_writes + 1
      /\ spt_i' = IF spt_i + 1 > 9 THEN 0 ELSE spt_i + 1
      /\ UNCHANGED <<spt_keeps, spt_tx, spt_rx, spt_on, spt_got>>
  BY DEF TxWrite
<1>3. spt_writes \in Nat /\ spt_writes \in 0 .. MaxWrites - 1 /\ spt_i = spt_writes % 10 /\ spt_i \in 0 .. 9
  <2>1. spt_writes \in Nat /\ spt_writes \in 0 .. MaxWrites - 1 /\ spt_i = spt_writes % 10
    BY <1>1, <1>2, SptConstants DEF SptPackets
  <2> QED
    BY <2>1, Digits
<1>4. spt_writes' \in 0 .. MaxWrites /\ spt_i' = spt_writes' % 10
  <2>1. spt_writes + 1 \in 0 .. MaxWrites
    BY <1>3, SptConstants
  <2>2. (spt_writes + 1) % 10 = IF spt_i + 1 > 9 THEN 0 ELSE spt_i + 1
    BY <1>3, Digits
  <2> QED
    BY <1>2, <2>1, <2>2
<1>5. /\ spt_link \in Seq(SptPacket) /\ L <= LinkRoom
      /\ spt_got \in Seq(0 .. 9) /\ spt_written \in Seq(0 .. MaxWrites - 1)
      /\ Len(spt_got) = W - L + (IF PartlyRead THEN 1 ELSE 0)
      /\ \A k \in 2 .. L : spt_link[k].left = PktLen
      /\ L <= W
      /\ \A k \in 1 .. L : spt_link[k].i = spt_written[W - L + k] % 10
      /\ \A k \in 1 .. Len(spt_got) : spt_got[k] = spt_written[k] % 10
      /\ L \in Nat /\ W \in Nat
  <2>1. spt_link \in Seq(SptPacket) /\ spt_written \in Seq(0 .. MaxWrites - 1)
    BY <1>1 DEF SptPackets
  <2>2. L \in Nat /\ W \in Nat
    BY <2>1, LenProperties
  <2> QED
    BY <1>1, <2>2, Zenon DEF SptPackets
<1>6. CASE UNCHANGED <<spt_link, spt_written>>
  <2>1. SptPackets'
    BY <1>1, <1>2, <1>4, <1>6, Zenon DEF SptPackets, PartlyRead
  <2> QED
    BY <1>1, <1>2, <2>1 DEF SptInv, SptTypes
<1>7. CASE Len(spt_link) < LinkRoom /\ spt_link' = Append(spt_link, pkt) /\ spt_written' = Append(spt_written, spt_writes)
  <2>1. pkt \in SptPacket /\ pkt.i = spt_i /\ pkt.left = PktLen
    BY <1>3, SptConstants DEF SptPacket
  <2> HIDE DEF pkt
  <2>2. /\ spt_link' \in Seq(SptPacket) /\ Len(spt_link') = L + 1 /\ spt_link'[L + 1] = pkt
        /\ \A k \in 1 .. L : spt_link'[k] = spt_link[k]
    BY <1>5, <1>7, <2>1
  <2>3. /\ spt_written' \in Seq(0 .. MaxWrites - 1) /\ Len(spt_written') = W + 1
        /\ spt_written'[W + 1] = spt_writes
        /\ \A k \in 1 .. W : spt_written'[k] = spt_written[k]
    BY <1>3, <1>5, <1>7
  <2> HIDE DEF L, W
  <2>4. L + 1 <= LinkRoom
    BY <1>5, <1>7, SptConstants DEF L
  <2>5. PartlyRead' <=> PartlyRead
    <3>1. spt_link' # <<>>
      BY <1>5, <2>2
    <3>2. CASE L = 0
      <4>1. ~PartlyRead
        BY <1>5, <3>2 DEF PartlyRead, L
      <4>2. spt_link'[1] = pkt
        BY <2>2, <3>2
      <4> QED
        BY <2>1, <4>1, <4>2 DEF PartlyRead
    <3>3. CASE L # 0
      <4>1. 1 \in 1 .. L /\ spt_link # <<>>
        BY <1>5, <3>3 DEF L
      <4> QED
        BY <2>2, <3>1, <4>1 DEF PartlyRead
    <3> QED
      BY <3>2, <3>3
  <2>6. Len(spt_got') = Len(spt_written') - Len(spt_link') + (IF PartlyRead' THEN 1 ELSE 0)
    <3>1. W - L = (W + 1) - (L + 1)
      BY <1>5
    <3>2. Len(spt_got') = W - L + (IF PartlyRead' THEN 1 ELSE 0)
      BY <1>2, <1>5, <2>5
    <3> QED
      BY <2>2, <2>3, <3>1, <3>2
  <2>7. \A k \in 2 .. L + 1 : spt_link'[k].left = PktLen
    <3>1. \A k \in 2 .. L + 1 : k = L + 1 \/ (k \in 1 .. L /\ k \in 2 .. L)
      BY <1>5
    <3> QED
      BY <1>5, <2>1, <2>2, <3>1, Zenon
  <2>8. \A k \in 1 .. L + 1 : spt_link'[k].i = spt_written'[(W + 1) - (L + 1) + k] % 10
    <3>1. \A k \in 1 .. L + 1 : (k = L + 1 /\ (W + 1) - (L + 1) + k = W + 1)
             \/ (k \in 1 .. L /\ (W + 1) - (L + 1) + k = W - L + k /\ W - L + k \in 1 .. W)
      BY <1>5
    <3> QED
      BY <1>3, <1>5, <2>1, <2>2, <2>3, <3>1, Zenon
  <2>9. \A k \in 1 .. Len(spt_got') : spt_got'[k] = spt_written'[k] % 10
    <3>1. \A k \in 1 .. Len(spt_got) : k \in 1 .. W
      <4>1. PartlyRead => L >= 1
        BY <1>5 DEF PartlyRead, L
      <4>2. Len(spt_got) <= W
        BY <1>5, <4>1
      <4> QED
        BY <1>5, <4>2
    <3> QED
      BY <1>2, <1>5, <2>3, <3>1
  <2>10. L + 1 <= W + 1
    BY <1>5
  <2>11. SptPackets'
    BY <1>2, <1>4, <1>5, <2>2, <2>3, <2>4, <2>6, <2>7, <2>8, <2>9, <2>10, Zenon DEF SptPackets
  <2> QED
    BY <1>1, <1>2, <2>11 DEF SptInv, SptTypes
<1> QED
  BY <1>2, <1>6, <1>7

LEMMA RxReadKeeps == SptInv /\ RxRead => SptInv'
<1> SUFFICES ASSUME SptInv, RxRead PROVE SptInv'
  OBVIOUS
<1> DEFINE pkt == Head(spt_link)
           rest == [pkt EXCEPT !.left = pkt.left - ReadLen]
           L == Len(spt_link)
           W == Len(spt_written)
           G == Len(spt_got)
<1>1. SptTypes /\ SptPackets
  BY DEF SptInv
<1>2. /\ spt_link # <<>>
      /\ spt_got' = IF pkt.left = PktLen THEN Append(spt_got, pkt.i) ELSE spt_got
      /\ spt_link' = IF spt_keeps /\ pkt.left > ReadLen THEN <<rest>> \o Tail(spt_link)
                     ELSE Tail(spt_link)
      /\ UNCHANGED <<spt_keeps, spt_tx, spt_rx, spt_on, spt_i, spt_writes, spt_written>>
  BY DEF RxRead
<1>3. /\ spt_link \in Seq(SptPacket) /\ L <= LinkRoom
      /\ spt_got \in Seq(0 .. 9) /\ spt_written \in Seq(0 .. MaxWrites - 1)
      /\ G = W - L + (IF PartlyRead THEN 1 ELSE 0)
      /\ \A k \in 2 .. L : spt_link[k].left = PktLen
      /\ L <= W
      /\ \A k \in 1 .. L : spt_link[k].i = spt_written[W - L + k] % 10
      /\ \A k \in 1 .. G : spt_got[k] = spt_written[k] % 10
      /\ L \in Nat /\ W \in Nat /\ G \in Nat
  BY <1>1 DEF SptPackets
<1>4. L >= 1 /\ pkt = spt_link[1] /\ pkt \in SptPacket /\ (PartlyRead <=> pkt.left # PktLen)
  BY <1>2, <1>3 DEF PartlyRead
<1>5. pkt.left \in 1 .. PktLen /\ pkt.i \in 0 .. 9
  BY <1>4 DEF SptPacket
<1> HIDE DEF pkt
<1>6. Tail(spt_link) \in Seq(SptPacket) /\ Len(Tail(spt_link)) = L - 1
      /\ \A k \in 1 .. L - 1 : Tail(spt_link)[k] = spt_link[k + 1]
  BY <1>2, <1>3
(* What has been read, with the number of this packet if it is new.        *)
<1>7. /\ spt_got' \in Seq(0 .. 9) /\ Len(spt_got') = W - L + 1
      /\ \A k \in 1 .. W - L + 1 : spt_got'[k] = spt_written[k] % 10
  <2>1. CASE pkt.left = PktLen
    <3>1. G = W - L /\ spt_got' = Append(spt_got, pkt.i)
      BY <1>2, <1>3, <1>4, <2>1
    <3>2. spt_got' \in Seq(0 .. 9) /\ Len(spt_got') = G + 1 /\ spt_got'[G + 1] = pkt.i
          /\ \A k \in 1 .. G : spt_got'[k] = spt_got[k]
      BY <1>3, <1>5, <3>1
    <3>3. pkt.i = spt_written[W - L + 1] % 10
      <4>1. 1 \in 1 .. L
        BY <1>3, <1>4
      <4> QED
        BY <1>3, <1>4, <4>1, Zenon
    <3>4. \A k \in 1 .. W - L + 1 : k \in 1 .. G \/ (k = G + 1 /\ k = W - L + 1)
      BY <1>3, <3>1
    <3> QED
      BY <1>3, <3>1, <3>2, <3>3, <3>4, Zenon
  <2>2. CASE pkt.left # PktLen
    <3>1. G = W - L + 1 /\ spt_got' = spt_got
      BY <1>2, <1>3, <1>4, <2>2
    <3> QED
      BY <1>3, <3>1, Zenon
  <2> QED
    BY <2>1, <2>2
<1> HIDE DEF L, W, G
<1>8. CASE spt_keeps /\ pkt.left > ReadLen
  <2>1. rest \in SptPacket /\ rest.i = pkt.i /\ rest.left # PktLen
    <3>1. pkt.left - ReadLen \in 1 .. PktLen /\ pkt.left - ReadLen # PktLen
      BY <1>5, <1>8, SptConstants
    <3> QED
      BY <1>4, <3>1 DEF SptPacket
  <2> HIDE DEF rest
  <2>2. /\ spt_link' \in Seq(SptPacket) /\ Len(spt_link') = L /\ spt_link'[1] = rest
        /\ \A k \in 2 .. L : spt_link'[k] = spt_link[k]
    <3>1. spt_link' = <<rest>> \o Tail(spt_link)
      BY <1>2, <1>8
    <3>2. <<rest>> \in Seq(SptPacket) /\ Len(<<rest>>) = 1 /\ <<rest>>[1] = rest
      BY <2>1
    <3>3. /\ spt_link' \in Seq(SptPacket) /\ Len(spt_link') = 1 + (L - 1)
          /\ \A k \in 1 .. 1 + (L - 1) :
               spt_link'[k] = IF k <= 1 THEN <<rest>>[k] ELSE Tail(spt_link)[k - 1]
      BY <1>6, <3>1, <3>2, ConcatProperties
    <3>4. 1 + (L - 1) = L /\ 1 \in 1 .. L
          /\ \A k \in 2 .. L : ~(k <= 1) /\ k \in 1 .. L /\ k - 1 \in 1 .. L - 1 /\ k - 1 + 1 = k
      BY <1>3, <1>4
    <3>5. \A k \in 2 .. L : Tail(spt_link)[k - 1] = spt_link[k]
      BY <1>6, <3>4
    <3>6. spt_link'[1] = rest
      BY <3>2, <3>3, <3>4
    <3> QED
      BY <3>3, <3>4, <3>5, <3>6, Zenon
  <2>3. PartlyRead'
    BY <1>3, <1>4, <2>1, <2>2 DEF PartlyRead
  <2>4. Len(spt_got') = Len(spt_written') - Len(spt_link') + (IF PartlyRead' THEN 1 ELSE 0)
    BY <1>2, <1>7, <2>2, <2>3 DEF W
  <2>5. \A k \in 2 .. Len(spt_link') : spt_link'[k].left = PktLen
    BY <1>3, <2>2, Zenon
  <2>6. \A k \in 1 .. L : spt_link'[k].i = spt_written[W - L + k] % 10
    <3>1. \A k \in 1 .. L : k = 1 \/ k \in 2 .. L
      BY <1>3
    <3> QED
      BY <1>3, <1>4, <2>1, <2>2, <3>1, Zenon
  <2>7. SptPackets'
    <3>1. spt_writes' \in 0 .. MaxWrites /\ spt_i' = spt_writes' % 10
      BY <1>1, <1>2, Zenon DEF SptPackets
    <3>2. Len(spt_written') = W /\ spt_written' = spt_written
      BY <1>2 DEF W
    <3> QED
      BY <1>3, <1>7, <2>2, <2>4, <2>5, <2>6, <3>1, <3>2, Zenon DEF SptPackets
  <2> QED
    BY <1>1, <1>2, <2>7 DEF SptInv, SptTypes
<1>9. CASE ~(spt_keeps /\ pkt.left > ReadLen)
  <2>1. spt_link' = Tail(spt_link)
    BY <1>2, <1>9
  <2>2. spt_link' \in Seq(SptPacket) /\ Len(spt_link') = L - 1
        /\ \A k \in 1 .. L - 1 : spt_link'[k] = spt_link[k + 1]
    BY <1>6, <2>1, Zenon
  <2>3. \A k \in 1 .. L - 1 : spt_link'[k].left = PktLen
    <3>1. \A k \in 1 .. L - 1 : k + 1 \in 2 .. L
      BY <1>3
    <3> QED
      BY <1>3, <2>2, <3>1, Zenon
  <2>4. ~PartlyRead'
    <3>1. ASSUME spt_link' # <<>> PROVE 1 \in 1 .. L - 1
      BY <1>3, <1>4, <2>2, <3>1
    <3> QED
      BY <2>3, <3>1, Zenon DEF PartlyRead
  <2>5. W - L + 1 = W - (L - 1) + 0 /\ L - 1 <= LinkRoom /\ L - 1 <= W
        /\ (\A k \in 2 .. L - 1 : k \in 1 .. L - 1)
        /\ \A k \in 1 .. L - 1 : W - (L - 1) + k = W - L + (k + 1) /\ k + 1 \in 1 .. L
    BY <1>3, SptConstants
  <2>6. \A k \in 1 .. L - 1 : spt_link'[k].i = spt_written[W - (L - 1) + k] % 10
    BY <1>3, <2>2, <2>5, Zenon
  <2>7. SptPackets'
    <3>1. spt_writes' \in 0 .. MaxWrites /\ spt_i' = spt_writes' % 10
      BY <1>1, <1>2, Zenon DEF SptPackets
    <3>2. Len(spt_written') = W /\ spt_written' = spt_written
      BY <1>2 DEF W
    <3>3. Len(spt_got') = Len(spt_written') - Len(spt_link') + (IF PartlyRead' THEN 1 ELSE 0)
      BY <1>7, <2>2, <2>4, <2>5, <3>2, Zenon
    <3> QED
      BY <1>3, <1>7, <2>2, <2>3, <2>5, <2>6, <3>1, <3>2, <3>3, Zenon DEF SptPackets
  <2> QED
    BY <1>1, <1>2, <2>7 DEF SptInv, SptTypes
<1> QED
  BY <1>8, <1>9

LEMMA SptStepKeeps == SptInv /\ [SptNext]_spt_vars => SptInv'
<1> SUFFICES ASSUME SptInv, [SptNext]_spt_vars PROVE SptInv'
  OBVIOUS
<1>1. SptTypes /\ SptPackets
  BY DEF SptInv
<1>2. ASSUME UNCHANGED SptData, SptTypes' PROVE SptInv'
  BY <1>1, <1>2, PacketsStay DEF SptInv
<1>3. CASE SptOpen
  BY <1>1, <1>2, <1>3 DEF SptOpen, SptTypes
<1>4. CASE TxTriesStart
  BY <1>1, <1>2, <1>4 DEF TxTriesStart, SptTypes
<1>5. CASE TxStarted
  BY <1>1, <1>2, <1>5 DEF TxStarted, SptTypes
<1>6. CASE TxStop
  BY <1>1, <1>2, <1>6 DEF TxStop, SptTypes
<1>7. CASE TxWrite
  BY <1>7, TxWriteKeeps
<1>8. CASE RxTriesStart
  BY <1>1, <1>2, <1>8 DEF RxTriesStart, SptTypes
<1>9. CASE RxStarted
  BY <1>1, <1>2, <1>9 DEF RxStarted, SptTypes
<1>10. CASE RxRead
  BY <1>10, RxReadKeeps
<1>11. CASE UNCHANGED spt_vars
  BY <1>1, <1>2, <1>11 DEF spt_vars, SptTypes, SptData
<1> QED
  BY <1>3, <1>4, <1>5, <1>6, <1>7, <1>8, <1>9, <1>10, <1>11, Zenon DEF SptNext, SptTx, SptRx

(* The types of the SpaceWire test (rtems-spwtest-2boards.c) hold for      *)
(* every size of a packet, of a read and of the link.                      *)
THEOREM SptTyping == SptSpec => []SptTypeOK
<1>1. SptInv => SptTypeOK
  BY SptTyped
<1> QED
  BY <1>1, SptInvInit, SptStepKeeps, PTL DEF SptSpec

(* The receiver reads the numbers of the packets that were written, each   *)
(* once and in order, whatever a read leaves of a packet.                  *)
THEOREM NumbersInOrder == SptSpec => []ReadInOrder
<1>1. SptInv => ReadInOrder
  BY SptTyped
<1> QED
  BY <1>1, SptInvInit, SptStepKeeps, PTL DEF SptSpec

-----------------------------------------------------------------------------
(* The flash library touches what it should, for every number and size of  *)
(* sectors.                                                                *)

USE FlashDevice DEF FlashDevice

-----------------------------------------------------------------------------
(* Sectors.  A multiple of the sector size is written as one, as the       *)
(* provers know little of the remainder by a variable.                     *)

LEMMA Multiple ==
  ASSUME NEW a \in Nat
  PROVE  /\ SectorStart(a) = SectorSize * (a \div SectorSize)
         /\ a \div SectorSize \in Nat
         /\ SectorStart(a) \in Nat
         /\ SectorStart(a) <= a /\ a < SectorStart(a) + SectorSize
BY DEF SectorStart

LEMMA Product ==
  ASSUME NEW q \in Nat, NEW r \in Nat, q < r
  PROVE  SectorSize * q + SectorSize <= SectorSize * r
<1>1. PICK d \in Nat : r = q + 1 + d
  <2>1. r - q - 1 \in Nat /\ r = q + 1 + (r - q - 1)
    OBVIOUS
  <2> QED
    BY <2>1
<1>2. SectorSize * r = SectorSize * q + SectorSize + SectorSize * d
  BY <1>1
<1>3. SectorSize * d \in Nat /\ SectorSize * q \in Nat
  OBVIOUS
<1> QED
  BY <1>2, <1>3

LEMMA StartsMonotone ==
  ASSUME NEW a \in Nat, NEW b \in Nat, a <= b
  PROVE  SectorStart(a) <= SectorStart(b)
<1> DEFINE q == a \div SectorSize
           r == b \div SectorSize
<1>1. /\ q \in Nat /\ r \in Nat
      /\ SectorStart(a) = SectorSize * q /\ SectorStart(b) = SectorSize * r
      /\ SectorStart(a) <= a /\ b < SectorStart(b) + SectorSize
      /\ SectorStart(a) \in Nat /\ SectorStart(b) \in Nat
  BY Multiple
<1> HIDE DEF q, r
<1>2. CASE r < q
  <2>1. SectorSize * r + SectorSize <= SectorSize * q
    BY <1>1, <1>2, Product
  <2> QED
    BY <1>1, <2>1
<1>3. CASE q <= r
  <2>1. q = r \/ q < r
    BY <1>1, <1>3
  <2>2. q < r => SectorSize * q + SectorSize <= SectorSize * r
    BY <1>1, Product
  <2> QED
    BY <1>1, <2>1, <2>2
<1> QED
  BY <1>1, <1>2, <1>3

LEMMA Quotient ==
  ASSUME NEW q \in Nat
  PROVE  (SectorSize * q) \div SectorSize = q
<1> DEFINE a == SectorSize * q
           p == a \div SectorSize
<1>1. a \in Nat
  OBVIOUS
<1>2. p \in Nat /\ SectorSize * p \in Nat /\ SectorSize * p <= a /\ a < SectorSize * p + SectorSize
  BY <1>1, Multiple
<1> SUFFICES p = q
  OBVIOUS
<1>3. p < q => SectorSize * p + SectorSize <= SectorSize * q
  BY <1>2, Product
<1>4. q < p => SectorSize * q + SectorSize <= SectorSize * p
  BY <1>2, Product
<1> HIDE DEF p
<1> QED
  BY <1>1, <1>2, <1>3, <1>4

(* The range of an erase that is not refused, in sectors.                  *)
LEMMA EraseRange ==
  ASSUME NEW base \in Device, NEW end \in Nat, EraseChecks(base, end) = 0
  PROVE  /\ \E m \in Nat : SectorStart(end) = base + SectorSize * m
         /\ SectCnt(base, end) * SectorSize = SectorStart(end) - base + SectorSize
         /\ SectorStart(end) \in Nat /\ base <= SectorStart(end)
         /\ SectorStart(end) + SectorSize <= DevEnd
         /\ WholeChip(base, end) => SectorStart(end) + SectorSize = DevEnd
<1> DEFINE S == SectorSize
           first == base \div S
           last  == end \div S
           m     == last - first
           dev   == DevStart \div S
<1>1. base \in Nat /\ base <= end /\ base % S = 0 /\ end < DevEnd /\ DevEnd \in Nat
  BY DEF Device, EraseChecks, DevEnd
<1>2. SectorStart(base) = base
  BY <1>1 DEF SectorStart
<1>3. first \in Nat /\ base = S * first
  BY <1>1, <1>2, Multiple
<1>4. last \in Nat /\ SectorStart(end) = S * last /\ SectorStart(end) <= end /\ SectorStart(end) \in Nat
  BY Multiple
<1>5. base <= SectorStart(end)
  BY <1>1, <1>2, StartsMonotone
<1>6. m \in Nat /\ SectorStart(end) = base + S * m
  <2>1. ~(last < first)
    <3>1. last < first => S * last + S <= S * first
      BY <1>3, <1>4, Product
    <3> HIDE DEF last, first
    <3> QED
      BY <3>1, <1>3, <1>4, <1>5
  <2> HIDE DEF last, first
  <2> QED
    BY <2>1, <1>3, <1>4
<1>7. SectCnt(base, end) = 1 + m
  <2>1. SectorStart(end) - base = S * m
    BY <1>6, <1>1
  <2>2. (S * m) \div S = m
    BY <1>6, Quotient
  <2> QED
    BY <2>1, <2>2 DEF SectCnt
<1>8. SectCnt(base, end) * S = SectorStart(end) - base + S
  <2> HIDE DEF m
  <2> QED
    BY <1>1, <1>6, <1>7
<1>9. SectorStart(end) + S <= DevEnd
  <2>1. dev \in Nat /\ DevStart = S * dev
    BY Multiple DEF SectorStart
  <2>2. DevEnd = S * (dev + SectorCount)
    <3> HIDE DEF dev
    <3> QED
      BY <2>1 DEF DevEnd
  <2>3. last < dev + SectorCount => S * last + S <= S * (dev + SectorCount)
    BY <1>4, <2>1, Product
  <2>4. dev + SectorCount < last => S * (dev + SectorCount) + S <= S * last
    BY <1>4, <2>1, Product
  <2>5. dev + SectorCount # last
    <3> HIDE DEF dev, last
    <3> QED
      BY <1>1, <1>4, <2>2
  <2> HIDE DEF dev, last
  <2> QED
    BY <1>1, <1>4, <2>1, <2>2, <2>3, <2>4, <2>5
<1>10. WholeChip(base, end) => SectorStart(end) + S = DevEnd
  BY <1>1, <1>4, <1>8 DEF WholeChip, DevEnd
<1> QED
  BY <1>4, <1>5, <1>6, <1>8, <1>9, <1>10

(* The sectors with an address of the range are those from its start to    *)
(* the end of the last.                                                    *)
LEMMA TouchedSectors ==
  ASSUME NEW base \in Device, NEW end \in Nat, EraseChecks(base, end) = 0
  PROVE  UNION {SectorOf(SectorStart(a)) : a \in base .. end}
           = base .. SectorStart(end) + SectorSize - 1
<1> DEFINE touched == UNION {SectorOf(SectorStart(a)) : a \in base .. end}
<1>1. base \in Nat /\ base <= end /\ SectorStart(base) = base
  BY DEF Device, EraseChecks, DevEnd, SectorStart
<1>2. SectorStart(end) \in Nat /\ SectorStart(end) <= end
  BY Multiple
<1>3. ASSUME NEW a \in base .. end, NEW b \in SectorOf(SectorStart(a))
      PROVE  b \in base .. SectorStart(end) + SectorSize - 1
  <2>1. a \in Nat /\ base <= a /\ a <= end
    BY <1>1
  <2>2. SectorStart(base) <= SectorStart(a) /\ SectorStart(a) <= SectorStart(end)
    BY <1>1, <2>1, StartsMonotone
  <2>3. SectorStart(a) \in Nat
    BY <2>1, Multiple
  <2>4. b \in SectorStart(a) .. SectorStart(a) + SectorSize - 1
    BY <1>3 DEF SectorOf
  <2> QED
    BY <1>1, <1>2, <2>2, <2>3, <2>4
<1>4. ASSUME NEW b \in base .. SectorStart(end) + SectorSize - 1
      PROVE  \E a \in base .. end : b \in SectorOf(SectorStart(a))
  <2>1. CASE b <= end
    <3>1. b \in Nat /\ b \in base .. end
      BY <1>1, <1>2, <2>1
    <3>2. b \in SectorOf(SectorStart(b))
      BY <3>1, Multiple DEF SectorOf
    <3> QED
      BY <3>1, <3>2
  <2>2. CASE b > end
    <3>1. b \in SectorOf(SectorStart(end)) /\ end \in base .. end
      BY <1>1, <1>2, <2>2 DEF SectorOf
    <3> QED
      BY <3>1
  <2> QED
    BY <1>1, <1>2, <2>1, <2>2
<1> QED
  BY <1>3, <1>4

-----------------------------------------------------------------------------
(* The invariant.  While a call is under way it says what has been done    *)
(* and what has not, by the place the call has come to.                    *)

CallOK ==
  fl_call \in [op : {"none", "erase", "program"}, start : Nat, end : Nat, byte : FlBytes, ret : -3 .. 1]

Done(from, to, a) == a \in from .. to - 1

ErasingOK ==
  /\ fl_call.start \in Device /\ EraseChecks(fl_call.start, fl_call.end) = 0
  /\ \E k \in Nat : fl_curr = fl_call.start + SectorSize * k
  /\ fl_curr <= SectorStart(fl_call.end)
  /\ WholeChip(fl_call.start, fl_call.end) => fl_curr = fl_call.start
  /\ fl_busy # {} =>
       fl_busy = IF WholeChip(fl_call.start, fl_call.end) THEN Device ELSE SectorOf(fl_curr)
  /\ \A a \in Device :
       fl_mem[a] = IF Done(fl_call.start, fl_curr, a) THEN Erased ELSE fl_before[a]

ProgrammingOK ==
  /\ ProgramChecks(fl_call.start, fl_call.end - fl_call.start) = 0
  /\ fl_busy = {} /\ fl_call.start <= fl_curr /\ fl_curr <= fl_call.end
  /\ \A a \in Device :
       /\ ~Done(fl_call.start, fl_call.end, a) => fl_mem[a] = fl_before[a]
       /\ Done(fl_call.start, fl_curr, a) /\ fl_before[a] = Erased => fl_mem[a] = fl_call.byte
       /\ Done(fl_curr, fl_call.end, a) /\ fl_before[a] = Erased => fl_mem[a] = Erased

FlInv ==
  /\ FlashTypeOK /\ CallOK
  /\ fl_call.ret # Waiting => fl_busy = {} /\ FlashRight
  /\ fl_call.ret = Waiting => \/ fl_call.op = "erase" /\ ErasingOK
                              \/ fl_call.op = "program" /\ ProgrammingOK

LEMMA DeviceFacts ==
  /\ DevEnd \in Nat /\ DevStart < DevEnd /\ DevStart \in Nat
  /\ \A a : a \in Device <=> a \in Nat /\ DevStart <= a /\ a < DevEnd
<1>1. SectorCount * SectorSize \in Nat \ {0}
  OBVIOUS
<1> QED
  BY <1>1 DEF DevEnd, Device

LEMMA FlInvInit == FlashInit => FlInv
<1> SUFFICES ASSUME FlashInit
             PROVE  FlInv
  OBVIOUS
<1>1. fl_call = Idle /\ fl_before = fl_mem /\ fl_mem \in [Device -> FlBytes]
  BY DEF FlashInit, FlBytes, Erased
<1>2. FlashTypeOK /\ CallOK
  BY <1>1, DeviceFacts DEF FlashInit, FlashTypeOK, CallOK, Idle, FlBytes
<1>3. FlashRight
  BY <1>1 DEF FlashRight, Idle, Waiting
<1> QED
  BY <1>1, <1>2, <1>3 DEF FlInv, FlashInit, Idle, Waiting

(* A call begins: it is under way with nothing done, or refused.           *)
LEMMA FlInvEraseCall ==
  ASSUME FlInv, EraseCall
  PROVE  FlInv'
<1>1. PICK base \in Device, end \in Device \cup {DevEnd} :
        LET ret == EraseChecks(base, end) IN
          Begin("erase", base, end, 0, IF ret = 0 THEN Waiting ELSE ret)
  BY DEF EraseCall
<1> DEFINE ret == EraseChecks(base, end)
<1>2. base \in Nat /\ end \in Nat /\ base < DevEnd /\ ret \in {-3, -2, -1, 0}
  BY DeviceFacts DEF EraseChecks
<1>3. /\ fl_call' = [op |-> "erase", start |-> base, end |-> end, byte |-> 0,
                     ret |-> IF ret = 0 THEN Waiting ELSE ret]
      /\ fl_curr' = base /\ fl_before' = fl_mem /\ fl_mem' = fl_mem /\ fl_busy' = fl_busy
      /\ fl_calls < MaxCalls /\ fl_calls' = fl_calls + 1
  BY <1>1 DEF Begin, Returned
<1>4. fl_busy = {} /\ FlashTypeOK
  BY DEF FlInv, EraseCall
<1>5. FlashTypeOK' /\ CallOK'
  BY <1>2, <1>3, <1>4, DeviceFacts DEF FlashTypeOK, CallOK, FlBytes, Waiting
<1>6. ASSUME ret # 0
      PROVE  FlashRight'
  BY <1>2, <1>3, <1>6 DEF FlashRight, Waiting
<1>7. ASSUME ret = 0
      PROVE  ErasingOK'
  <2>1. base <= SectorStart(end)
    BY <1>2, <1>7, EraseRange
  <2>2. base = base + SectorSize * 0
    BY <1>2
  <2>3. \E k \in Nat : fl_curr' = fl_call.start' + SectorSize * k
    BY <1>3, <2>2
  <2>4. \A a \in Device : ~Done(base, base, a)
    BY <1>2, DeviceFacts DEF Done
  <2> QED
    BY <1>2, <1>3, <1>4, <1>7, <2>1, <2>3, <2>4 DEF ErasingOK
<1> QED
  BY <1>2, <1>3, <1>4, <1>5, <1>6, <1>7 DEF FlInv, Waiting

LEMMA FlInvProgramCall ==
  ASSUME FlInv, ProgramCall
  PROVE  FlInv'
<1>1. PICK base \in Device \cup (IF DevStart = 0 THEN {} ELSE {DevStart - 1}),
           length \in 0 .. SectorSize + 1, byte \in FlBytes :
        LET ret == ProgramChecks(base, length) IN
          Begin("program", base, base + length, byte, IF ret = 0 THEN Waiting ELSE ret)
  BY DEF ProgramCall
<1> DEFINE ret == ProgramChecks(base, length)
<1>2. base \in Nat /\ length \in Nat /\ base + length \in Nat /\ base < DevEnd /\ ret \in {-2, -1, 0}
  BY DeviceFacts DEF ProgramChecks
<1>3. /\ fl_call' = [op |-> "program", start |-> base, end |-> base + length, byte |-> byte,
                     ret |-> IF ret = 0 THEN Waiting ELSE ret]
      /\ fl_curr' = base /\ fl_before' = fl_mem /\ fl_mem' = fl_mem /\ fl_busy' = fl_busy
      /\ fl_calls < MaxCalls /\ fl_calls' = fl_calls + 1
  BY <1>1 DEF Begin, Returned
<1>4. fl_busy = {} /\ FlashTypeOK
  BY DEF FlInv, ProgramCall
<1>5. FlashTypeOK' /\ CallOK'
  BY <1>2, <1>3, <1>4, DeviceFacts DEF FlashTypeOK, CallOK, FlBytes, Waiting
<1>6. ASSUME ret # 0
      PROVE  FlashRight'
  BY <1>2, <1>3, <1>6 DEF FlashRight, Waiting
<1>7. ASSUME ret = 0
      PROVE  ProgrammingOK'
  <2>1. base + length - base = length
    BY <1>2
  <2>2. \A a \in Device : ~Done(base, base, a)
    BY <1>2, DeviceFacts DEF Done
  <2> QED
    BY <1>2, <1>3, <1>4, <1>7, <2>1, <2>2 DEF ProgrammingOK
<1> QED
  BY <1>2, <1>3, <1>4, <1>5, <1>6, <1>7 DEF FlInv, Waiting

(* A command is given: the chip is busy with the whole of itself or with   *)
(* the next sector, which is one of the device.                            *)
LEMMA FlInvEraseBegin ==
  ASSUME FlInv, EraseBegin
  PROVE  FlInv'
<1>1. /\ fl_call.op = "erase" /\ fl_call.ret = Waiting /\ ErasingOK /\ FlashTypeOK /\ CallOK
      /\ fl_mem' = fl_mem /\ fl_call' = fl_call /\ fl_curr' = fl_curr
      /\ fl_calls' = fl_calls /\ fl_before' = fl_before
      /\ fl_busy' = IF WholeChip(fl_call.start, fl_call.end) THEN Device ELSE SectorOf(fl_curr)
  BY DEF EraseBegin, FlInv
<1>2. SectorOf(fl_curr) \subseteq Device
  <2>1. SectorStart(fl_call.end) \in Nat /\ SectorStart(fl_call.end) + SectorSize <= DevEnd
    BY <1>1, EraseRange DEF ErasingOK, CallOK
  <2>2. fl_curr \in Nat /\ DevStart <= fl_curr
    <3>1. PICK k \in Nat : fl_curr = fl_call.start + SectorSize * k
      BY <1>1 DEF ErasingOK
    <3>2. SectorSize * k \in Nat /\ fl_call.start \in Nat /\ DevStart <= fl_call.start
      BY <1>1, DeviceFacts DEF ErasingOK
    <3> QED
      BY <3>1, <3>2, DeviceFacts
  <2>3. fl_curr + SectorSize <= DevEnd
    BY <1>1, <2>1, <2>2, DeviceFacts DEF ErasingOK
  <2> QED
    BY <2>2, <2>3, DeviceFacts DEF SectorOf
<1>3. FlashTypeOK' /\ CallOK'
  BY <1>1, <1>2 DEF FlashTypeOK, CallOK
<1>4. ErasingOK'
  BY <1>1 DEF ErasingOK
<1> QED
  BY <1>1, <1>3, <1>4 DEF FlInv, Waiting

(* The chip has done a command.  After the last all sectors of the range   *)
(* are erased; before that one more of them is.                            *)
LEMMA FlInvEraseDone ==
  ASSUME FlInv, EraseDone
  PROVE  FlInv'
<1> DEFINE base == fl_call.start
           end   == fl_call.end
           whole == WholeChip(base, end)
           next  == fl_curr + SectorSize
           last  == whole \/ next = base + SectCnt(base, end) * SectorSize
<1>1. fl_call.ret = Waiting
  BY DEF EraseDone, FlInv
<1>2. fl_call.op = "erase" /\ ErasingOK /\ FlashTypeOK /\ CallOK
  BY <1>1 DEF EraseDone, FlInv, ProgrammingOK
<1>3. /\ fl_mem' = [a \in Device |-> IF a \in fl_busy THEN Erased ELSE fl_mem[a]]
      /\ fl_busy' = {} /\ fl_curr' = next /\ fl_calls' = fl_calls /\ fl_before' = fl_before
      /\ fl_call' = [fl_call EXCEPT !.ret = IF last THEN 0 ELSE Waiting]
      /\ fl_busy = IF whole THEN Device ELSE SectorOf(fl_curr)
  BY <1>2 DEF EraseDone, ErasingOK
<1>4. base \in Device /\ end \in Nat /\ EraseChecks(base, end) = 0
  BY <1>2 DEF ErasingOK, CallOK
<1>5. /\ SectorStart(end) \in Nat /\ SectorStart(end) + SectorSize <= DevEnd
      /\ SectCnt(base, end) * SectorSize = SectorStart(end) - base + SectorSize
      /\ whole => SectorStart(end) + SectorSize = DevEnd
      /\ whole => base = DevStart
  BY <1>4, EraseRange DEF WholeChip
<1>6. PICK m \in Nat : SectorStart(end) = base + SectorSize * m
  BY <1>4, EraseRange
<1>7. PICK k \in Nat : fl_curr = base + SectorSize * k
  BY <1>2 DEF ErasingOK
<1>8. base \in Nat /\ DevStart <= base /\ DevEnd \in Nat /\ SectorSize * k \in Nat /\ SectorSize * m \in Nat
  BY <1>4, DeviceFacts
<1>9. base <= fl_curr /\ fl_curr <= SectorStart(end) /\ fl_curr \in Nat
  BY <1>2, <1>7, <1>8 DEF ErasingOK
<1>10. last <=> whole \/ fl_curr = SectorStart(end)
  <2> DEFINE all == SectCnt(base, end) * SectorSize
  <2>1. base + all = SectorStart(end) + SectorSize
    <3>1. all = SectorStart(end) - base + SectorSize
      BY <1>5
    <3> HIDE DEF all
    <3> QED
      BY <1>5, <1>8, <3>1
  <2>2. next = SectorStart(end) + SectorSize <=> fl_curr = SectorStart(end)
    <3>1. \A x, y \in Nat : x + SectorSize = y + SectorSize <=> x = y
      OBVIOUS
    <3> QED
      BY <1>5, <1>9, <3>1
  <2> HIDE DEF all, next
  <2>3. next = base + all <=> fl_curr = SectorStart(end)
    BY <2>1, <2>2
  <2> QED
    BY <2>3 DEF all
<1>11. FlashTypeOK' /\ CallOK'
  <2>1. next \in 0 .. DevEnd + 1
    BY <1>5, <1>8, <1>9
  <2>2. fl_mem' \in [Device -> FlBytes]
    BY <1>2, <1>3 DEF FlashTypeOK, FlBytes, Erased
  <2>3. /\ fl_call'.op = fl_call.op /\ fl_call'.ret \in {0, Waiting}
        /\ fl_call' \in [op : {"none", "erase", "program"}, start : Nat, end : Nat, byte : FlBytes, ret : -3 .. 1]
    <3> HIDE DEF last
    <3> QED
      BY <1>2, <1>3 DEF CallOK, Waiting
  <2> HIDE DEF next, last
  <2> QED
    BY <1>2, <1>3, <2>1, <2>2, <2>3 DEF FlashTypeOK, CallOK, Waiting
<1>12. fl_call'.start = base /\ fl_call'.end = end /\ fl_call'.op = "erase" /\ fl_call'.ret = IF last THEN 0 ELSE Waiting
  <2> HIDE DEF last
  <2> QED
    BY <1>2, <1>3 DEF CallOK
<1>13. \A a \in Device :
         fl_mem'[a] = IF Done(base, next, a) \/ whole THEN Erased ELSE fl_before[a]
  <2> SUFFICES ASSUME NEW a \in Device
               PROVE  fl_mem'[a] = IF Done(base, next, a) \/ whole THEN Erased ELSE fl_before[a]
    OBVIOUS
  <2>1. a \in Nat
    BY DeviceFacts
  <2>2. fl_mem[a] = IF Done(base, fl_curr, a) THEN Erased ELSE fl_before[a]
    BY <1>2 DEF ErasingOK
  <2>3. fl_mem'[a] = IF a \in fl_busy THEN Erased ELSE fl_mem[a]
    BY <1>3
  <2>4. whole => a \in fl_busy
    BY <1>3
  <2>5. ~whole => (Done(base, next, a) <=> a \in fl_busy \/ Done(base, fl_curr, a))
    <3> HIDE DEF whole
    <3> QED
      BY <1>3, <1>8, <1>9, <2>1, SMTT(30) DEF SectorOf, Done
  <2> HIDE DEF whole, next
  <2> QED
    BY <1>3, <2>2, <2>3, <2>4, <2>5
<1>14. ASSUME ~last
       PROVE  ErasingOK'
  <2>1. ~whole /\ fl_curr # SectorStart(end)
    BY <1>10, <1>14
  <2>2. k < m
    <3>1. m < k => SectorSize * m + SectorSize <= SectorSize * k
      BY Product
    <3> QED
      BY <1>6, <1>7, <1>8, <1>9, <2>1, <3>1
  <2>3. SectorSize * k + SectorSize <= SectorSize * m
    BY <2>2, Product
  <2>4. next <= SectorStart(end)
    BY <1>6, <1>7, <1>8, <2>3
  <2>5. next = base + SectorSize * (k + 1)
    BY <1>7, <1>8
  <2>6. \E j \in Nat : fl_curr' = fl_call'.start + SectorSize * j
    BY <1>3, <1>12, <2>5
  <2>7. \A a \in Device :
          fl_mem'[a] = IF Done(fl_call'.start, fl_curr', a) THEN Erased ELSE fl_before'[a]
    BY <1>3, <1>12, <1>13, <2>1
  <2> HIDE DEF next, last
  <2> QED
    BY <1>3, <1>4, <1>12, <2>1, <2>4, <2>6, <2>7 DEF ErasingOK
<1>15. ASSUME last
       PROVE  FlashRight'
  <2> DEFINE touched == UNION {SectorOf(SectorStart(a)) : a \in base .. end}
  <2>1. touched = base .. SectorStart(end) + SectorSize - 1
    BY <1>4, TouchedSectors
  <2>2. \A a \in Device : a \in touched <=> (Done(base, next, a) \/ whole)
    <3> SUFFICES ASSUME NEW a \in Device
                 PROVE  a \in touched <=> (Done(base, next, a) \/ whole)
      OBVIOUS
    <3>1. a \in Nat /\ DevStart <= a /\ a < DevEnd
      BY DeviceFacts
    <3>2. CASE whole
      <4> HIDE DEF whole, touched
      <4> QED
        BY <1>5, <1>8, <2>1, <3>1, <3>2, SMTT(30)
    <3>3. CASE ~whole
      <4>1. fl_curr = SectorStart(end)
        BY <1>10, <1>15, <3>3
      <4> HIDE DEF whole, touched
      <4> QED
        BY <1>5, <1>8, <2>1, <3>1, <3>3, <4>1, SMTT(30) DEF Done
    <3> QED
      BY <3>2, <3>3
  <2>3. \A a \in Device : IF a \in touched THEN fl_mem'[a] = Erased ELSE fl_mem'[a] = fl_before'[a]
    <3> HIDE DEF touched, next, whole
    <3> QED
      BY <1>3, <1>13, <2>2
  <2> HIDE DEF last
  <2> QED
    BY <1>12, <1>15, <2>3 DEF FlashRight, Waiting
<1> HIDE DEF last
<1> QED
  BY <1>3, <1>11, <1>12, <1>14, <1>15 DEF FlInv, Waiting

(* A byte is programmed and compared, or there is none left.  A byte that  *)
(* was erased becomes what is programmed, and then bit 7 is right at once. *)
LEMMA FlInvProgramByte ==
  ASSUME FlInv, ProgramByte
  PROVE  FlInv'
<1> DEFINE base == fl_call.start
           end   == fl_call.end
           byte  == AndBytes(fl_mem[fl_curr], fl_call.byte)
<1>1. fl_call.op = "program" /\ fl_call.ret = Waiting /\ ProgrammingOK /\ FlashTypeOK /\ CallOK
  BY DEF ProgramByte, FlInv
<1>2. fl_busy' = fl_busy /\ fl_calls' = fl_calls /\ fl_before' = fl_before /\ fl_busy = {}
  BY <1>1 DEF ProgramByte, ProgrammingOK
<1>3. /\ base \in Nat /\ end \in Nat /\ fl_curr \in Nat /\ base <= fl_curr /\ fl_curr <= end
      /\ DevStart <= base /\ end <= DevEnd /\ fl_call.byte \in FlBytes
  <2>1. base \in Nat /\ end \in Nat /\ fl_call.byte \in FlBytes
    BY <1>1 DEF CallOK
  <2>2. base + (end - base) = end
    BY <2>1
  <2> QED
    BY <1>1, <2>1, <2>2, DeviceFacts DEF ProgrammingOK, ProgramChecks, FlashTypeOK
<1>4. CASE fl_curr < end
  <2>1. fl_curr \in Device /\ fl_mem[fl_curr] \in FlBytes
    BY <1>1, <1>3, <1>4, DeviceFacts DEF FlashTypeOK
  <2>2. byte \in FlBytes /\ (fl_mem[fl_curr] = Erased => byte = fl_call.byte)
    BY <1>3, <2>1 DEF AndBytes, FlBytes, Erased
  <2>3. /\ fl_mem' = [fl_mem EXCEPT ![fl_curr] = byte] /\ fl_call' = fl_call
        /\ fl_curr' = IF Bit7(byte) = Bit7(fl_call.byte) THEN fl_curr + 1 ELSE fl_curr
    BY <1>1, <1>4 DEF ProgramByte
  <2>4. /\ \A a \in Device : a # fl_curr => fl_mem'[a] = fl_mem[a]
        /\ fl_mem'[fl_curr] = byte /\ fl_mem' \in [Device -> FlBytes]
    BY <1>1, <2>1, <2>2, <2>3 DEF FlashTypeOK
  <2>5. fl_before[fl_curr] = Erased => byte = fl_call.byte /\ fl_curr' = fl_curr + 1
    <3>1. fl_before[fl_curr] = Erased => fl_mem[fl_curr] = Erased
      BY <1>1, <1>3, <1>4, <2>1 DEF ProgrammingOK, Done
    <3> HIDE DEF byte
    <3> QED
      BY <2>2, <2>3, <3>1
  <2>6. fl_curr' \in Nat /\ fl_curr' \in {fl_curr, fl_curr + 1} /\ fl_curr' <= end
    <3> HIDE DEF byte
    <3> QED
      BY <1>3, <1>4, <2>3
  <2>7. FlashTypeOK' /\ CallOK'
    BY <1>1, <1>2, <1>3, <2>3, <2>4, <2>6, DeviceFacts DEF FlashTypeOK, CallOK
  <2>8. \A a \in Device :
          /\ ~Done(base, end, a) => fl_mem'[a] = fl_before[a]
          /\ Done(base, fl_curr', a) /\ fl_before[a] = Erased => fl_mem'[a] = fl_call.byte
          /\ Done(fl_curr', end, a) /\ fl_before[a] = Erased => fl_mem'[a] = Erased
    <3> SUFFICES ASSUME NEW a \in Device
                 PROVE  /\ ~Done(base, end, a) => fl_mem'[a] = fl_before[a]
                        /\ Done(base, fl_curr', a) /\ fl_before[a] = Erased => fl_mem'[a] = fl_call.byte
                        /\ Done(fl_curr', end, a) /\ fl_before[a] = Erased => fl_mem'[a] = Erased
      OBVIOUS
    <3>1. a \in Nat
      BY DeviceFacts
    <3>2. /\ ~Done(base, end, a) => fl_mem[a] = fl_before[a]
          /\ Done(base, fl_curr, a) /\ fl_before[a] = Erased => fl_mem[a] = fl_call.byte
          /\ Done(fl_curr, end, a) /\ fl_before[a] = Erased => fl_mem[a] = Erased
      BY <1>1 DEF ProgrammingOK
    <3> HIDE DEF byte
    <3>3. \A from, to \in Nat : Done(from, to, a) <=> from <= a /\ a < to
      BY <3>1 DEF Done
    <3>4. CASE a = fl_curr
      <4>1. Done(base, end, a) /\ ~(a < fl_curr)
        BY <1>3, <1>4, <3>3, <3>4
      <4>2. Done(fl_curr', end, a) => fl_curr' = fl_curr
        BY <1>3, <2>6, <3>3, <3>4
      <4>3. fl_curr # fl_curr + 1
        BY <1>3
      <4> QED
        BY <2>4, <2>5, <3>4, <4>1, <4>2, <4>3
    <3>5. CASE a # fl_curr
      <4>1. Done(base, fl_curr', a) <=> Done(base, fl_curr, a)
        BY <1>3, <2>6, <3>1, <3>3, <3>5
      <4>2. Done(fl_curr', end, a) <=> Done(fl_curr, end, a)
        BY <1>3, <2>6, <3>1, <3>3, <3>5
      <4> QED
        BY <2>4, <3>2, <3>5, <4>1, <4>2
    <3> QED
      BY <3>4, <3>5
  <2>9. ProgrammingOK'
    <3>1. base <= fl_curr'
      BY <1>3, <2>6
    <3> QED
      BY <1>1, <1>2, <2>3, <2>6, <2>8, <3>1 DEF ProgrammingOK
  <2> QED
    BY <1>1, <2>3, <2>7, <2>9 DEF FlInv, Waiting
<1>5. CASE ~(fl_curr < end)
  <2>1. /\ fl_call' = [fl_call EXCEPT !.ret = 0] /\ fl_mem' = fl_mem /\ fl_curr' = fl_curr
    BY <1>1, <1>5 DEF ProgramByte
  <2>2. /\ fl_call'.op = "program" /\ fl_call'.start = base /\ fl_call'.end = end
        /\ fl_call'.byte = fl_call.byte /\ fl_call'.ret = 0
    BY <1>1, <2>1 DEF CallOK
  <2>3. FlashTypeOK' /\ CallOK'
    BY <1>1, <1>2, <2>1, <2>2 DEF FlashTypeOK, CallOK
  <2>4. fl_curr = end
    BY <1>3, <1>5
  <2>5. \A a \in Device :
          IF a \in base .. end - 1
            THEN fl_mem[a] \in IF fl_before[a] = Erased THEN {fl_call.byte} ELSE FlBytes
            ELSE fl_mem[a] = fl_before[a]
    BY <1>1, <2>4 DEF ProgrammingOK, Done, FlashTypeOK
  <2>6. FlashRight'
    BY <1>2, <2>1, <2>2, <2>5 DEF FlashRight, Waiting
  <2> QED
    BY <1>2, <2>1, <2>2, <2>3, <2>6 DEF FlInv, Waiting
<1> QED
  BY <1>4, <1>5

(* Whatever is called, and wherever a call has come to.                    *)
LEMMA FlStepKeeps == FlInv /\ [FlashNext]_fl_vars => FlInv'
<1> SUFFICES ASSUME FlInv, [FlashNext]_fl_vars
             PROVE  FlInv'
  OBVIOUS
<1>1. CASE EraseCall
  BY <1>1, FlInvEraseCall
<1>2. CASE EraseBegin
  BY <1>2, FlInvEraseBegin
<1>3. CASE EraseDone
  BY <1>3, FlInvEraseDone
<1>4. CASE ProgramCall
  BY <1>4, FlInvProgramCall
<1>5. CASE ProgramByte
  BY <1>5, FlInvProgramByte
<1>6. CASE UNCHANGED fl_vars
  BY <1>6 DEF fl_vars, FlInv, FlashTypeOK, CallOK, FlashRight, ErasingOK, ProgrammingOK
<1> QED
  BY <1>1, <1>2, <1>3, <1>4, <1>5, <1>6 DEF FlashNext

LEMMA FlInvariant == FlashSpec => []FlInv
  BY FlInvInit, FlStepKeeps, PTL DEF FlashSpec

(* Every variable keeps its type: what the chip is told to erase lies in   *)
(* the device, and flashlib never goes past its end.                       *)
THEOREM FlashTyping == FlashSpec => []FlashTypeOK
<1>1. FlInv => FlashTypeOK
  BY DEF FlInv
<1> QED
  BY FlInvariant, <1>1, PTL

(* flashlib_erase erases the sectors its range has an address in and no    *)
(* other, flashlib_program changes its range only, and a call that is      *)
(* refused changes nothing: for any device.                                *)
THEOREM FlashIsRight == FlashSpec => []FlashRight
<1>1. FlInv => FlashRight
  BY DEF FlInv, FlashRight
<1> QED
  BY FlInvariant, <1>1, PTL

-----------------------------------------------------------------------------
(* Start-up of two nodes: the resume comes after the suspend, for every    *)
(* number of looks, every sleep and every delay of task A that is shorter  *)
(* than the sleep.                                                         *)

USE MpTimes DEF MpTimes

Empty == sems = [semA |-> 0, semB |-> 0]

(* Nothing was asked of node 1 yet.                                        *)
NotAsked == taskA = "dormant" /\ node1 # "deleted" /\ Empty

(* What one node is at while the other is somewhere: the semaphores carry  *)
(* the request there and back, and the time task A has taken is the time   *)
(* node 0 has slept.                                                       *)
InStep ==
  /\ node0 \in DOMAIN Waits \cup {"release", "exit"} => NotAsked
  /\ node0 = "obtain" =>
       /\ sleeping = 0
       /\ \/ /\ taskA = "dormant" /\ node1 # "deleted" /\ sems = [semA |-> 1, semB |-> 0]
          \/ /\ taskA = "start" /\ node1 = "deleted" /\ Empty
          \/ /\ taskA \in {"suspend", "suspended"} /\ node1 = "deleted"
             /\ sems = [semA |-> 0, semB |-> 1]
  /\ node0 = "resume" =>
       /\ taskA \in {"suspend", "suspended"} /\ node1 = "deleted" /\ Empty
       /\ taskA = "suspend" => sleeping = SleepTicks - lag
  /\ node0 = "done" => taskA = "woken" /\ node1 = "deleted" /\ Empty
  /\ node0 # "resume" => lag = 0 \/ taskA = "woken"
  /\ node0 \in DOMAIN Waits => timeout > 0

MpInv == MpTypeOK /\ InStep

LEMMA MpInvInit == MpInit => MpInv
BY DEF MpInit, MpInv, MpTypeOK, InStep, NotAsked, Empty, Waits

LEMMA MpInvNext ==
  ASSUME MpInv, [MpNext]_mp_vars
  PROVE  MpInv'
<1> USE DEF MpInv, MpTypeOK, InStep, NotAsked, Empty, Waits
<1>1. CASE Node1Create
  <2>1. /\ node1' \in {"semA", "semB", "obtain"} /\ created' \subseteq {"task", "semA", "semB"}
        /\ created \subseteq created'
    BY <1>1 DEF Node1Create
  <2> QED
    BY <1>1, <2>1 DEF Node1Create
<1>2. CASE Node1Obtain
  BY <1>2 DEF Node1Obtain
<1>3. CASE TaskARelease
  BY <1>3 DEF TaskARelease
<1>4. CASE TaskASuspend
  BY <1>4 DEF TaskASuspend
<1>5. CASE WaitGlobalId
  <2>1. node0 \in {"wait_semA", "wait_semB", "wait_task"} /\ timeout > 0 /\ sleeping = 0
    BY <1>5 DEF WaitGlobalId
  <2>2. /\ node0' \in {"wait_semA", "wait_semB", "wait_task", "release", "exit"}
        /\ timeout' \in 0 .. SemATries + SemBTries + TaskTries /\ sleeping' \in 0 .. SleepTicks
        /\ node0' # "release" /\ node0' # "exit" => timeout' > 0
    BY <1>5, <2>1 DEF WaitGlobalId
  <2> QED
    BY <1>5, <2>1, <2>2 DEF WaitGlobalId
<1>6. CASE Release
  BY <1>6 DEF Release
<1>7. CASE Obtain
  BY <1>7 DEF Obtain
<1>8. CASE Resume
  BY <1>8 DEF Resume
<1>9. CASE Announce
  BY <1>9 DEF Announce
<1>10. CASE Tick
  BY <1>10 DEF Tick
<1>11. CASE UNCHANGED mp_vars
  BY <1>11 DEF mp_vars
<1> QED
  BY <1>1, <1>2, <1>3, <1>4, <1>5, <1>6, <1>7, <1>8, <1>9, <1>10, <1>11
  DEF MpNext, Node0, Node1

(* At every point of the start-up the two nodes are in step, types         *)
(* included.                                                               *)
LEMMA MpInvariant == MpSpec => []MpInv
<1>1. MpInv /\ [MpNext]_mp_vars => MpInv'
  BY MpInvNext
<1> QED
  BY MpInvInit, <1>1, PTL DEF MpSpec

(* Every variable of the two nodes keeps its type: a semaphore never       *)
(* counts more than one, and node 0 knows only objects there are.          *)
THEOREM MpTyping == MpSpec => []MpTypeOK
<1>1. MpInv => MpTypeOK
  BY DEF MpInv
<1> QED
  BY MpInvariant, <1>1, PTL

LEMMA MpResumes == MpInv => ResumeInTime
  BY DEF MpInv, MpTypeOK, InStep, NotAsked, ResumeInTime

(* The resume of rtems-mp.c never fails: when node 0 has slept, task A is  *)
(* suspended.                                                              *)
THEOREM ResumedInTime == MpSpec => []ResumeInTime
<1>1. MpInv => ResumeInTime
  BY MpResumes
<1> QED
  BY MpInvariant, <1>1, PTL

-----------------------------------------------------------------------------
(* Time packets, however many there are and whenever the service routine   *)
(* comes.                                                                  *)

USE CucBounds DEF CucBounds

Packet(n) == [time |-> n, rest |-> n, init |-> n = 1]

(* The packets on the link when none was overtaken.                        *)
FirstSent(n) == [i \in 1 .. n |-> Packet(i)]

(* The number of the last packet on the link, 0 if there is none.          *)
Last == IF on_link = <<>> THEN 0 ELSE on_link[Len(on_link)].rest

(* The task has seen the flag and not yet written the packet.              *)
Under == time_pc \in {"print", "copy", "rest"}
Due == Under \/ (time_pc = "loop" /\ time_tick_tx_wrap)

(* The packet in the buffer is the last that was prepared; while the flag  *)
(* says so, and until it is written, the link has only earlier ones.       *)
Fresh ==
  /\ cuctp_pkt_buf0 = IF prepared = 0 THEN NoPacket ELSE Packet(prepared)
  /\ time_tx_first <=> prepared = 0
  /\ prepared = 0 => time_tick_tx_wrap = FALSE
  /\ Last <= prepared
  /\ (Under \/ time_pc = "clear") => time_tick_tx_wrap = TRUE
  /\ Due => Last < prepared
  /\ time_pc = "rest" => Last < copied.rest /\ copied.rest <= prepared
  /\ time_pc \in {"copy", "rest", "clear"} /\ copied.init => copied.time = 1
  /\ time_pc \in {"link", "irq", "exit"} => on_link = <<>>
  /\ time_pc = "link" => polls > 0
  /\ ~irqs_on => prepared = 0 /\ on_link = <<>>
  /\ time_pc \in {"link", "irq", "exit"} <=> ~irqs_on

(* While none was overtaken a packet is copied as it is, and the link has  *)
(* all of them up to the one that is under way.                            *)
Whole ==
  ~overtaken =>
    /\ time_pc \in {"copy", "rest"} => copied = Packet(prepared)
    /\ on_link = FirstSent(IF Due THEN prepared - 1 ELSE prepared)

Ordered ==
  /\ \A i, k \in DOMAIN on_link : i < k => on_link[i].rest < on_link[k].rest
  /\ \A i \in DOMAIN on_link : on_link[i].init => on_link[i].time = 1

CucInv == CucTypeOK /\ Fresh /\ Whole /\ Ordered

-----------------------------------------------------------------------------
LEMMA SentAppended ==
  ASSUME NEW n \in Nat
  PROVE  Append(FirstSent(n), Packet(n + 1)) = FirstSent(n + 1)
<1> DEFINE S == {Packet(i) : i \in Nat}
<1>1. FirstSent(n) \in Seq(S) /\ Len(FirstSent(n)) = n
  BY DEF FirstSent
<1>2. Packet(n + 1) \in S
  OBVIOUS
<1> DEFINE longer == Append(FirstSent(n), Packet(n + 1))
<1>3. /\ longer \in Seq(S) /\ Len(longer) = n + 1
      /\ \A i \in 1 .. n : longer[i] = FirstSent(n)[i]
      /\ longer[n + 1] = Packet(n + 1)
  <2> HIDE DEF S
  <2> QED
    BY <1>1, <1>2, AppendProperties
<1>4. FirstSent(n + 1) \in Seq(S) /\ Len(FirstSent(n + 1)) = n + 1
  BY SMTT(30) DEF FirstSent
<1>5. \A i \in 1 .. n + 1 : longer[i] = FirstSent(n + 1)[i]
  <2> HIDE DEF longer, S
  <2> QED
    BY <1>3 DEF FirstSent
<1> HIDE DEF S, longer
<1>6. longer = FirstSent(n + 1)
  BY <1>3, <1>4, <1>5, SeqEqual
<1> QED
  BY <1>6 DEF longer

(* A later packet goes to the end of the link.                             *)
LEMMA OrderedAppended ==
  ASSUME CucTypeOK, Ordered, NEW p \in Packets, Last < p.rest, p.init => p.time = 1,
         on_link' = Append(on_link, p)
  PROVE  Ordered' /\ Last' = p.rest
<1> DEFINE n == Len(on_link)
<1>1. on_link \in Seq(Packets) /\ n \in Nat /\ DOMAIN on_link = 1 .. n
  BY DEF CucTypeOK
<1>2. /\ DOMAIN on_link' = 1 .. n + 1 /\ Len(on_link') = n + 1
      /\ on_link'[n + 1] = p
      /\ \A i \in 1 .. n : on_link'[i] = on_link[i]
  BY <1>1, AppendProperties
<1>3. \A i \in 1 .. n : on_link[i] \in Packets
  BY <1>1
<1>4. ASSUME NEW i \in 1 .. n
      PROVE  on_link[i].rest < p.rest
  <2>1. n \in 1 .. n /\ on_link # <<>>
    BY <1>1
  <2>2. Last = on_link[n].rest /\ on_link[n].rest \in Nat /\ on_link[i].rest \in Nat /\ p.rest \in Nat
    BY <1>3, <2>1, SMTT(30) DEF Last, Packets
  <2>3. i < n => on_link[i].rest < on_link[n].rest
    BY <1>1, <2>1 DEF Ordered
  <2>4. i < n \/ i = n
    <3> HIDE DEF n
    <3> QED
      BY <1>1
  <2> QED
    BY <2>2, <2>3, <2>4, SMTT(30)
<1>5. \A i, k \in 1 .. n + 1 : i < k => on_link'[i].rest < on_link'[k].rest
  <2> SUFFICES ASSUME NEW i \in 1 .. n + 1, NEW k \in 1 .. n + 1, i < k
               PROVE  on_link'[i].rest < on_link'[k].rest
    OBVIOUS
  <2>1. i \in 1 .. n /\ (k \in 1 .. n \/ k = n + 1)
    BY <1>1
  <2> QED
    BY <1>1, <1>2, <1>4, <2>1 DEF Ordered
<1>6. \A i \in 1 .. n + 1 : on_link'[i].init => on_link'[i].time = 1
  <2> SUFFICES ASSUME NEW i \in 1 .. n + 1
               PROVE  on_link'[i].init => on_link'[i].time = 1
    OBVIOUS
  <2>1. i \in 1 .. n \/ i = n + 1
    BY <1>1
  <2> QED
    BY <1>1, <1>2, <2>1 DEF Ordered
<1>7. Last' = p.rest
  <2>1. on_link' # <<>>
    BY <1>1, <1>2
  <2> QED
    BY <1>2, <2>1 DEF Last
<1> QED
  BY <1>2, <1>5, <1>6, <1>7 DEF Ordered

LEMMA LastType ==
  ASSUME CucTypeOK
  PROVE  Last \in Nat
<1>1. on_link \in Seq(Packets)
  BY DEF CucTypeOK
<1>2. CASE on_link = <<>>
  BY <1>2 DEF Last
<1>3. CASE on_link # <<>>
  <2>1. Len(on_link) \in 1 .. Len(on_link)
    BY <1>1, <1>3, EmptySeq
  <2>2. on_link[Len(on_link)] \in Packets
    BY <1>1, <2>1, ElementOfSeq
  <2> QED
    BY <1>3, <2>2 DEF Last, Packets
<1> QED
  BY <1>2, <1>3

LEMMA PacketType ==
  ASSUME NEW n \in 0 .. MaxPackets
  PROVE  Packet(n) \in Packets /\ NoPacket \in Packets
BY DEF Packet, NoPacket, Packets

-----------------------------------------------------------------------------
LEMMA CucInvInit == CucInit => CucInv
<1> SUFFICES ASSUME CucInit
             PROVE  CucInv
  OBVIOUS
<1>1. CucTypeOK
  <2>1. NoPacket \in Packets /\ on_link \in Seq(Packets)
    BY PacketType, EmptySeq DEF CucInit
  <2>2. {time_tx, irqs_on, time_tx_first, time_tick_tx_wrap, overtaken} \subseteq BOOLEAN
    BY Zenon DEF CucInit
  <2>3. /\ time_pc = "link" /\ polls \in 0 .. MaxPolls /\ prepared \in 0 .. MaxPackets
        /\ {cuctp_pkt_buf0, copied} \subseteq Packets
    BY <2>1 DEF CucInit
  <2> QED
    BY <2>1, <2>2, <2>3 DEF CucTypeOK
<1>2. Last = 0 /\ on_link = <<>>
  BY DEF CucInit, Last
<1>3. Fresh
  BY <1>2 DEF CucInit, Fresh, Under, Due
<1>4. FirstSent(0) = <<>>
  BY DEF FirstSent
<1>5. Whole
  BY <1>2, <1>4 DEF CucInit, Whole, Under, Due
<1>6. Ordered
  BY <1>2 DEF Ordered
<1> QED
  BY <1>1, <1>3, <1>5, <1>6 DEF CucInv

(* Steps that leave the link alone keep its order.                         *)
LEMMA OrderedStays ==
  ASSUME Ordered, UNCHANGED on_link
  PROVE  Ordered' /\ Last' = Last
BY DEF Ordered, Last

LEMMA CucInvNext ==
  ASSUME CucInv, [CucNext]_cuc_vars
  PROVE  CucInv'
<1> USE DEF CucInv
<1>1. Last \in Nat /\ prepared \in Nat /\ prepared <= MaxPackets
  BY LastType DEF CucTypeOK
<1>2. CASE WaitLink
  BY <1>1, <1>2, OrderedStays DEF WaitLink, CucTypeOK, Fresh, Whole, Under, Due
<1>3. CASE EnableIrqs
  BY <1>1, <1>3, OrderedStays DEF EnableIrqs, CucTypeOK, Fresh, Whole, Under, Due
<1>4. CASE TickTxWrap
  <2>1. Ordered' /\ Last' = Last
    BY <1>4, OrderedStays DEF TickTxWrap
  <2>2. prepared' = prepared + 1 /\ prepared' \in 0 .. MaxPackets /\ prepared' # 0
    BY <1>1, <1>4 DEF TickTxWrap
  <2>3. cuctp_pkt_buf0' = Packet(prepared') /\ time_tx_first' = FALSE
    <3>1. cuctp_pkt_buf0' = [time |-> prepared', rest |-> prepared', init |-> time_tx_first] /\ time_tx_first' = FALSE
      BY <1>4 DEF TickTxWrap, CreatePacket
    <3>2. time_tx_first = (prepared' = 1)
      BY <1>1, <2>2 DEF Fresh, CucTypeOK
    <3> QED
      BY <3>1, <3>2 DEF Packet
  <2>4. CucTypeOK'
    BY <1>4, <2>2, <2>3, PacketType DEF TickTxWrap, CucTypeOK
  <2>5. Fresh'
    BY <1>1, <1>4, <2>1, <2>2, <2>3, <2>4 DEF TickTxWrap, Fresh, Under, Due, CucTypeOK, Packets
  <2>6. Whole'
    <3>1. ~overtaken' => ~overtaken /\ ~time_tick_tx_wrap
      BY <1>4 DEF TickTxWrap
    <3>2. prepared' - 1 = prepared
      BY <1>1, <2>2
    <3>3. ~overtaken' => time_pc = "loop"
      BY <1>4, <3>1 DEF TickTxWrap, Fresh, Under, CucTypeOK
    <3> QED
      BY <1>4, <3>1, <3>2, <3>3 DEF TickTxWrap, Whole, Under, Due
  <2> QED
    BY <2>1, <2>4, <2>5, <2>6
<1>5. CASE Handling
  BY <1>1, <1>5, OrderedStays DEF Handling, CucTypeOK, Fresh, Whole, Under, Due
<1>6. CASE CopyTime
  <2>1. Ordered' /\ Last' = Last
    BY <1>6, OrderedStays DEF CopyTime
  <2>2. prepared # 0 /\ copied' = Packet(prepared)
    BY <1>6 DEF CopyTime, Fresh, Under, CucTypeOK
  <2> QED
    BY <1>1, <1>6, <2>1, <2>2, PacketType DEF CopyTime, CucTypeOK, Fresh, Whole, Under, Due, Packet
<1>7. CASE CopyRest
  <2>1. Ordered' /\ Last' = Last
    BY <1>7, OrderedStays DEF CopyRest
  <2>2. prepared # 0 /\ cuctp_pkt_buf0 = Packet(prepared) /\ Last < prepared
    BY <1>7 DEF CopyRest, Fresh, Under, Due, CucTypeOK
  <2>3. /\ copied'.rest = prepared /\ copied'.init = copied.init /\ copied'.time = copied.time
        /\ copied' \in Packets
    BY <1>1, <1>7, <2>2 DEF CopyRest, CucTypeOK, Packets, Packet
  <2>4. copied = Packet(prepared) => copied' = Packet(prepared)
    BY <1>7, <2>2 DEF CopyRest, Packet
  <2> QED
    BY <1>1, <1>7, <2>1, <2>2, <2>3, <2>4 DEF CopyRest, CucTypeOK, Fresh, Whole, Under, Due
<1>8. CASE LinkTakes
  <2>1. /\ copied \in Packets /\ Last < copied.rest /\ copied.rest <= prepared
        /\ copied.init => copied.time = 1
        /\ on_link' = Append(on_link, copied)
    BY <1>8 DEF LinkTakes, Fresh, CucTypeOK
  <2>2. Ordered' /\ Last' = copied.rest
    BY <2>1, OrderedAppended
  <2>3. CucTypeOK'
    BY <1>8, <2>1 DEF LinkTakes, CucTypeOK
  <2>4. Fresh'
    BY <1>1, <1>8, <2>1, <2>2 DEF LinkTakes, Fresh, Under, Due
  <2>5. Whole'
    <3>1. ~overtaken => copied = Packet(prepared) /\ on_link = FirstSent(prepared - 1)
      BY <1>8 DEF LinkTakes, Whole, Under, Due
    <3>2. prepared - 1 \in Nat /\ (prepared - 1) + 1 = prepared
      BY <1>1, <1>8 DEF LinkTakes, Fresh, Under, Due
    <3>3. Append(FirstSent(prepared - 1), Packet(prepared)) = FirstSent(prepared)
      BY <3>2, SentAppended
    <3> QED
      BY <1>8, <2>1, <3>1, <3>3 DEF LinkTakes, Whole, Under, Due
  <2> QED
    BY <2>2, <2>3, <2>4, <2>5
<1>9. CASE ClearFlag
  BY <1>1, <1>9, OrderedStays DEF ClearFlag, CucTypeOK, Fresh, Whole, Under, Due
<1>10. CASE UNCHANGED cuc_vars
  BY <1>1, <1>10, OrderedStays DEF cuc_vars, CucTypeOK, Fresh, Whole, Under, Due
<1> QED
  BY <1>2, <1>3, <1>4, <1>5, <1>6, <1>7, <1>8, <1>9, <1>10 DEF CucNext

LEMMA CucInvariant == CucSpec => []CucInv
<1>1. CucInv /\ [CucNext]_cuc_vars => CucInv'
  BY CucInvNext
<1> QED
  BY CucInvInit, <1>1, PTL DEF CucSpec

(* Every variable keeps its type.                                          *)
THEOREM CucTyping == CucSpec => []CucTypeOK
<1>1. CucInv => CucTypeOK
  BY DEF CucInv
<1> QED
  BY CucInvariant, <1>1, PTL

(* spwcuc_handling sends no packet twice and none out of order, INIT goes  *)
(* with the first only, and as long as no packet comes before the task is  *)
(* done with the last, each is sent and whole.                             *)
THEOREM PacketsRight == CucSpec => []CucPackets
<1>1. CucInv => CucPackets
  BY DEF CucInv, CucPackets, Ordered, Whole, Due, Under, FirstSent, Packet
<1> QED
  BY CucInvariant, <1>1, PTL

-----------------------------------------------------------------------------
(* All the samples together (MCSamples).  Each goes by its own rules, or   *)
(* stands still while another one runs, so its invariant holds.            *)

SamplesInv ==
  /\ EthInv /\ OccanInv /\ LoopInv /\ GrInv /\ CtInv /\ BrmInv /\ B1553Inv /\ CucInv /\ FlInv /\ MpInv
  /\ GpioInv /\ AdcInv /\ AdcShown /\ AdInv /\ SpwInv /\ SptInv

LEMMA SamplesInvInit == SamplesInit => SamplesInv
<1> SUFFICES ASSUME SamplesInit PROVE SamplesInv
  OBVIOUS
<1>1. /\ EthInit /\ OccanInit /\ LoopInit /\ GrInit /\ CtInit /\ BrmInit /\ B1553Init /\ CucInit
      /\ FlashInit /\ MpInit /\ GpioInit /\ AdcInit /\ AdInit /\ SpwInit /\ SptInit
  BY SMT DEF SamplesInit
<1>2. EthInv /\ OccanInv /\ LoopInv /\ GrInv /\ CtInv
  BY <1>1, EthInitInv, OccanInvInit, LoopInitInv, GrInvInit, CtInvInit, Zenon
<1>3. BrmInv /\ B1553Inv /\ CucInv /\ FlInv /\ MpInv
  BY <1>1, BrmInitInv, B1553InitInv, CucInvInit, FlInvInit, MpInvInit, Zenon
<1>4. GpioInv /\ AdcInv /\ AdcShown /\ AdInv /\ SpwInv /\ SptInv
  BY <1>1, GpioInvInit, AdcInitInv, AdcShownInit, AdInitInv, SpwInitInv, SptInvInit, Zenon
<1> QED
  BY <1>2, <1>3, <1>4, Zenon DEF SamplesInv

(* A step of the whole is a step of a sample or leaves it as it was.       *)
LEMMA StepOfEach ==
  ASSUME SamplesNext
  PROVE  /\ [EthNext]_ethvars /\ [OccanNext]_occan_vars /\ [LoopNext]_loop_vars /\ [GrNext]_gr_vars /\ [CtStep]_ct_vars
         /\ [BrmNext]_brm_vars /\ [B1553Read]_b_vars /\ [CucNext]_cuc_vars /\ [FlashNext]_fl_vars /\ [MpNext]_mp_vars
         /\ [GpioNext]_gpio_vars /\ [AdcNext]_adc_vars /\ [AdNext]_ad_vars /\ [SpwNext]_spw_vars /\ [SptNext]_spt_vars
<1>1. [EthNext]_ethvars
  <2>1. CASE sample = "eth"
    BY <2>1, SMT DEF SamplesNext
  <2>2. CASE sample # "eth"
    BY <2>2, Zenon DEF SamplesNext, Others, Still
  <2> QED
    BY <2>1, <2>2
<1>2. [OccanNext]_occan_vars
  <2>1. CASE sample = "occan"
    BY <2>1, SMT DEF SamplesNext
  <2>2. CASE sample # "occan"
    BY <2>2, Zenon DEF SamplesNext, Others, Still
  <2> QED
    BY <2>1, <2>2
<1>3. [LoopNext]_loop_vars
  <2>1. CASE sample = "loop"
    BY <2>1, SMT DEF SamplesNext
  <2>2. CASE sample # "loop"
    BY <2>2, Zenon DEF SamplesNext, Others, Still
  <2> QED
    BY <2>1, <2>2
<1>4. [GrNext]_gr_vars
  <2>1. CASE sample = "grcan"
    BY <2>1, SMT DEF SamplesNext
  <2>2. CASE sample # "grcan"
    BY <2>2, Zenon DEF SamplesNext, Others, Still
  <2> QED
    BY <2>1, <2>2
<1>5. [CtStep]_ct_vars
  <2>1. CASE sample = "timing"
    BY <2>1, SMT DEF SamplesNext
  <2>2. CASE sample # "timing"
    BY <2>2, Zenon DEF SamplesNext, Others, Still
  <2> QED
    BY <2>1, <2>2
<1>6. [BrmNext]_brm_vars
  <2>1. CASE sample = "brm"
    BY <2>1, SMT DEF SamplesNext
  <2>2. CASE sample # "brm"
    BY <2>2, Zenon DEF SamplesNext, Others, Still
  <2> QED
    BY <2>1, <2>2
<1>7. [B1553Read]_b_vars
  <2>1. CASE sample = "b1553"
    BY <2>1, SMT DEF SamplesNext
  <2>2. CASE sample # "b1553"
    BY <2>2, Zenon DEF SamplesNext, Others, Still
  <2> QED
    BY <2>1, <2>2
<1>8. [CucNext]_cuc_vars
  <2>1. CASE sample = "cuc"
    BY <2>1, SMT DEF SamplesNext
  <2>2. CASE sample # "cuc"
    BY <2>2, Zenon DEF SamplesNext, Others, Still
  <2> QED
    BY <2>1, <2>2
<1>9. [FlashNext]_fl_vars
  <2>1. CASE sample = "flash"
    BY <2>1, SMT DEF SamplesNext
  <2>2. CASE sample # "flash"
    BY <2>2, Zenon DEF SamplesNext, Others, Still
  <2> QED
    BY <2>1, <2>2
<1>10. [MpNext]_mp_vars
  <2>1. CASE sample = "mp"
    BY <2>1, SMT DEF SamplesNext
  <2>2. CASE sample # "mp"
    BY <2>2, Zenon DEF SamplesNext, Others, Still
  <2> QED
    BY <2>1, <2>2
<1>11. [GpioNext]_gpio_vars
  <2>1. CASE sample = "gpio"
    BY <2>1, SMT DEF SamplesNext
  <2>2. CASE sample # "gpio"
    BY <2>2, Zenon DEF SamplesNext, Others, Still
  <2> QED
    BY <2>1, <2>2
<1>12. [AdcNext]_adc_vars
  <2>1. CASE sample = "adc"
    BY <2>1, SMT DEF SamplesNext
  <2>2. CASE sample # "adc"
    BY <2>2, Zenon DEF SamplesNext, Others, Still
  <2> QED
    BY <2>1, <2>2
<1>13. [AdNext]_ad_vars
  <2>1. CASE sample = "ad7891"
    BY <2>1, SMT DEF SamplesNext
  <2>2. CASE sample # "ad7891"
    BY <2>2, Zenon DEF SamplesNext, Others, Still
  <2> QED
    BY <2>1, <2>2
<1>14. [SpwNext]_spw_vars
  <2>1. CASE sample = "spw"
    BY <2>1, SMT DEF SamplesNext
  <2>2. CASE sample # "spw"
    BY <2>2, Zenon DEF SamplesNext, Others, Still
  <2> QED
    BY <2>1, <2>2
<1>15. [SptNext]_spt_vars
  <2>1. CASE sample = "spt"
    BY <2>1, SMT DEF SamplesNext
  <2>2. CASE sample # "spt"
    BY <2>2, Zenon DEF SamplesNext, Others, Still
  <2> QED
    BY <2>1, <2>2
<1> QED
  BY <1>1, <1>2, <1>3, <1>4, <1>5, <1>6, <1>7, <1>8, <1>9, <1>10, <1>11, <1>12, <1>13, <1>14, <1>15, Zenon

LEMMA SamplesStepKeeps == SamplesInv /\ [SamplesNext]_vars => SamplesInv'
<1> SUFFICES ASSUME SamplesInv, [SamplesNext]_vars PROVE SamplesInv'
  OBVIOUS
<1>1. /\ [EthNext]_ethvars /\ [OccanNext]_occan_vars /\ [LoopNext]_loop_vars /\ [GrNext]_gr_vars /\ [CtStep]_ct_vars
      /\ [BrmNext]_brm_vars /\ [B1553Read]_b_vars /\ [CucNext]_cuc_vars /\ [FlashNext]_fl_vars /\ [MpNext]_mp_vars
      /\ [GpioNext]_gpio_vars /\ [AdcNext]_adc_vars /\ [AdNext]_ad_vars /\ [SpwNext]_spw_vars /\ [SptNext]_spt_vars
  <2>1. CASE SamplesNext
    BY <2>1, StepOfEach, Zenon
  <2>2. CASE UNCHANGED vars
    BY <2>2, Zenon DEF vars
  <2> QED
    BY <2>1, <2>2
<1>2. EthInv' /\ OccanInv' /\ LoopInv' /\ GrInv' /\ CtInv'
  <2>1. EthInv'
    BY <1>1, EthStepKeeps, Zenon DEF SamplesInv
  <2>2. OccanInv'
    BY <1>1, OccanStepKeeps, Zenon DEF SamplesInv
  <2>3. LoopInv'
    BY <1>1, LoopStepKeeps, Zenon DEF SamplesInv
  <2>4. GrInv'
    BY <1>1, GrStepKeeps, Zenon DEF SamplesInv
  <2>5. CtInv'
    BY <1>1, CtStepKeeps, Zenon DEF SamplesInv
  <2> QED
    BY <2>1, <2>2, <2>3, <2>4, <2>5
<1>3. BrmInv' /\ B1553Inv' /\ CucInv' /\ FlInv' /\ MpInv'
  <2>1. BrmInv'
    BY <1>1, BrmStepKeeps, Zenon DEF SamplesInv
  <2>2. B1553Inv'
    BY <1>1, B1553StepKeeps, Zenon DEF SamplesInv
  <2>3. CucInv'
    BY <1>1, CucInvNext, Zenon DEF SamplesInv
  <2>4. FlInv'
    BY <1>1, FlStepKeeps, Zenon DEF SamplesInv
  <2>5. MpInv'
    BY <1>1, MpInvNext, Zenon DEF SamplesInv
  <2> QED
    BY <2>1, <2>2, <2>3, <2>4, <2>5
<1>4. GpioInv' /\ AdcInv' /\ AdcShown' /\ AdInv' /\ SpwInv' /\ SptInv'
  <2>1. GpioInv'
    BY <1>1, GpioStepKeeps, Zenon DEF SamplesInv
  <2>2. AdcInv' /\ AdcShown'
    BY <1>1, AdcStepKeeps, AdcShownStays, Zenon DEF SamplesInv
  <2>3. AdInv'
    BY <1>1, AdStepKeeps, Zenon DEF SamplesInv
  <2>4. SpwInv'
    BY <1>1, SpwStepKeeps, Zenon DEF SamplesInv
  <2>5. SptInv'
    BY <1>1, SptStepKeeps, Zenon DEF SamplesInv
  <2> QED
    BY <2>1, <2>2, <2>3, <2>4, <2>5
<1> QED
  BY <1>2, <1>3, <1>4, Zenon DEF SamplesInv

LEMMA SamplesInvariant == SamplesSpec => []SamplesInv
  BY SamplesInvInit, SamplesStepKeeps, PTL DEF SamplesSpec

(* Of all samples together every variable has its type, for any values of  *)
(* their constants.                                                        *)
THEOREM SamplesTyping == SamplesSpec => []SamplesTypeOK
<1>1. SamplesInv => SamplesTypeOK
  <2> SUFFICES ASSUME SamplesInv PROVE SamplesTypeOK
    OBVIOUS
  <2>1. EthTypeOK /\ OccanTypeOK /\ LoopTypeOK /\ GrTypeOK /\ CtTypeOK
    BY EthTyped, OccanTyped, LoopTyped, GrTyped, CtTyped, Zenon DEF SamplesInv
  <2>2. BrmTypeOK /\ B1553TypeOK /\ CucTypeOK /\ FlashTypeOK /\ MpTypeOK
    BY BrmTyped, B1553Typed, Zenon DEF SamplesInv, CucInv, FlInv, MpInv
  <2>3. GpioTypeOK /\ AdcTypeOK /\ AdTypeOK /\ SpwTypeOK /\ SptTypeOK
    BY AdcTyped, AdTyped, SpwTyped, SptTyped, Zenon DEF SamplesInv, GpioInv
  <2> QED
    BY <2>1, <2>2, <2>3, Zenon DEF SamplesTypeOK
<1> QED
  BY <1>1, SamplesInvariant, PTL

(* And each demo does what it should: the calls of the OCCAN demo come     *)
(* when the driver takes them, the GRCAN receiver follows its sender, the  *)
(* registers found for a bit rate are the closest, B1553RT reports the     *)
(* requests there were, the converters' values are their channels' own,    *)
(* the SpaceWire receivers see what is missing and what is in order, and   *)
(* the resume of the two nodes comes in time.                              *)
THEOREM DemosAreRight == SamplesSpec => []DemosRight
<1>1. SamplesInv => DemosRight
  <2> SUFFICES ASSUME SamplesInv PROVE DemosRight
    OBVIOUS
  <2>1. OccanSetUp /\ GrSyncs /\ TimingBest /\ B1553Report
    BY OccanTyped, GrSynced, CtBest, B1553Reported, Zenon DEF SamplesInv
  <2>2. AdcRight /\ AdRight /\ SpwErrors /\ ResumeInTime /\ ReadInOrder
    BY FilterWithin, AdPrints, SptTyped, MpResumes, Zenon DEF SamplesInv, SpwInv
  <2> QED
    BY <2>1, <2>2, Zenon DEF DemosRight
<1> QED
  BY <1>1, SamplesInvariant, PTL
=============================================================================

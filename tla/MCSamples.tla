----------------------------- MODULE MCSamples -----------------------------
(***************************************************************************)
(* Small instances of the samples that have nothing to do with each other: *)
(* a behaviour is one of the sample it has chosen at the start.            *)
(***************************************************************************)
EXTENDS EthLog, OccanDemo, CanLoop, GrCan, CanTiming, Brm, B1553Rt, CucTime, Flash, MpStartup,
        GpioTest, AdcDemo, Ad7891, SpwDemo, SpwTest

VARIABLE sample

Samples == {"eth", "occan", "loop", "grcan", "timing", "brm", "b1553", "cuc", "flash", "mp",
            "gpio", "adc", "ad7891", "spw", "spt"}

Clocks == {16000000, 20000000, 24000000, 25000000, 30000000, 33000000, 40000000, 50000000,
           60000000, 80000000, 100000000, 12345678, 1000000}

vars == <<sample, ethvars, occan_vars, loop_vars, gr_vars, ct_vars, brm_vars, b_vars, cuc_vars,
          fl_vars, mp_vars, gpio_vars, adc_vars, ad_vars, spw_vars, spt_vars>>

(* What a sample chooses at its start is fixed while another one runs.     *)
Chosen(s, fixed) == IF sample = s THEN TRUE ELSE fixed

SamplesInit ==
  /\ sample \in Samples
  /\ Chosen("grcan", gr_mode = "two") /\ Chosen("timing", clock_hz = 1000000)
  /\ Chosen("b1553", b_msg = [desc |-> 1, words |-> 0, data |-> "other"])
  /\ Chosen("cuc", time_tx = TRUE) /\ Chosen("flash", fl_mem = [a \in Device |-> 0])
  /\ Chosen("ad7891", ad_user = "single") /\ Chosen("spw", spw_strips = TRUE)
  /\ Chosen("spt", spt_keeps = TRUE)
  /\ EthInit /\ OccanInit /\ LoopInit /\ GrInit /\ CtInit /\ BrmInit /\ B1553Init /\ CucInit
  /\ FlashInit /\ MpInit /\ GpioInit /\ AdcInit /\ AdInit /\ SpwInit /\ SptInit

(* The others stand still.                                                 *)
Still(s, its_vars) == IF sample = s THEN TRUE ELSE UNCHANGED its_vars

Others ==
  /\ UNCHANGED sample
  /\ Still("eth", ethvars)
  /\ Still("occan", occan_vars)
  /\ Still("loop", loop_vars)
  /\ Still("grcan", gr_vars)
  /\ Still("timing", ct_vars)
  /\ Still("brm", brm_vars)
  /\ Still("b1553", b_vars)
  /\ Still("cuc", cuc_vars)
  /\ Still("flash", fl_vars)
  /\ Still("mp", mp_vars)
  /\ Still("gpio", gpio_vars)
  /\ Still("adc", adc_vars)
  /\ Still("ad7891", ad_vars)
  /\ Still("spw", spw_vars)
  /\ Still("spt", spt_vars)

SamplesNext ==
  \/ sample = "eth" /\ EthNext /\ Others
  \/ sample = "occan" /\ OccanNext /\ Others
  \/ sample = "loop" /\ LoopNext /\ Others
  \/ sample = "grcan" /\ GrNext /\ Others
  \/ sample = "timing" /\ CtStep /\ Others
  \/ sample = "brm" /\ BrmNext /\ Others
  \/ sample = "b1553" /\ B1553Read /\ Others
  \/ sample = "cuc" /\ CucNext /\ Others
  \/ sample = "flash" /\ FlashNext /\ Others
  \/ sample = "mp" /\ MpNext /\ Others
  \/ sample = "gpio" /\ GpioNext /\ Others
  \/ sample = "adc" /\ AdcNext /\ Others
  \/ sample = "ad7891" /\ AdNext /\ Others
  \/ sample = "spw" /\ SpwNext /\ Others
  \/ sample = "spt" /\ SptNext /\ Others

(* The fairness of the samples that state one, while they run.             *)
SamplesFairness ==
  /\ WF_ethvars(sample = "eth" /\ ClientStep) /\ WF_ethvars(sample = "eth" /\ ServerStep)
  /\ WF_mp_vars(sample = "mp" /\ Node0) /\ WF_mp_vars(sample = "mp" /\ Node1)
  /\ WF_mp_vars(sample = "mp" /\ Announce) /\ WF_mp_vars(sample = "mp" /\ Tick)
  /\ WF_spt_vars(sample = "spt" /\ SptOpen) /\ WF_spt_vars(sample = "spt" /\ SptTx)
  /\ WF_spt_vars(sample = "spt" /\ SptRx)

SamplesSpec == SamplesInit /\ [][SamplesNext]_vars /\ SamplesFairness

-----------------------------------------------------------------------------
SamplesTypeOK ==
  /\ EthTypeOK /\ OccanTypeOK /\ LoopTypeOK /\ GrTypeOK /\ CtTypeOK /\ BrmTypeOK /\ B1553TypeOK
  /\ CucTypeOK /\ FlashTypeOK /\ MpTypeOK /\ GpioTypeOK /\ AdcTypeOK /\ AdTypeOK /\ SpwTypeOK
  /\ SptTypeOK

(* The OCCAN demo is set up at times the driver takes it, the GRCAN        *)
(* receiver follows its sender, the bit rate calculator finds the closest  *)
(* registers, the B1553RT terminal reports the requests since it last      *)
(* reported, converter values are kept and printed under their own         *)
(* channel, the SpaceWire receivers count the gaps there are and read what *)
(* was written in order, and a node resumes the other's task when it is    *)
(* suspended.                                                              *)
DemosRight ==
  /\ OccanSetUp /\ GrSyncs /\ TimingBest /\ B1553Report
  /\ AdcRight /\ AdRight /\ SpwErrors /\ ReadInOrder /\ ResumeInTime
=============================================================================

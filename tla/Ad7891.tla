------------------------------- MODULE Ad7891 -------------------------------
(***************************************************************************)
(* The driver of the AD7891 converter on SPI (ad7891/spi-ad78xx.c) and the *)
(* demo that reads it (ad7891/rtems-spi-ad7891.c), one channel after the   *)
(* other or periodically.  A transfer sends the command for one channel    *)
(* and brings the value of the channel commanded before it, so the demo    *)
(* prints each value under the channel it asked for last time.  A value is *)
(* the channel it comes from; None is a register nothing was read into.    *)
(***************************************************************************)
EXTENDS Integers, Sequences

CONSTANTS
  AdChannels,  \* channels of the chip (8)
  MaxReads     \* bound: reads of the demo, or calls of another program

ASSUME AdBounds == AdChannels \in Nat \ {0} /\ MaxReads \in Nat

VARIABLES
  ad_user,     \* who uses the driver: "single" or "periodic", the demo's builds, or "calls"
  ad_params,   \* drv_params
  ad_tx,       \* the periodic transmit registers: channels
  ad_rx,       \* the periodic receive registers: values
  ad_next,     \* the register of the next periodic transfer, 0 while they are stopped
  ad_chip,     \* the channel commanded last
  ad_channum, ad_prevchannum,  \* of the demo
  ad_print,    \* the lines of the last read: what was printed under which channel
  ad_failed,   \* history: 2 after a transfer that failed, 1 after the one after it
  ad_refused,  \* history: a stop or a register write was refused, and none obeyed since
  ad_reads     \* reads so far

ad_vars == <<ad_user, ad_params, ad_tx, ad_rx, ad_next, ad_chip, ad_channum, ad_prevchannum,
             ad_print, ad_failed, ad_refused, ad_reads>>

None == -1
AllChans == [i \in 1 .. AdChannels |-> i - 1]

AdInit ==
  /\ ad_user \in {"single", "periodic", "calls"}
  /\ ad_params = [channel |-> 0, periodic_mode |-> 0, channles |-> <<>>, started |-> 0]
  /\ ad_tx = <<>> /\ ad_rx = <<>> /\ ad_next = 0 /\ ad_chip = None
  /\ ad_channum = 0 /\ ad_prevchannum = None /\ ad_print = <<>>
  /\ ad_failed = 0 /\ ad_refused = FALSE /\ ad_reads = 0

-----------------------------------------------------------------------------
(* The calls of the driver: what they return, and the parameters.          *)

(* The address has only the bits for the channels there are.               *)
CommandFor(chan) == chan % AdChannels

ConfigNextChan(params, chan) ==
  IF chan \notin 0 .. AdChannels THEN [rc |-> "invalid", params |-> params]
  ELSE [rc |-> "ok", params |-> [params EXCEPT !.channel = chan]]

PeriodStartAgain(params, cfg) ==              \* mutant: may be started again
  [rc |-> "ok",
   params |-> [params EXCEPT !.periodic_mode = cfg.enable, !.channles = cfg.chans, !.started = 1]]

PeriodStart(params, cfg) ==
  IF params.started = 1 THEN [rc |-> "in_use", params |-> params]
  ELSE [rc |-> "ok",
        params |-> [params EXCEPT !.periodic_mode = cfg.enable, !.channles = cfg.chans, !.started = 1]]

(* spi_ad78xx_periodic_start: the command of each channel goes into a      *)
(* transmit register, and the transfers start; they start as well when the *)
(* registers could not be written, with what the registers hold.           *)
PeriodicStart(params) ==
  \/ /\ ad_refused' = FALSE
     /\ ad_tx' = [i \in DOMAIN params.channles |-> CommandFor(params.channles[i])]
     /\ ad_rx' = [i \in DOMAIN params.channles |-> None]
     /\ ad_next' = IF params.channles = <<>> THEN 0 ELSE 1
  \/ /\ ad_refused' = TRUE /\ UNCHANGED <<ad_tx, ad_rx>>
     /\ ad_next' = IF ad_tx = <<>> THEN 0 ELSE 1

AdStart(cfg) ==
  LET result == PeriodStart(ad_params, cfg) IN
    /\ ad_params' = result.params
    /\ IF result.rc = "ok" /\ cfg.enable = 1
         THEN PeriodicStart(result.params) ELSE UNCHANGED <<ad_tx, ad_rx, ad_next, ad_refused>>

(* The core may refuse to stop; the call does not look.                    *)
AdStop ==
  /\ ad_params' = [ad_params EXCEPT !.started = 0]
  /\ \/ ad_next' = 0 /\ ad_refused' = FALSE
     \/ UNCHANGED ad_next /\ ad_refused' = TRUE
  /\ UNCHANGED <<ad_tx, ad_rx>>

-----------------------------------------------------------------------------
(* Print the values vals, each under the channel before it.                *)
Printed(vals) ==
  /\ ad_print' = [i \in DOMAIN vals |->
                    [label |-> IF i = 1 THEN ad_prevchannum ELSE (ad_channum + i - 2) % AdChannels,
                     chan  |-> vals[i]]]
  /\ ad_prevchannum' = (ad_channum + Len(vals) - 1) % AdChannels
  /\ ad_channum' = (ad_channum + Len(vals)) % AdChannels

AdReadCnt == ad_reads < MaxReads /\ ad_reads' = ad_reads + 1

(* ad7891_single_reads: select the channel, read, and print whatever the   *)
(* read has returned.                                                      *)
SingleRead ==
  /\ ad_user = "single" /\ AdReadCnt
  /\ LET params == ConfigNextChan(ad_params, ad_channum).params IN
       /\ ad_params' = params
       /\ \/ /\ ad_failed' = ad_failed \div 2 /\ ad_chip' = CommandFor(params.channel)
             /\ Printed(<<ad_chip>>)
          \/ /\ ad_failed' = 2 /\ UNCHANGED ad_chip
             /\ Printed(<<None>>)
  /\ UNCHANGED <<ad_user, ad_tx, ad_rx, ad_next, ad_refused>>

(* ad7891_periodic_reads: start, then read all registers again and again,  *)
(* printing zeros where nothing was read.                                  *)
PeriodicConfig ==
  /\ ad_user = "periodic" /\ ad_params.started = 0
  /\ AdStart([enable |-> 1, chans |-> AllChans])
  /\ UNCHANGED <<ad_user, ad_chip, ad_channum, ad_prevchannum, ad_print, ad_failed, ad_reads>>

PeriodicRead ==
  /\ ad_user = "periodic" /\ ad_params.started = 1 /\ AdReadCnt
  /\ \E readable \in {DOMAIN ad_rx, {}} :
       Printed([i \in DOMAIN ad_params.channles |-> IF i \in readable THEN ad_rx[i] ELSE None])
  /\ UNCHANGED <<ad_user, ad_params, ad_tx, ad_rx, ad_next, ad_chip, ad_failed, ad_refused>>

(* A transfer of the periodic mode.                                        *)
PeriodicTransfer ==
  /\ ad_next > 0
  /\ ad_rx' = [ad_rx EXCEPT ![ad_next] = ad_chip]
  /\ ad_chip' = ad_tx[ad_next]
  /\ ad_next' = IF ad_next = Len(ad_tx) THEN 1 ELSE ad_next + 1
  /\ UNCHANGED <<ad_user, ad_params, ad_tx, ad_channum, ad_prevchannum, ad_print, ad_failed,
                 ad_refused, ad_reads>>

(* Another program calls the driver in any order.                          *)
Calls ==
  /\ ad_user = "calls" /\ AdReadCnt
  /\ \/ \E chan \in -1 .. AdChannels + 1 :
          /\ ad_params' = ConfigNextChan(ad_params, chan).params
          /\ UNCHANGED <<ad_tx, ad_rx, ad_next, ad_refused>>
     \/ \E enable \in 0 .. 1, chans \in {<<>>, AllChans, <<AdChannels - 1, 0>>} :
          AdStart([enable |-> enable, chans |-> chans])
     \/ AdStop
  /\ UNCHANGED <<ad_user, ad_chip, ad_channum, ad_prevchannum, ad_print, ad_failed>>

AdNext == SingleRead \/ PeriodicConfig \/ PeriodicRead \/ PeriodicTransfer \/ Calls

AdSpec == AdInit /\ [][AdNext]_ad_vars

-----------------------------------------------------------------------------
AdValues == None .. AdChannels - 1

AdTypeOK ==
  /\ ad_params.channel \in 0 .. AdChannels /\ {ad_params.periodic_mode, ad_params.started} \subseteq 0 .. 1
  /\ ad_tx \in Seq(AdValues \ {None}) /\ ad_rx \in Seq(AdValues) /\ ad_next \in 0 .. Len(ad_tx)
  /\ {ad_chip, ad_prevchannum} \subseteq AdValues /\ ad_channum \in 0 .. AdChannels - 1
  /\ ad_print \in Seq([label : AdValues, chan : AdValues])
  /\ ad_failed \in 0 .. 2 /\ ad_refused \in BOOLEAN /\ ad_reads \in 0 .. MaxReads

(* The demo prints a value under its own channel, with one exception: the  *)
(* value after a transfer that failed, whose command the chip did not get. *)
(* While periodic transfers run their registers are those of the           *)
(* parameters, whatever calls are made meanwhile, unless the core has      *)
(* refused a stop or a register write and obeyed neither since: the driver *)
(* goes on as if it had done both.                                         *)
AdRight ==
  /\ ad_failed = 1 \/ \A i \in DOMAIN ad_print :
       None \in {ad_print[i].label, ad_print[i].chan} \/ ad_print[i].label = ad_print[i].chan
  /\ ad_next > 0 /\ ~ad_refused =>
       /\ ad_params.started = 1 /\ ad_params.periodic_mode = 1
       /\ ad_tx = [i \in DOMAIN ad_params.channles |-> CommandFor(ad_params.channles[i])]
=============================================================================

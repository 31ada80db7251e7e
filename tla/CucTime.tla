------------------------------ MODULE CucTime ------------------------------
(***************************************************************************)
(* The time packets of a time master (1553/time.c): each time the 64 time  *)
(* codes have been through, a service routine puts a packet with the next  *)
(* time into cuctp_pkt_buf0 and sets a flag; the controller's task looks   *)
(* at the flag every tick and sends what the buffer holds.  The buffer is  *)
(* copied in two parts, the time and what follows it, so that a packet may *)
(* be put together of two; its checksum is then wrong.                     *)
(***************************************************************************)
EXTENDS Integers, Sequences

CONSTANTS
  MaxPackets,  \* bound: packets prepared
  MaxPolls     \* how often the link is looked at (100)

ASSUME CucBounds == MaxPackets \in Nat /\ MaxPolls \in Nat \ {0}

VARIABLES
  time_tx,           \* tx: this node is the time master
  time_pc,           \* the task: "link", "irq", "loop", "print", "copy", "rest", "clear" or "exit"
  polls,             \* time_spw_setup: i
  irqs_on,           \* the service routine is registered and the core configured
  time_tx_first,     \* the next packet carries the INIT bit
  time_tick_tx_wrap, \* a packet is to be sent
  cuctp_pkt_buf0,    \* the number of the packet in each part, and its INIT bit
  copied,            \* the part write has already copied
  prepared,          \* packets prepared so far
  on_link,           \* packets written to the link
  overtaken          \* history: a packet came before the task was done with the last

cuc_vars == <<time_tx, time_pc, polls, irqs_on, time_tx_first, time_tick_tx_wrap,
              cuctp_pkt_buf0, copied, prepared, on_link, overtaken>>

NoPacket == [time |-> 0, rest |-> 0, init |-> FALSE]

CucInit ==
  /\ time_tx \in BOOLEAN /\ time_pc = "link" /\ polls = MaxPolls /\ irqs_on = FALSE
  /\ time_tx_first = TRUE /\ time_tick_tx_wrap = FALSE
  /\ cuctp_pkt_buf0 = NoPacket /\ copied = NoPacket
  /\ prepared = 0 /\ on_link = <<>> /\ overtaken = FALSE

(* time_spw_setup: the link has to come up within MaxPolls ticks.          *)
WaitLink ==
  /\ time_pc = "link"
  /\ \/ time_pc' = "irq" /\ UNCHANGED polls
     \/ polls' = polls - 1 /\ time_pc' = IF polls' > 0 THEN "link" ELSE "exit"
  /\ UNCHANGED <<time_tx, irqs_on, time_tx_first, time_tick_tx_wrap, cuctp_pkt_buf0, copied,
                 prepared, on_link, overtaken>>

EnableIrqs ==
  /\ time_pc = "irq" /\ time_pc' = "loop" /\ irqs_on' = TRUE
  /\ UNCHANGED <<time_tx, polls, time_tx_first, time_tick_tx_wrap, cuctp_pkt_buf0, copied,
                 prepared, on_link, overtaken>>

(* The service routine; only a core that sends time has TICK_TX_WRAP.      *)
CreatePacket(n) == [time |-> n, rest |-> n, init |-> time_tx_first]

TickTxWrap ==
  /\ irqs_on /\ time_tx /\ prepared < MaxPackets
  /\ prepared' = prepared + 1
  /\ cuctp_pkt_buf0' = CreatePacket(prepared')
  /\ time_tx_first' = FALSE
  /\ time_tick_tx_wrap' = TRUE
  /\ overtaken' = (overtaken \/ time_tick_tx_wrap)
  /\ UNCHANGED <<time_tx, time_pc, polls, irqs_on, copied, on_link>>

-----------------------------------------------------------------------------
(* spwcuc_handling: print the packet, write it, clear the flag.            *)
Handling ==
  /\ time_pc = "loop" /\ time_tick_tx_wrap /\ time_pc' = "print"
  /\ UNCHANGED <<time_tx, polls, irqs_on, time_tx_first, time_tick_tx_wrap, cuctp_pkt_buf0,
                 copied, prepared, on_link, overtaken>>

CopyTime ==
  /\ time_pc = "print" /\ time_pc' = "copy"
  /\ copied' = cuctp_pkt_buf0
  /\ UNCHANGED <<time_tx, polls, irqs_on, time_tx_first, time_tick_tx_wrap, cuctp_pkt_buf0,
                 prepared, on_link, overtaken>>

CopyRest ==
  /\ time_pc = "copy" /\ time_pc' = "rest"
  /\ copied' = [copied EXCEPT !.rest = cuctp_pkt_buf0.rest]
  /\ UNCHANGED <<time_tx, polls, irqs_on, time_tx_first, time_tick_tx_wrap, cuctp_pkt_buf0,
                 prepared, on_link, overtaken>>

(* The write waits until the link has taken the packet.                    *)
LinkTakes ==
  /\ time_pc = "rest" /\ time_pc' = "clear"
  /\ on_link' = Append(on_link, copied)
  /\ UNCHANGED <<time_tx, polls, irqs_on, time_tx_first, time_tick_tx_wrap, cuctp_pkt_buf0,
                 copied, prepared, overtaken>>

ClearNothing ==                               \* mutant: the flag stays
  /\ time_pc = "clear" /\ time_pc' = "loop"
  /\ UNCHANGED <<time_tx, polls, irqs_on, time_tx_first, time_tick_tx_wrap, cuctp_pkt_buf0, copied,
                 prepared, on_link, overtaken>>

ClearFlag ==
  /\ time_pc = "clear" /\ time_pc' = "loop"
  /\ time_tick_tx_wrap' = FALSE
  /\ UNCHANGED <<time_tx, polls, irqs_on, time_tx_first, cuctp_pkt_buf0, copied,
                 prepared, on_link, overtaken>>

CucNext ==
  \/ WaitLink \/ EnableIrqs \/ TickTxWrap
  \/ Handling \/ CopyTime \/ CopyRest \/ LinkTakes \/ ClearFlag

CucSpec == CucInit /\ [][CucNext]_cuc_vars

-----------------------------------------------------------------------------
Packets == [time : 0 .. MaxPackets, rest : 0 .. MaxPackets, init : BOOLEAN]

CucTypeOK ==
  /\ time_pc \in {"link", "irq", "loop", "print", "copy", "rest", "clear", "exit"}
  /\ polls \in 0 .. MaxPolls /\ prepared \in 0 .. MaxPackets
  /\ {time_tx, irqs_on, time_tx_first, time_tick_tx_wrap, overtaken} \subseteq BOOLEAN
  /\ {cuctp_pkt_buf0, copied} \subseteq Packets /\ on_link \in Seq(Packets)

(* No packet is sent twice and only the first ever prepared carries INIT,  *)
(* whenever the service routine comes.  While the task is done with each   *)
(* packet before the next, every packet is sent, whole.                    *)
CucPackets ==
  /\ \A i, k \in DOMAIN on_link : i < k => on_link[i].rest < on_link[k].rest
  /\ \A i \in DOMAIN on_link : on_link[i].init => on_link[i].time = 1
  /\ ~overtaken /\ time_pc \notin {"print", "copy", "rest"} =>
       LET n == IF time_tick_tx_wrap /\ time_pc = "loop" THEN prepared - 1 ELSE prepared IN
         on_link = [i \in 1 .. n |-> [time |-> i, rest |-> i, init |-> i = 1]]

(* "remember that we have already sent the latest TimePacket": when no     *)
(* packet is to be sent the last one that was prepared has been.           *)
LatestSent ==
  ~time_tick_tx_wrap /\ prepared > 0 => on_link # <<>> /\ on_link[Len(on_link)].rest = prepared
=============================================================================

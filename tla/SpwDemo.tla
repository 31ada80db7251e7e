------------------------------ MODULE SpwDemo ------------------------------
(***************************************************************************)
(* The SpaceWire part of the RASTA demo (rasta/grspw-demo.c): one task     *)
(* sends packets whose bytes count on from packet to packet, the other     *)
(* checks the bytes it receives.  Cores that know virtual channels take    *)
(* the two bytes before the data away.  The link may lose packets.         *)
(***************************************************************************)
EXTENDS Integers, Sequences

CONSTANTS
  PktSize, ByteValues,  \* PKTSIZE (1000), the values of an unsigned char (256)
  SpwRing,              \* packets the driver of the sender takes
  MaxTxPkts, MaxLost    \* bounds: packets sent, packets lost

ASSUME SpwSizes ==
  /\ {PktSize, SpwRing} \subseteq Nat \ {0} /\ ByteValues \in Nat \ {0, 1}
  /\ {MaxTxPkts, MaxLost} \subseteq Nat

VARIABLES
  spw_strips,   \* the core takes virtual channel and dummy away
  spw_task1, spw_task2,  \* "run", or "sleep" after a write or read that failed
  spw_tx_i, tx_pkts,     \* of the sender
  spw_link,     \* packets under way: the first bytes of each
  spw_rx_i, rx_pkts, rx_bytes, rx_errors,  \* of the receiver
  spw_lost,     \* history: packets lost
  spw_run,      \* history: those since the last that came
  spw_gaps      \* history: times others came after packets that were lost, but
                \* for those that leave no gap in the bytes

spw_vars == <<spw_strips, spw_task1, spw_task2, spw_tx_i, tx_pkts, spw_link,
              spw_rx_i, rx_pkts, rx_bytes, rx_errors, spw_lost, spw_run, spw_gaps>>

SpwInit ==
  /\ spw_strips \in BOOLEAN
  /\ spw_task1 = "run" /\ spw_task2 = "run"
  /\ spw_tx_i = 0 /\ tx_pkts = 0 /\ spw_link = <<>>
  /\ spw_rx_i = 0 /\ rx_pkts = 0 /\ rx_bytes = 0 /\ rx_errors = 0
  /\ spw_lost = 0 /\ spw_run = 0 /\ spw_gaps = 0

SpwReceiver == <<spw_task2, spw_rx_i, rx_pkts, rx_bytes, rx_errors, spw_gaps>>

(* The write waits only while the driver takes no more.                    *)
spw_task1_write ==
  /\ spw_task1 = "run" /\ tx_pkts < MaxTxPkts /\ Len(spw_link) < SpwRing
  /\ LET data == [k \in 1 .. 3 |-> (spw_tx_i + k - 1) % ByteValues] IN
       spw_link' = Append(spw_link, IF spw_strips THEN data ELSE <<1, 1>> \o data)
  /\ spw_tx_i' = (spw_tx_i + PktSize) % ByteValues
  /\ tx_pkts' = tx_pkts + 1
  /\ UNCHANGED <<spw_strips, spw_task1, SpwReceiver, spw_lost, spw_run>>

SkippedByOne(pkt) ==                          \* mutant: looks at the first byte only
  IF pkt[1] = 1 THEN 2 ELSE 0

(* How many bytes at the start are no data.                                *)
Skipped(pkt) == IF pkt[1] = 1 /\ pkt[2] = 1 THEN 2 ELSE 0

(* After a byte that is not the one expected the count goes on from it.    *)
spw_task2_read ==
  /\ spw_task2 = "run" /\ spw_link # <<>>
  /\ LET pkt   == Head(spw_link)
         first == pkt[Skipped(pkt) + 1]
         bytes == PktSize + (IF spw_strips THEN 0 ELSE 2)
     IN  /\ rx_errors' = rx_errors + (IF first # spw_rx_i THEN 1 ELSE 0)
         /\ spw_rx_i' = (first + bytes - Skipped(pkt)) % ByteValues
         /\ rx_bytes' = rx_bytes + bytes
  /\ spw_link' = Tail(spw_link)
  /\ rx_pkts' = rx_pkts + 1
  /\ spw_gaps' = spw_gaps + (IF (spw_run * PktSize) % ByteValues # 0 THEN 1 ELSE 0)
  /\ spw_run' = 0
  /\ UNCHANGED <<spw_strips, spw_task1, spw_task2, spw_tx_i, tx_pkts, spw_lost>>

SpwFails ==
  /\ \/ spw_task1 = "run" /\ spw_task1' = "sleep" /\ UNCHANGED spw_task2
     \/ spw_task2 = "run" /\ spw_task2' = "sleep" /\ UNCHANGED spw_task1
  /\ UNCHANGED <<spw_strips, spw_tx_i, tx_pkts, spw_link, spw_rx_i, rx_pkts, rx_bytes, rx_errors,
                 spw_lost, spw_run, spw_gaps>>

SpwLoses ==
  /\ spw_link # <<>> /\ spw_lost < MaxLost
  /\ spw_link' = Tail(spw_link)
  /\ spw_lost' = spw_lost + 1 /\ spw_run' = spw_run + 1
  /\ UNCHANGED <<spw_strips, spw_task1, spw_tx_i, tx_pkts, SpwReceiver>>

SpwNext == spw_task1_write \/ spw_task2_read \/ SpwFails \/ SpwLoses

SpwSpec == SpwInit /\ [][SpwNext]_spw_vars

-----------------------------------------------------------------------------
SpwTypeOK ==
  /\ spw_strips \in BOOLEAN /\ {spw_task1, spw_task2} \subseteq {"run", "sleep"}
  /\ {spw_tx_i, spw_rx_i} \subseteq 0 .. ByteValues - 1 /\ tx_pkts \in 0 .. MaxTxPkts
  /\ spw_link \in Seq(Seq(0 .. ByteValues - 1)) /\ Len(spw_link) <= SpwRing
  /\ {rx_pkts, rx_bytes, rx_errors, spw_gaps} \subseteq Nat
  /\ spw_lost \in 0 .. MaxLost /\ spw_run \in 0 .. spw_lost

(* "data errors" counts the gaps in what was received, whatever the core   *)
(* leaves before the data and wherever packets are lost, except a loss of  *)
(* so many packets that their bytes count round to where they began.       *)
SpwErrors ==
  /\ rx_errors = spw_gaps
  /\ tx_pkts = rx_pkts + spw_lost + Len(spw_link)
  /\ rx_bytes = rx_pkts * (PktSize + (IF spw_strips THEN 0 ELSE 2))
=============================================================================

------------------------------ MODULE SpwTest ------------------------------
(***************************************************************************)
(* The SpaceWire test for two boards (rtems-spwtest-2boards.c): the        *)
(* sender, on one board, brings the link up, takes it down and brings it   *)
(* up again, then sends a numbered packet each second; the receiver, on    *)
(* the other, brings the link up and reads.  A core that was started goes  *)
(* on trying, and the link is up while both are started.                   *)
(***************************************************************************)
EXTENDS Integers, Sequences

CONSTANTS
  PktLen, ReadLen,  \* bytes of a packet and of a read (14, 13)
  LinkRoom,         \* packets the link and the drivers hold
  MaxWrites         \* bound: packets written

ASSUME SpwTestSizes == {PktLen, ReadLen, LinkRoom} \subseteq Nat \ {0} /\ MaxWrites \in Nat

VARIABLES
  spt_keeps,     \* what a read leaves of a packet is there for the next one
  spt_tx, spt_rx,  \* where the tasks are
  spt_on,        \* the cores that are started
  spt_i,         \* i, the number in the packet
  spt_writes,    \* writes so far
  spt_link,      \* packets under way: number, and bytes that were not read
  spt_got,       \* history: the numbers that were read
  spt_written    \* history: the writes that have succeeded

spt_vars == <<spt_keeps, spt_tx, spt_rx, spt_on, spt_i, spt_writes, spt_link, spt_got, spt_written>>

SptInit ==
  /\ spt_keeps \in BOOLEAN
  /\ spt_tx = "open" /\ spt_rx = "open" /\ spt_on = {}
  /\ spt_i = 0 /\ spt_writes = 0 /\ spt_link = <<>> /\ spt_got = <<>> /\ spt_written = <<>>

SptData == <<spt_i, spt_writes, spt_link, spt_got, spt_written>>

LinkUp == spt_on = {"tx", "rx"}

(* A device that cannot be opened or set up ends the program of its board. *)
SptOpen ==
  /\ \/ spt_tx = "open" /\ spt_tx' \in {"start", "exit"} /\ UNCHANGED spt_rx
     \/ spt_rx = "open" /\ spt_rx' \in {"start", "exit"} /\ UNCHANGED spt_tx
  /\ UNCHANGED <<spt_keeps, spt_on, SptData>>

(* The start is tried until it succeeds: the core is on all that time.     *)
TxTriesStart ==
  /\ spt_tx \in {"start", "restart"} /\ "tx" \notin spt_on
  /\ spt_on' = spt_on \cup {"tx"}
  /\ UNCHANGED <<spt_keeps, spt_tx, spt_rx, SptData>>

TxStarted ==
  /\ spt_tx \in {"start", "restart"} /\ LinkUp
  /\ spt_tx' = IF spt_tx = "start" THEN "stop" ELSE "write"
  /\ UNCHANGED <<spt_keeps, spt_rx, spt_on, SptData>>

TxStopStays ==                                \* mutant: is not brought up again
  /\ spt_tx = "stop" /\ spt_tx' = "write"
  /\ spt_on' = spt_on \ {"tx"}
  /\ UNCHANGED <<spt_keeps, spt_rx, SptData>>

TxStop ==
  /\ spt_tx = "stop" /\ spt_tx' = "restart"
  /\ spt_on' = spt_on \ {"tx"}
  /\ UNCHANGED <<spt_keeps, spt_rx, SptData>>

(* A packet; whether or not the write succeeds the next has the next       *)
(* number.                                                                 *)
TxWrite ==
  /\ spt_tx = "write" /\ spt_writes < MaxWrites
  /\ \/ /\ LinkUp /\ Len(spt_link) < LinkRoom
        /\ spt_link' = Append(spt_link, [i |-> spt_i, left |-> PktLen])
        /\ spt_written' = Append(spt_written, spt_writes)
     \/ UNCHANGED <<spt_link, spt_written>>
  /\ spt_writes' = spt_writes + 1
  /\ spt_i' = IF spt_i + 1 > 9 THEN 0 ELSE spt_i + 1
  /\ UNCHANGED <<spt_keeps, spt_tx, spt_rx, spt_on, spt_got>>

RxTriesStart ==
  /\ spt_rx = "start" /\ "rx" \notin spt_on
  /\ spt_on' = spt_on \cup {"rx"}
  /\ UNCHANGED <<spt_keeps, spt_tx, spt_rx, SptData>>

RxStarted ==
  /\ spt_rx = "start" /\ LinkUp
  /\ spt_rx' = "read"
  /\ UNCHANGED <<spt_keeps, spt_tx, spt_on, SptData>>

RxReadRest ==                                 \* mutant: the rest of a packet counts as one
  /\ spt_rx = "read" /\ spt_link # <<>>
  /\ LET pkt == Head(spt_link) IN
       /\ spt_got' = Append(spt_got, pkt.i)
       /\ spt_link' = IF spt_keeps /\ pkt.left > ReadLen
                        THEN <<[pkt EXCEPT !.left = @ - ReadLen]>> \o Tail(spt_link)
                        ELSE Tail(spt_link)
  /\ UNCHANGED <<spt_keeps, spt_tx, spt_rx, spt_on, spt_i, spt_writes, spt_written>>

(* A read; one that fails is tried again.                                  *)
RxRead ==
  /\ spt_rx = "read" /\ spt_link # <<>>
  /\ LET pkt == Head(spt_link) IN
       /\ spt_got' = IF pkt.left = PktLen THEN Append(spt_got, pkt.i) ELSE spt_got
       /\ spt_link' = IF spt_keeps /\ pkt.left > ReadLen
                        THEN <<[pkt EXCEPT !.left = @ - ReadLen]>> \o Tail(spt_link)
                        ELSE Tail(spt_link)
  /\ UNCHANGED <<spt_keeps, spt_tx, spt_rx, spt_on, spt_i, spt_writes, spt_written>>

SptTx == TxTriesStart \/ TxStarted \/ TxStop \/ TxWrite
SptRx == RxTriesStart \/ RxStarted \/ RxRead
SptNext == SptOpen \/ SptTx \/ SptRx

(* The two programs run; the link does not fail for ever.                  *)
SptFairness == WF_spt_vars(SptOpen) /\ WF_spt_vars(SptTx) /\ WF_spt_vars(SptRx)

SptSpec == SptInit /\ [][SptNext]_spt_vars /\ SptFairness

-----------------------------------------------------------------------------
SptTypeOK ==
  /\ spt_keeps \in BOOLEAN /\ spt_on \subseteq {"tx", "rx"} /\ spt_i \in 0 .. 9
  /\ spt_tx \in {"open", "start", "stop", "restart", "write", "exit"}
  /\ spt_rx \in {"open", "start", "read", "exit"} /\ spt_writes \in 0 .. MaxWrites
  /\ spt_link \in Seq([i : 0 .. 9, left : 1 .. PktLen]) /\ Len(spt_link) <= LinkRoom
  /\ spt_got \in Seq(0 .. 9) /\ spt_written \in Seq(0 .. MaxWrites - 1)

(* What was read so far are the numbers of the packets that were written,  *)
(* each once and in order, whatever a read leaves of a packet.             *)
ReadInOrder ==
  /\ Len(spt_got) <= Len(spt_written)
  /\ \A k \in DOMAIN spt_got : spt_got[k] = spt_written[k] % 10

(* "Trying to bring link up again": the sender takes the link down while   *)
(* the receiver may still be waiting for it, and yet, unless a program has *)
(* ended, both get past it to send and to receive, and each number that    *)
(* was written is read, in order.                                          *)
LinksUp ==
  spt_tx = "start" ~>
     \/ "exit" \in {spt_tx, spt_rx}
     \/ /\ spt_tx = "write" /\ spt_rx = "read" /\ LinkUp
        /\ spt_writes = MaxWrites
        /\ spt_got = [k \in DOMAIN spt_written |-> spt_written[k] % 10]
=============================================================================

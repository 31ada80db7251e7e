------------------------------- MODULE GrCan -------------------------------
(***************************************************************************)
(* The GRCAN sample (rtems-grcan.c; rasta/grcan-demo.c is an earlier       *)
(* form): messages 0, 1, 2, 3 are sent over and over, another board sends  *)
(* them back, and each is compared with the one that should come next.     *)
(* Two tasks send and receive ("two"), or one task writes whenever there   *)
(* is nothing to read ("one"), or the other board sends by itself ("rx").  *)
(***************************************************************************)
EXTENDS Integers, Sequences

CONSTANTS
  GrTxLen, GrRxLen,  \* messages the driver holds
  GrReadMax,         \* messages of one read (10)
  MaxGrSent,         \* bound: messages put on the bus
  MaxDrops           \* bound: messages that get lost

ASSUME GrLengths == {GrTxLen, GrRxLen, GrReadMax, MaxGrSent, MaxDrops} \subseteq Nat

VARIABLES
  gr_mode,      \* the variant that was built
  gr_task1,     \* the receiving task: "start", "read", "write" (mode "one") or "ended"
  gr_task2,     \* the sending task: "start", "loop" or "write"
  gr_inited,    \* msgs is filled
  gr_ofs,       \* ofs, of the task that writes
  gr_wcnt,      \* messages of this write the driver has taken
  gr_txq, gr_rxq,   \* messages in the driver
  gr_sent,      \* messages put on the bus so far
  gr_rx,        \* index, rx_syncs and rx_errors
  gr_drops      \* history: messages lost on the bus or by a full driver

gr_vars == <<gr_mode, gr_task1, gr_task2, gr_inited, gr_ofs, gr_wcnt, gr_txq, gr_rxq,
             gr_sent, gr_rx, gr_drops>>

(* What is in msgs[i]: slots 4 to 7 repeat the first four, for a write     *)
(* begins anywhere in those and is four long.  5 stands for all zeroes.    *)
Slot(i) == IF gr_inited THEN i % 4 ELSE 5

GrInit ==
  /\ gr_mode \in {"two", "one", "rx"}
  /\ gr_task1 = "start" /\ gr_task2 = "start" /\ gr_inited = FALSE
  /\ gr_ofs = 0 /\ gr_wcnt = 0 /\ gr_txq = <<>> /\ gr_rxq = <<>> /\ gr_sent = 0
  /\ gr_rx = [index |-> 0, syncs |-> 0, errors |-> 0] /\ gr_drops = 0

(* The tasks start, the receiver first; the sender fills msgs when there   *)
(* is one.                                                                 *)
GrStartRx ==
  /\ gr_task1 = "start" /\ gr_task1' = "read"
  /\ gr_inited' = (gr_mode \in {"one", "rx"})
  /\ UNCHANGED <<gr_mode, gr_task2, gr_ofs, gr_wcnt, gr_txq, gr_rxq, gr_sent, gr_rx, gr_drops>>

GrStartTx ==
  /\ gr_mode = "two" /\ gr_task1 # "start"
  /\ gr_task2 = "start" /\ gr_task2' = "loop"
  /\ gr_inited' = TRUE
  /\ UNCHANGED <<gr_mode, gr_task1, gr_ofs, gr_wcnt, gr_txq, gr_rxq, gr_sent, gr_rx, gr_drops>>

-----------------------------------------------------------------------------
(* Receiving: a message that is not the expected one is looked for among   *)
(* all four, and the index follows it.                                     *)
First(same) == CHOOSE j \in same : \A k \in same : j <= k

VerifiedStays(rx, msg) ==                     \* mutant: counts the loss, does not follow it
  LET same == {j \in 0 .. 3 : msg = Slot(j)} IN
    CASE msg = Slot(rx.index) -> [rx EXCEPT !.index = (@ + 1) % 4]
      [] msg # Slot(rx.index) /\ same # {} ->
           [rx EXCEPT !.index = (@ + 1) % 4, !.syncs = @ + 1]
      [] OTHER -> [rx EXCEPT !.index = (@ + 1) % 4, !.errors = @ + 1]

Verified(rx, msg) ==
  LET same == {j \in 0 .. 3 : msg = Slot(j)} IN
    CASE msg = Slot(rx.index) -> [rx EXCEPT !.index = (@ + 1) % 4]
      [] msg # Slot(rx.index) /\ same # {} ->
           [rx EXCEPT !.index = (First(same) + 1) % 4, !.syncs = @ + 1]
      [] OTHER -> [rx EXCEPT !.index = (@ + 1) % 4, !.errors = @ + 1]

(* The messages of a read, one after the other.                            *)
VerifiedAll(rx, msgs) ==
  LET after[n \in 0 .. Len(msgs)] == IF n = 0 THEN rx ELSE Verified(after[n - 1], msgs[n])
  IN  after[Len(msgs)]

GrRead ==
  /\ gr_task1 = "read" /\ gr_rxq # <<>>
  /\ LET cnt == IF GrReadMax < Len(gr_rxq) THEN GrReadMax ELSE Len(gr_rxq) IN
       /\ gr_rx' = VerifiedAll(gr_rx, SubSeq(gr_rxq, 1, cnt))
       /\ gr_rxq' = SubSeq(gr_rxq, cnt + 1, Len(gr_rxq))
  /\ UNCHANGED <<gr_mode, gr_task1, gr_task2, gr_inited, gr_ofs, gr_wcnt, gr_txq, gr_sent, gr_drops>>

(* A read that gives nothing: where reads wait it failed, and the task     *)
(* does nothing any more.                                                  *)
GrReadNothing ==
  /\ gr_task1 = "read"
  /\ IF gr_mode = "one" THEN gr_task1' = "write" /\ gr_wcnt' = 0
                        ELSE gr_task1' = "ended" /\ UNCHANGED gr_wcnt
  /\ UNCHANGED <<gr_mode, gr_task2, gr_inited, gr_ofs, gr_txq, gr_rxq, gr_sent, gr_rx, gr_drops>>

-----------------------------------------------------------------------------
(* Sending: four messages from ofs on.  The write waits for the driver to  *)
(* take them one by one; an error may end it after any of them.            *)
GrWrite ==
  /\ gr_task2 = "loop" /\ gr_task2' = "write" /\ gr_wcnt' = 0
  /\ UNCHANGED <<gr_mode, gr_task1, gr_inited, gr_ofs, gr_txq, gr_rxq, gr_sent, gr_rx, gr_drops>>

Writing == "write" \in {gr_task1, gr_task2}

GrTake ==
  /\ Writing /\ gr_wcnt < 4 /\ Len(gr_txq) < GrTxLen
  /\ gr_txq' = Append(gr_txq, Slot(gr_ofs + gr_wcnt))
  /\ gr_wcnt' = gr_wcnt + 1
  /\ UNCHANGED <<gr_mode, gr_task1, gr_task2, gr_inited, gr_ofs, gr_rxq, gr_sent, gr_rx, gr_drops>>

GrWrittenWhole ==                             \* mutant: a write that took any took all four
  /\ Writing
  /\ gr_ofs' = gr_ofs
  /\ gr_task1' = IF gr_task1 = "write" THEN "read" ELSE gr_task1
  /\ gr_task2' = IF gr_task2 = "write" THEN "loop" ELSE gr_task2
  /\ UNCHANGED <<gr_mode, gr_inited, gr_wcnt, gr_txq, gr_rxq, gr_sent, gr_rx, gr_drops>>

GrWritten ==
  /\ Writing
  /\ gr_ofs' = IF gr_ofs + gr_wcnt > 3 THEN gr_ofs + gr_wcnt - 4 ELSE gr_ofs + gr_wcnt
  /\ gr_task1' = IF gr_task1 = "write" THEN "read" ELSE gr_task1
  /\ gr_task2' = IF gr_task2 = "write" THEN "loop" ELSE gr_task2
  /\ UNCHANGED <<gr_mode, gr_inited, gr_wcnt, gr_txq, gr_rxq, gr_sent, gr_rx, gr_drops>>

-----------------------------------------------------------------------------
(* A message is sent and comes back, if it is not lost and there is room.  *)
GrBus ==
  /\ gr_sent < MaxGrSent /\ gr_sent' = gr_sent + 1
  /\ \E msg \in IF gr_mode = "rx" THEN {gr_sent % 4} ELSE {gr_txq[i] : i \in DOMAIN gr_txq \cap {1}} :
       \/ Len(gr_rxq) < GrRxLen /\ gr_rxq' = Append(gr_rxq, msg) /\ UNCHANGED gr_drops
       \/ gr_drops < MaxDrops /\ gr_drops' = gr_drops + 1 /\ UNCHANGED gr_rxq
  /\ gr_txq' = IF gr_mode = "rx" THEN gr_txq ELSE Tail(gr_txq)
  /\ UNCHANGED <<gr_mode, gr_task1, gr_task2, gr_inited, gr_ofs, gr_wcnt, gr_rx>>

GrNext ==
  \/ GrStartRx \/ GrStartTx \/ GrRead \/ GrReadNothing
  \/ GrWrite \/ GrTake \/ GrWritten \/ GrBus

GrSpec == GrInit /\ [][GrNext]_gr_vars

-----------------------------------------------------------------------------
GrTypeOK ==
  /\ gr_task1 \in {"start", "read", "write", "ended"} /\ gr_task2 \in {"start", "loop", "write"}
  /\ gr_inited \in BOOLEAN /\ gr_ofs \in 0 .. 3 /\ gr_wcnt \in 0 .. 4
  /\ {gr_txq, gr_rxq} \subseteq Seq(0 .. 3)
  /\ gr_sent \in 0 .. MaxGrSent /\ gr_drops \in 0 .. MaxDrops
  /\ gr_rx \in [index : 0 .. 3, syncs : 0 .. MaxGrSent, errors : 0 .. MaxGrSent]

(* Whatever writes are cut short and however reads and writes alternate,   *)
(* the receiver never sees a message it does not know, and resynchronises  *)
(* no more often than messages were lost ("multiple errors from one        *)
(* dropped message" are what the search avoids).                           *)
GrSyncs == gr_rx.errors = 0 /\ gr_rx.syncs <= gr_drops
=============================================================================

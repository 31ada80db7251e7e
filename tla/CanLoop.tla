------------------------------ MODULE CanLoop ------------------------------
(***************************************************************************)
(* The CAN loop-back demo (rasta/rtems-canloopback.c): one task for each   *)
(* channel sends back, changed, what its channel receives.  All tasks use  *)
(* the one buffer canmsgs.  They have the same priority and no time        *)
(* slices, so a task keeps the processor until it waits in the driver.     *)
(***************************************************************************)
EXTENDS OccanLib, Sequences

CONSTANTS
  LoopChans,                       \* the channels that were found
  CANTSK_RX_LEN, CANTSK_TX_LEN,    \* buffer lengths (128, 512)
  ReadMax,                         \* messages of one read (10)
  MaxCome                          \* bound: messages that ever come on a channel

ASSUME LoopLengths == {CANTSK_RX_LEN, CANTSK_TX_LEN, ReadMax, MaxCome} \subseteq Nat \ {0}
ASSUME LoopNames == "none" \notin LoopChans

VARIABLES
  lb_ch,      \* chans
  lb_pc,      \* where each task is: "speed", "recv" or "send"
  lb_cpu,     \* the task that has the processor, or "none"
  lb_canmsgs, \* canmsgs: the messages of the last read of any task
  lb_left,    \* messages of its canmsgs a task waits to send, 0 if it does not wait
  lb_come,    \* messages that have come on each channel so far
  lb_rxq, lb_txq,    \* messages in the driver
  lb_received, lb_sent,  \* stats
  lb_bus      \* history: the messages that have left each channel

loop_vars == <<lb_ch, lb_pc, lb_cpu, lb_canmsgs, lb_left, lb_come, lb_rxq, lb_txq,
               lb_received, lb_sent, lb_bus>>

(* A message is the channel it came on, its number there, and whether it   *)
(* was changed.                                                            *)
Come(c, n) == [chan |-> c, n |-> n, changed |-> FALSE]
Changed(ms) == [i \in DOMAIN ms |-> [ms[i] EXCEPT !.changed = TRUE]]

LoopInit ==
  /\ lb_ch = [c \in LoopChans |-> Opened(0)]
  /\ lb_pc = [c \in LoopChans |-> "speed"]
  /\ lb_cpu = "none" /\ lb_canmsgs = <<>>
  /\ lb_left = [c \in LoopChans |-> 0]
  /\ lb_come = [c \in LoopChans |-> 0]
  /\ lb_rxq = [c \in LoopChans |-> <<>>] /\ lb_txq = [c \in LoopChans |-> <<>>]
  /\ lb_received = [c \in LoopChans |-> 0] /\ lb_sent = [c \in LoopChans |-> 0]
  /\ lb_bus = [c \in LoopChans |-> <<>>]

Runs(c) == lb_cpu \in {c, "none"}

LoopSetUpBlocks(c) ==                     \* mutant: total blocking mode
  /\ Runs(c) /\ lb_pc[c] = "speed" /\ lb_pc' = [lb_pc EXCEPT ![c] = "recv"]
  /\ LET buf == SetBufLength(SetBtrs(lb_ch[c]).chan, CANTSK_RX_LEN, CANTSK_TX_LEN).chan IN
       lb_ch' = [lb_ch EXCEPT ![c] = Start(SetBlockingMode(buf, TRUE, TRUE).chan).chan]
  /\ UNCHANGED <<lb_cpu, lb_canmsgs, lb_left, lb_come, lb_rxq, lb_txq, lb_received, lb_sent, lb_bus>>

(* The set-up of a task: the library is given the lengths in the order     *)
(* receive, transmit.                                                      *)
LoopSetUp(c) ==
  /\ Runs(c) /\ lb_pc[c] = "speed" /\ lb_pc' = [lb_pc EXCEPT ![c] = "recv"]
  /\ LET buf == SetBufLength(SetBtrs(lb_ch[c]).chan, CANTSK_RX_LEN, CANTSK_TX_LEN).chan IN
       lb_ch' = [lb_ch EXCEPT ![c] = Start(SetBlockingMode(buf, FALSE, TRUE).chan).chan]
  /\ UNCHANGED <<lb_cpu, lb_canmsgs, lb_left, lb_come, lb_rxq, lb_txq, lb_received, lb_sent, lb_bus>>

(* A read that has something to give: the messages are changed where they  *)
(* are.  The task goes on to send them without giving up the processor.    *)
LoopRecv(c) ==
  /\ Runs(c) /\ lb_pc[c] = "recv"
  /\ LET answer == Read(lb_ch[c], ReadMax, Len(lb_rxq[c]))
         cnt    == Got(lb_ch[c], answer)
     IN  IF answer.errno = "blocks" THEN lb_cpu = c /\ lb_cpu' = "none"
                                         /\ UNCHANGED <<lb_pc, lb_canmsgs, lb_left, lb_rxq, lb_received>>
         ELSE IF cnt > 0
           THEN /\ lb_canmsgs' = Changed(SubSeq(lb_rxq[c], 1, cnt))
                /\ lb_rxq' = [lb_rxq EXCEPT ![c] = SubSeq(@, cnt + 1, Len(@))]
                /\ lb_received' = [lb_received EXCEPT ![c] = @ + cnt]
                /\ lb_left' = [lb_left EXCEPT ![c] = cnt]
                /\ lb_cpu' = c /\ lb_pc' = [lb_pc EXCEPT ![c] = "send"]
           ELSE lb_cpu' = "none" /\ UNCHANGED <<lb_pc, lb_canmsgs, lb_left, lb_rxq, lb_received>>
  /\ UNCHANGED <<lb_ch, lb_come, lb_txq, lb_sent, lb_bus>>

(* As many as there is room for are sent, and the others are forgotten;    *)
(* were it to block, the task would wait for room and go on from canmsgs.  *)
LoopSend(c) ==
  /\ Runs(c) /\ lb_pc[c] = "send"
  /\ LET answer == Write(lb_ch[c], lb_left[c], lb_ch[c].txlen - Len(lb_txq[c]))
         sent   == Sent(lb_ch[c], answer)
         n      == IF sent > 0 THEN sent ELSE 0
         from   == Len(lb_canmsgs) - lb_left[c]
         out    == SubSeq(lb_canmsgs, from + 1, from + n)
         waits  == lb_ch[c].d_txblk /\ lb_ch[c].started /\ n < lb_left[c]
     IN  /\ lb_txq' = [lb_txq EXCEPT ![c] = @ \o out]
         /\ lb_sent' = [lb_sent EXCEPT ![c] = @ + n]
         /\ lb_left' = [lb_left EXCEPT ![c] = IF waits THEN @ - n ELSE 0]
         /\ lb_pc' = [lb_pc EXCEPT ![c] = IF waits THEN "send" ELSE "recv"]
         /\ lb_cpu' = IF waits THEN "none" ELSE c
  /\ UNCHANGED <<lb_ch, lb_canmsgs, lb_come, lb_rxq, lb_received, lb_bus>>

(* The bus.                                                                *)
MessageComes(c) ==
  /\ lb_ch[c].started /\ lb_come[c] < MaxCome
  /\ lb_come' = [lb_come EXCEPT ![c] = @ + 1]
  /\ lb_rxq' = IF Len(lb_rxq[c]) < lb_ch[c].rxlen
                 THEN [lb_rxq EXCEPT ![c] = Append(@, Come(c, lb_come'[c]))] ELSE lb_rxq
  /\ UNCHANGED <<lb_ch, lb_pc, lb_cpu, lb_canmsgs, lb_left, lb_txq, lb_received, lb_sent, lb_bus>>

MessageLeaves(c) ==
  /\ lb_ch[c].started /\ lb_txq[c] # <<>>
  /\ lb_txq' = [lb_txq EXCEPT ![c] = Tail(@)]
  /\ lb_bus' = [lb_bus EXCEPT ![c] = Append(@, Head(lb_txq[c]))]
  /\ UNCHANGED <<lb_ch, lb_pc, lb_cpu, lb_canmsgs, lb_left, lb_come, lb_rxq, lb_received, lb_sent>>

LoopNext ==
  \E c \in LoopChans :
    LoopSetUp(c) \/ LoopRecv(c) \/ LoopSend(c) \/ MessageComes(c) \/ MessageLeaves(c)

LoopSpec == LoopInit /\ [][LoopNext]_loop_vars

-----------------------------------------------------------------------------
LoopMsgs == [chan : LoopChans, n : 1 .. MaxCome, changed : BOOLEAN]

LoopTypeOK ==
  /\ lb_ch \in [LoopChans -> Channels({0, CANTSK_RX_LEN, CANTSK_TX_LEN})]
  /\ lb_pc \in [LoopChans -> {"speed", "recv", "send"}]
  /\ lb_cpu \in LoopChans \cup {"none"} /\ lb_canmsgs \in Seq(LoopMsgs)
  /\ lb_left \in [LoopChans -> 0 .. ReadMax]
  /\ {lb_come, lb_received, lb_sent} \subseteq [LoopChans -> 0 .. MaxCome]
  /\ \A c \in LoopChans :
       /\ lb_rxq[c] \in Seq(LoopMsgs) /\ Len(lb_rxq[c]) <= lb_ch[c].rxlen
       /\ lb_txq[c] \in Seq(LoopMsgs) /\ Len(lb_txq[c]) <= lb_ch[c].txlen
       /\ lb_bus[c] \in Seq(LoopMsgs)

(* Although all tasks work in canmsgs, what leaves a channel are messages  *)
(* that came on it, changed, each at most once and in their order; what    *)
(* the statistics call sent has left or will.                              *)
EchoesOwn ==
  \A c \in LoopChans :
    LET out == lb_bus[c] \o lb_txq[c] IN
      /\ \A i \in DOMAIN out : out[i].chan = c /\ out[i].changed
      /\ \A i \in 2 .. Len(out) : out[i - 1].n < out[i].n
      /\ lb_sent[c] = Len(out) /\ lb_sent[c] <= lb_received[c]
=============================================================================

----------------------------- MODULE OccanDemo -----------------------------
(***************************************************************************)
(* The OCCAN sample (rtems-occan.c): task 1 sends on one channel, task 2   *)
(* receives on the other.  Both first try the acceptance filter, then stop *)
(* their channel and set it up again.  oc_pc is the call a task is at, in  *)
(* the order of Calls1 and Calls2; nobody looks at what a set-up returns.  *)
(***************************************************************************)
EXTENDS OccanLib, Sequences

CONSTANTS
  RX_LEN, TX_LEN,  \* TSK1_RX_LEN, TSK1_TX_LEN (32, 8)
  TestMsgs,        \* messages of the filter test (16)
  StopRound,       \* round after which task 1 stops and starts again (10)
  MaxRound         \* bound: rounds of the sending task

(* Each message of the filter test has its own bit of the 29 of an         *)
(* extended identifier.                                                    *)
ASSUME OccanLengths ==
  {RX_LEN, TX_LEN, TestMsgs, StopRound, MaxRound} \subseteq Nat \ {0} /\ TestMsgs <= 29

VARIABLES
  oc_ch,      \* the channel of each task
  oc_pc,      \* the call each task is at
  oc_left,    \* task 1: left
  oc_round,   \* task 1: j
  oc_tries,   \* task 2: tries
  oc_txq,     \* messages in the driver of channel 1
  oc_rxq,     \* messages in the driver of channel 2
  oc_refused, \* history: a set-up or start was refused
  oc_odd      \* history: an odd message was read in the filter test

occan_vars ==
  <<oc_ch, oc_pc, oc_left, oc_round, oc_tries, oc_txq, oc_rxq, oc_refused, oc_odd>>

Calls1 == <<"speed", "blk", "buf", "start", "test", "stats", "stop",
            "btrs", "buf", "blk", "start", "std", "ext", "round">>

Calls2FilterLate ==                       \* mutant: the filter is set when the link is up
  <<"speed", "blk_none", "buf", "start", "filter_even", "test", "stats", "stop",
    "btrs", "buf", "blk_rx", "filter_all", "start", "recv">>

Calls2 == <<"speed", "blk_none", "buf", "filter_even", "start", "test", "stats", "stop",
            "btrs", "buf", "blk_rx", "filter_all", "start", "recv">>

(* The calls that set a channel up.  The lengths go to the library in the  *)
(* order receive, transmit.                                                *)
SetUp(call, chan) ==
  CASE call = "speed"       -> SetSpeed(chan)
    [] call = "btrs"        -> SetBtrs(chan)
    [] call = "buf"         -> SetBufLength(chan, RX_LEN, TX_LEN)
    [] call = "blk"         -> SetBlockingMode(chan, TRUE, TRUE)
    [] call = "blk_none"    -> SetBlockingMode(chan, FALSE, FALSE)
    [] call = "blk_rx"      -> SetBlockingMode(chan, FALSE, TRUE)
    [] call = "filter_even" -> SetFilter(chan, "even")
    [] call = "filter_all"  -> SetFilter(chan, "all")
    [] call = "start"       -> Start(chan)
    [] call = "stop"        -> Stop(chan)
    [] OTHER                -> Returns(0, chan)

SetUpCalls == {"speed", "btrs", "buf", "blk", "blk_none", "blk_rx", "filter_even", "filter_all",
               "start", "stop", "stats"}

-----------------------------------------------------------------------------
(* The acceptance filter of task2_afilter_test: the bits that are set in   *)
(* the four bytes of each.  Bit i of an extended identifier is bit i + 3   *)
(* of the four bytes; a bit of the mask that is set is not compared.       *)
Code == <<{}, {}, {}, {}>>
Mask == <<{1, 3, 5, 7}, {1, 3, 5, 7}, {1, 3, 5, 7}, {0, 1, 2, 3, 5, 7}>>

RegisterBit(bytes, r) == (r % 8) \in bytes[4 - r \div 8]

Passes(id) ==
  \A r \in 3 .. 31 : RegisterBit(Mask, r) \/ (RegisterBit(Code, r) <=> r - 3 \in id)

(* What the even filter does to the other messages is left open.           *)
Accepted(m) ==
  IF oc_ch[2].filter = "all" THEN {TRUE}
  ELSE IF m.kind = "test" THEN {Passes({m.n})}
  ELSE BOOLEAN

-----------------------------------------------------------------------------
OccanInit ==
  /\ oc_ch = [t \in 1 .. 2 |-> Opened(0)]
  /\ oc_pc = [t \in 1 .. 2 |-> 1]
  /\ oc_left = 0 /\ oc_round = 0 /\ oc_tries = 0
  /\ oc_txq = <<>> /\ oc_rxq = <<>>
  /\ oc_refused = FALSE /\ oc_odd = FALSE

Call(t) == IF t = 1 THEN Calls1[oc_pc[1]] ELSE Calls2[oc_pc[2]]
Past(t) == oc_pc' = [oc_pc EXCEPT ![t] = @ + 1]

(* A start empties the queues of the channel.  A stop that fails since the *)
(* channel has gone off the bus does no harm.                              *)
SetUpChannel(t) ==
  /\ Call(t) \in SetUpCalls
  /\ LET result == SetUp(Call(t), oc_ch[t]) IN
       /\ oc_ch' = [oc_ch EXCEPT ![t] = result.chan]
       /\ oc_refused' = (oc_refused \/ (result.ret # 0 /\ Call(t) # "stop"))
  /\ oc_txq' = IF t = 1 /\ Call(t) = "start" THEN <<>> ELSE oc_txq
  /\ oc_rxq' = IF t = 2 /\ Call(t) = "start" THEN <<>> ELSE oc_rxq
  /\ oc_left' = IF t = 1 /\ Call(t) = "start" /\ oc_pc[1] = 4 THEN TestMsgs ELSE oc_left
  /\ Past(t)
  /\ UNCHANGED <<oc_round, oc_tries, oc_odd>>

Queued(ms, n) == oc_txq' = oc_txq \o SubSeq(ms, 1, n)
Wr(msgcnt) == Write(oc_ch[1], msgcnt, oc_ch[1].txlen - Len(oc_txq))

(* Task 1 in the filter test: an error ends it.                            *)
SendTest ==
  /\ Call(1) = "test"
  /\ LET answer == Wr(oc_left)
         sent   == Sent(oc_ch[1], answer)
         msgs   == [i \in 1 .. oc_left |-> [kind |-> "test", n |-> TestMsgs - oc_left + i - 1]]
     IN  /\ answer.errno # "blocks"
         /\ IF sent < 0 THEN Past(1) /\ UNCHANGED <<oc_txq, oc_left>>
            ELSE /\ Queued(msgs, sent)
                 /\ oc_left' = oc_left - sent
                 /\ IF oc_left' = 0 THEN Past(1) ELSE UNCHANGED oc_pc
  /\ UNCHANGED <<oc_ch, oc_round, oc_tries, oc_rxq, oc_refused, oc_odd>>

(* One standard message; nobody looks at what the send returns.            *)
SendStd ==
  /\ Call(1) = "std" /\ oc_round < MaxRound
  /\ LET answer == Wr(1) IN
       /\ answer.errno # "blocks"
       /\ Queued(<<[kind |-> "std", n |-> oc_round]>>, IF answer.ret > 0 THEN 1 ELSE 0)
  /\ oc_left' = 3 /\ Past(1)
  /\ UNCHANGED <<oc_ch, oc_round, oc_tries, oc_rxq, oc_refused, oc_odd>>

(* Three extended messages: after an error the loop goes on.               *)
SendExt ==
  /\ Call(1) = "ext"
  /\ LET answer == Wr(oc_left)
         sent   == Sent(oc_ch[1], answer)
         msgs   == [i \in 1 .. oc_left |-> [kind |-> "ext", n |-> 3 - oc_left + i - 1]]
     IN  /\ answer.errno # "blocks"
         /\ IF sent < 0 THEN UNCHANGED <<oc_txq, oc_left, oc_pc>>
            ELSE /\ Queued(msgs, sent)
                 /\ oc_left' = oc_left - sent
                 /\ IF oc_left' = 0 THEN Past(1) ELSE UNCHANGED oc_pc
  /\ UNCHANGED <<oc_ch, oc_round, oc_tries, oc_rxq, oc_refused, oc_odd>>

(* The end of a round: stop and start once, sleep.                         *)
Round ==
  /\ Call(1) = "round"
  /\ oc_round' = oc_round + 1
  /\ oc_pc' = [oc_pc EXCEPT ![1] = 12]
  /\ IF oc_round' = StopRound
       THEN LET started == Start(Stop(oc_ch[1]).chan) IN
              /\ oc_ch' = [oc_ch EXCEPT ![1] = started.chan]
              /\ oc_refused' = (oc_refused \/ started.ret # 0)
              /\ oc_txq' = <<>>
       ELSE UNCHANGED <<oc_ch, oc_refused, oc_txq>>
  /\ UNCHANGED <<oc_left, oc_tries, oc_rxq, oc_odd>>

(* Task 2 in the filter test: five reads that do not wait.                 *)
RecvTest ==
  /\ Call(2) = "test"
  /\ LET got == Got(oc_ch[2], Read(oc_ch[2], TestMsgs, Len(oc_rxq)))
         n   == IF got > 0 THEN got ELSE 0
     IN  /\ oc_rxq' = SubSeq(oc_rxq, n + 1, Len(oc_rxq))
         /\ oc_odd' = (oc_odd \/ \E i \in 1 .. n : oc_rxq[i].kind = "test" /\ oc_rxq[i].n % 2 = 1)
  /\ oc_tries' = oc_tries + 1
  /\ IF oc_tries' = 5 THEN Past(2) ELSE UNCHANGED oc_pc
  /\ UNCHANGED <<oc_ch, oc_left, oc_round, oc_txq, oc_refused>>

Recv ==
  /\ Call(2) = "recv"
  /\ LET answer == Read(oc_ch[2], 3, Len(oc_rxq)) IN
       /\ answer.errno # "blocks"
       /\ oc_rxq' = SubSeq(oc_rxq, (IF answer.ret > 0 THEN answer.ret ELSE 0) + 1, Len(oc_rxq))
  /\ UNCHANGED <<oc_ch, oc_pc, oc_left, oc_round, oc_tries, oc_txq, oc_refused, oc_odd>>

-----------------------------------------------------------------------------
(* The bus.  A message leaves when the other channel is there to           *)
(* acknowledge it; that one may not want it or have no room for it.        *)
Transfer ==
  /\ oc_txq # <<>> /\ oc_ch[1].started /\ oc_ch[2].started
  /\ oc_txq' = Tail(oc_txq)
  /\ \E accepted \in Accepted(Head(oc_txq)) :
       oc_rxq' = IF accepted /\ Len(oc_rxq) < oc_ch[2].rxlen
                   THEN Append(oc_rxq, Head(oc_txq)) ELSE oc_rxq
  /\ UNCHANGED <<oc_ch, oc_pc, oc_left, oc_round, oc_tries, oc_refused, oc_odd>>

(* A channel goes off the bus; a start brings it back.                     *)
BusOff ==
  /\ \E t \in 1 .. 2 :
       /\ oc_ch[t].started
       /\ oc_ch' = [oc_ch EXCEPT ![t].started = FALSE, ![t].busoff = TRUE]
  /\ UNCHANGED <<oc_pc, oc_left, oc_round, oc_tries, oc_txq, oc_rxq, oc_refused, oc_odd>>

Task1 == SetUpChannel(1) \/ SendTest \/ SendStd \/ SendExt \/ Round
Task2 == SetUpChannel(2) \/ RecvTest \/ Recv
OccanNext == Task1 \/ Task2 \/ Transfer \/ BusOff

OccanSpec == OccanInit /\ [][OccanNext]_occan_vars

-----------------------------------------------------------------------------
Msgs == [kind : {"test", "std", "ext"}, n : Nat]

OccanTypeOK ==
  /\ oc_ch \in [1 .. 2 -> Channels({0, RX_LEN, TX_LEN})]
  /\ oc_pc \in [1 .. 2 -> 1 .. 14]
  /\ oc_left \in 0 .. TestMsgs + 3 /\ oc_round \in 0 .. MaxRound /\ oc_tries \in 0 .. 5
  /\ oc_txq \in Seq(Msgs) /\ Len(oc_txq) <= oc_ch[1].txlen
  /\ oc_rxq \in Seq(Msgs) /\ Len(oc_rxq) <= oc_ch[2].rxlen
  /\ {oc_refused, oc_odd} \subseteq BOOLEAN

(* The two rounds of setting a channel up come at times the driver takes   *)
(* them, whatever the other task and the bus do, so the filter test, whose *)
(* task prints "GOT ODD MESSAGE" otherwise, sees no odd message.           *)
OccanSetUp == ~oc_refused /\ ~oc_odd
=============================================================================

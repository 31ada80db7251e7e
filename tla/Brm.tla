--------------------------------- MODULE Brm ---------------------------------
(***************************************************************************)
(* The BRM samples on one bus: the controller (rasta/b1553-demo.c) sends a *)
(* command to each of four subaddresses of terminal 1, waits 20 s and asks *)
(* for the results; the terminal (rtems-brm.c) puts its reply to a command *)
(* where it is asked for; the monitor (rasta/rtems-brm.c) reads what is on *)
(* the bus.  Seconds pass when every task sleeps or waits.                 *)
(***************************************************************************)
EXTENDS BrmLib, Sequences

CONSTANTS
  MaxRound1553,  \* bound: lists of commands that are begun
  MaxFaults,     \* bound: calls that fail, transfers that are lost
  BmLen          \* messages the monitor's driver holds

ASSUME BrmBounds == {MaxRound1553, MaxFaults, BmLen} \subseteq Nat \ {0}

VARIABLES
  bc,       \* the controller: chan, pc ("mode", "block", "cmd" or "result"), sleep,
            \* and j, the message of the list that is next, 0 if none is under way
  rt,       \* the terminal: chan, pc ("off", "mode", "block" or "loop"), sleep, and in its
            \* driver rxq, the descriptors that were served, and tx, what is to be sent
  bmon,     \* the monitor: chan, pc, msgs in its driver
  faults,   \* faults so far
  cmdround, \* lists of commands begun
  results,  \* what result_list holds of each subaddress
  got,      \* history: the round of the last command for each subaddress that came
  refused,  \* history: the subaddresses for whose last command read no reply was taken
  want      \* history: the rounds a result fetched for this list may be of

brm_vars == <<bc, rt, bmon, faults, cmdround, results, got, refused, want>>

MSG_CNT == 4
Subaddrs == 1 .. MSG_CNT

(* The words of a command: 0, 'G', 'R', a number, and zeroes; the last     *)
(* message has nine.                                                       *)
Wc(j) == IF j = MSG_CNT THEN 9 ELSE 8
CmdData(j) == [k \in 1 .. Wc(j) |-> CASE k = 2 -> 71 [] k = 3 -> 82 [] k = 4 -> j - 1 + 7 [] OTHER -> 0]

(* The terminal's "twisted data".                                          *)
Twisted(data) == [k \in DOMAIN data |-> data[k] + k - 1]

Blank == [data |-> <<>>, round |-> 0]

BrmInit ==
  /\ bc = [chan |-> BrmOpened, pc |-> "mode", sleep |-> 0, j |-> 0]
  /\ rt = [chan |-> BrmOpened, pc |-> "off", sleep |-> 0, rxq |-> <<>>,
           tx |-> [j \in Subaddrs |-> Blank]]
  /\ bmon = [chan |-> BrmOpened, pc |-> "mode", msgs |-> 0]
  /\ faults = 0 /\ cmdround = 0
  /\ results = [j \in Subaddrs |-> Blank]
  /\ got = [j \in Subaddrs |-> 0] /\ refused = {} /\ want = [j \in Subaddrs |-> {0}]

(* A driver call does what it should, or fails while faults may happen.    *)
Errno(e) == \/ e = "0" /\ UNCHANGED faults
            \/ e # "0" /\ faults < MaxFaults /\ faults' = faults + 1

-----------------------------------------------------------------------------
(* Setting up; nobody looks at what the library returns.                   *)
BcSetUp ==
  \E e \in {"0", "ENOMEM"} :
    /\ Errno(e)
    /\ \/ bc.pc = "mode" /\ bc' = [bc EXCEPT !.pc = "block", !.chan = SetMode(@, "BC", e).chan]
       \/ bc.pc = "block" /\ bc' = [bc EXCEPT !.pc = "cmd", !.chan = SetBlock(@, TRUE, TRUE, "0", e).chan]
    /\ UNCHANGED <<rt, bmon, cmdround, results, got, refused, want>>

RtSetUp ==
  \E e \in {"0", "EIO"} :
    /\ Errno(e)
    /\ \/ rt.pc = "off" /\ rt' = [rt EXCEPT !.pc = "mode"]
       \/ rt.pc = "mode" /\ rt' = [rt EXCEPT !.pc = "block", !.chan = SetMode(@, "RT", e).chan]
       \/ rt.pc = "block" /\ rt' = [rt EXCEPT !.pc = "loop", !.chan = SetBlock(@, TRUE, FALSE, e, "0").chan]
    /\ UNCHANGED <<bc, bmon, cmdround, results, got, refused, want>>

BmSetUp ==
  /\ \/ bmon.pc = "mode" /\ bmon' = [bmon EXCEPT !.pc = "block", !.chan = SetMode(@, "BM", "0").chan]
     \/ bmon.pc = "block" /\ bmon' = [bmon EXCEPT !.pc = "loop", !.chan = SetBlock(@, TRUE, TRUE, "0", "0").chan]
  /\ UNCHANGED <<bc, rt, faults, cmdround, results, got, refused, want>>

(* Other programs set other options before they start: none of the calls   *)
(* changes a mode.                                                         *)
RtOption ==
  /\ rt.pc = "block"
  /\ \E e \in {"0", "EINVAL"}, on \in BOOLEAN :
       /\ Errno(e)
       /\ \E answer \in {SetBroadcast(rt.chan, on, e), SetBus(rt.chan, e), SetRtAddr(rt.chan, e),
                         SetMsgTimeout(rt.chan, e), SetStd(rt.chan, e)} :
            rt' = [rt EXCEPT !.chan = answer.chan]
  /\ UNCHANGED <<bc, bmon, cmdround, results, got, refused, want>>

-----------------------------------------------------------------------------
(* The controller.                                                         *)

(* proccess_list: the driver took the list, and says it is done.           *)
Listed(result) == DoListWait(bc.chan, "0", result) = 1

BcAwake(pc) == bc.pc = pc /\ bc.sleep = 0

(* A list is handed over; the data of the results are cleared before.       *)
BcList(pc) ==
  /\ BcAwake(pc) /\ bc.j = 0
  /\ pc = "cmd" => cmdround < MaxRound1553
  /\ cmdround' = IF pc = "cmd" THEN cmdround + 1 ELSE cmdround
  /\ results' = [j \in Subaddrs |-> Blank] /\ want' = [j \in Subaddrs |-> {0}]
  /\ \E e \in {"0", "EBUSY"} :
       /\ Errno(e)
       /\ bc' = IF DoList(bc.chan, e) = 0 THEN [bc EXCEPT !.j = 1]
                ELSE [bc EXCEPT !.pc = "cmd", !.sleep = 1]
  /\ UNCHANGED <<rt, bmon, got, refused>>

(* On the bus a message reaches the terminal, and what it or the terminal  *)
(* sent the monitor, or is lost (BC_BAME, which is only printed).          *)
Heard ==
  bmon' = IF bmon.chan.d_mode = "BM" /\ bmon.msgs < BmLen THEN [bmon EXCEPT !.msgs = @ + 1] ELSE bmon

BusCmd ==
  /\ BcAwake("cmd") /\ bc.j \in Subaddrs
  /\ bc' = [bc EXCEPT !.j = @ + 1] /\ Heard
  /\ \/ /\ rt.pc = "loop" /\ UNCHANGED faults
        /\ rt' = [rt EXCEPT !.rxq = Append(@, [desc |-> bc.j, data |-> CmdData(bc.j), round |-> cmdround])]
        /\ got' = [got EXCEPT ![bc.j] = cmdround]
     \/ rt.pc # "loop" /\ UNCHANGED <<faults, rt, got>>
     \/ faults < MaxFaults /\ faults' = faults + 1 /\ UNCHANGED <<rt, got>>
  /\ UNCHANGED <<cmdround, results, refused, want>>

(* Where a reply was not taken, the one before it still stands.            *)
Fetchable(j) == IF j \in refused THEN 0 .. got[j] - 1 ELSE {got[j]}

BusResult ==
  /\ BcAwake("result") /\ bc.j \in Subaddrs
  /\ bc' = [bc EXCEPT !.j = @ + 1] /\ Heard
  /\ \/ /\ rt.pc = "loop" /\ UNCHANGED faults
        /\ rt' = [rt EXCEPT !.rxq = Append(@, [desc |-> 32 + bc.j, data |-> <<>>, round |-> 0])]
        /\ results' = [results EXCEPT ![bc.j] = rt.tx[bc.j]]
        /\ want' = [want EXCEPT ![bc.j] = Fetchable(bc.j)]
     \/ rt.pc # "loop" /\ UNCHANGED <<faults, rt, results, want>>
     \/ faults < MaxFaults /\ faults' = faults + 1 /\ UNCHANGED <<rt, results, want>>
  /\ UNCHANGED <<cmdround, got, refused>>

(* The list is done, or was given up.  The results are asked for after     *)
(* 20 s; the next round begins 15 s later.                                 *)
BcDoneAtOnce ==                               \* mutant: does not wait for the terminal
  /\ bc.j > MSG_CNT
  /\ \E result \in {0, 1} :
       /\ Errno(IF result = 1 THEN "0" ELSE "EIO")
       /\ bc' = CASE ~Listed(result) -> [bc EXCEPT !.j = 0, !.pc = "cmd", !.sleep = 1]
                  [] result = 1 /\ bc.pc = "cmd" -> [bc EXCEPT !.j = 0, !.pc = "result"]
                  [] OTHER -> [bc EXCEPT !.j = 0, !.pc = "cmd", !.sleep = 15]
  /\ UNCHANGED <<rt, bmon, cmdround, results, got, refused, want>>

BcDone ==
  /\ bc.j > MSG_CNT
  /\ \E result \in {0, 1} :
       /\ Errno(IF result = 1 THEN "0" ELSE "EIO")
       /\ bc' = CASE ~Listed(result) -> [bc EXCEPT !.j = 0, !.pc = "cmd", !.sleep = 1]
                  [] result = 1 /\ bc.pc = "cmd" -> [bc EXCEPT !.j = 0, !.pc = "result", !.sleep = 20]
                  [] OTHER -> [bc EXCEPT !.j = 0, !.pc = "cmd", !.sleep = 15]
  /\ UNCHANGED <<rt, bmon, cmdround, results, got, refused, want>>

-----------------------------------------------------------------------------
(* The terminal: one message at a time.  It sleeps a second when there is  *)
(* none or it could not be read, and also after each that says one of its  *)
(* replies was sent.                                                       *)
RtRead(errno) == BrmRead(rt.chan, "RT", 1, Len(rt.rxq), errno)

RtAwake == rt.pc = "loop" /\ rt.sleep = 0

RtIdle ==
  /\ RtAwake
  /\ \E e \in {"0", "EBUSY", "EIO"} :
       Errno(e) /\ RtRead(e).ret <= 0 /\ ~RtRead(e).blocks
  /\ rt' = [rt EXCEPT !.sleep = 1]
  /\ UNCHANGED <<bc, bmon, cmdround, results, got, refused, want>>

RtSent ==
  /\ RtAwake /\ RtRead("0").ret > 0 /\ Head(rt.rxq).desc >= 32
  /\ rt' = [rt EXCEPT !.rxq = Tail(@), !.sleep = 1]
  /\ UNCHANGED <<bc, bmon, faults, cmdround, results, got, refused, want>>

(* A reply that is not taken is given up.                                  *)
RtReply ==
  /\ RtAwake /\ RtRead("0").ret > 0 /\ Head(rt.rxq).desc < 32
  /\ \E e \in {"0", "EBUSY", "EIO"} :
       /\ Errno(e)
       /\ LET msg == Head(rt.rxq) IN
            IF RtSend(rt.chan, msg.desc + 32, e) = 1
              THEN /\ rt' = [rt EXCEPT !.rxq = Tail(@), !.tx[msg.desc] =
                                       [data |-> Twisted(msg.data), round |-> msg.round]]
                   /\ refused' = refused \ {msg.desc}
              ELSE /\ rt' = [rt EXCEPT !.rxq = Tail(@)]
                   /\ refused' = refused \cup {msg.desc}
  /\ UNCHANGED <<bc, bmon, cmdround, results, got, want>>

(* The monitor: up to three messages at a time.                            *)
BmLoop ==
  /\ bmon.pc = "loop"
  /\ \E e \in {"0", "EIO"} :
       /\ Errno(e)
       /\ LET read == BrmRead(bmon.chan, "BM", 3, bmon.msgs, e) IN
            /\ ~read.blocks
            /\ bmon' = IF read.ret > 0 THEN [bmon EXCEPT !.msgs = @ - read.ret] ELSE bmon
  /\ UNCHANGED <<bc, rt, cmdround, results, got, refused, want>>

(* A second passes.                                                        *)
Second ==
  /\ bc.sleep > 0 /\ (rt.pc = "off" \/ rt.sleep > 0)
  /\ bmon.pc = "loop" /\ bmon.msgs = 0
  /\ bc' = [bc EXCEPT !.sleep = @ - 1]
  /\ rt' = [rt EXCEPT !.sleep = IF @ > 0 THEN @ - 1 ELSE 0]
  /\ UNCHANGED <<bmon, faults, cmdround, results, got, refused, want>>

BrmNext ==
  \/ BcSetUp \/ RtSetUp \/ BmSetUp \/ RtOption
  \/ BcList("cmd") \/ BcList("result") \/ BusCmd \/ BusResult \/ BcDone
  \/ RtIdle \/ RtSent \/ RtReply \/ BmLoop \/ Second

BrmSpec == BrmInit /\ [][BrmNext]_brm_vars

-----------------------------------------------------------------------------
Blocks1553 == [data : Seq(0 .. 127), round : 0 .. MaxRound1553]

BrmTypeOK ==
  /\ {bc.chan, rt.chan, bmon.chan} \subseteq BrmChannels
  /\ bc.pc \in {"mode", "block", "cmd", "result"} /\ bc.sleep \in 0 .. 20 /\ bc.j \in 0 .. 5
  /\ rt.pc \in {"off", "mode", "block", "loop"} /\ rt.sleep \in 0 .. 1
  /\ rt.rxq \in Seq([desc : 0 .. 63, data : Seq(0 .. 127), round : 0 .. MaxRound1553])
  /\ bmon.msgs \in 0 .. BmLen
  /\ faults \in 0 .. MaxFaults /\ cmdround \in 0 .. MaxRound1553
  /\ rt.tx \in [Subaddrs -> Blocks1553] /\ results \in [Subaddrs -> Blocks1553]
  /\ got \in [Subaddrs -> 0 .. MaxRound1553] /\ refused \subseteq Subaddrs
  /\ want \in [Subaddrs -> SUBSET (0 .. MaxRound1553)]

Reply(j, round) == IF round = 0 THEN Blank ELSE [data |-> Twisted(CmdData(j)), round |-> round]

(* When the controller asks for a result, the terminal has answered the    *)
(* last command that reached it, although it sleeps a second for every     *)
(* message that is no command and every read that fails: 20 s are enough   *)
(* for up to 14 failures.  Only where its driver did not take the reply to *)
(* that command does the controller get an earlier one, or none, and it is *)
(* not told (rtems-brm.c:416).                                             *)
BrmEchoed == \A j \in Subaddrs : \E round \in want[j] : results[j] = Reply(j, round)
=============================================================================

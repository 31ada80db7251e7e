------------------------------ MODULE B1553Rt ------------------------------
(***************************************************************************)
(* The terminal of rtems-b1553rt.c (its second test task, the one that is  *)
(* built): it counts messages and mode codes, answers messages, and puts   *)
(* its counts where the controller fetches them when mode code 0x13 comes. *)
(* The controller, a tester, is outside the repository: any message may    *)
(* come next.  A descriptor below 32 is a received message, below 64 one   *)
(* that was fetched, below 96 and 128 a mode code.                         *)
(***************************************************************************)
EXTENDS Integers

CONSTANTS
  RtDescs,      \* descriptors that come up
  MaxRtMsgs     \* bound: reads

ASSUME RtBounds == RtDescs \subseteq Nat /\ MaxRtMsgs \in Nat

VARIABLES
  b_msg,        \* msg; a read that fails leaves the last one in it
  b_restarted,  \* restarted
  b_cnt,        \* the counters rx, tx and txprep
  b_modes,      \* mode_code_tests: cnt and last_data
  b_len,        \* words of the reply in each transmit subaddress
  b_report,     \* the counts in transmit subaddress 30, or none yet
  b_exited,     \* exit was called
  b_reads,      \* reads so far
  b_since,      \* history: how often each mode code came since the restart
  b_fetched,    \* history: b_since, when the report was written
  b_failed      \* history: a read failed

b_vars == <<b_msg, b_restarted, b_cnt, b_modes, b_len, b_report, b_exited, b_reads,
            b_since, b_fetched, b_failed>>

ModeCodes == 0 .. 31

(* mode_code_setup: a code's place among the counts.  Where the table says *)
(* -1 the field, an unsigned short, makes it 65535, and the test for -1    *)
(* never holds; these codes are not supported either.                      *)
Index(m) ==
  CASE m \in 0 .. 7 -> m [] m = 8 -> 0 [] m \in 16 .. 21 -> m - 8 [] OTHER -> 65535
Supported(m) == m \in 1 .. 8 \cup 16 .. 19
DataByte(m) == m \in 16 .. 19

Messages1553 == [desc : RtDescs, words : {0, 8}, data : {"restart", "print", "other"}]
NoCounts == [i \in 0 .. 14 |-> [cnt |-> 0, last |-> "none"]]

B1553Init ==
  /\ b_msg \in Messages1553     \* not set before the first read
  /\ b_restarted = FALSE /\ b_cnt = [rx |-> 0, tx |-> 0, txprep |-> 0] /\ b_modes = NoCounts
  /\ b_len = [s \in 0 .. 31 |-> 0] /\ b_report = <<>> /\ b_exited = FALSE /\ b_reads = 0
  /\ b_since = [m \in ModeCodes |-> 0] /\ b_fetched = <<>> /\ b_failed = FALSE

(* A received message is answered in place: the descriptor in msg is then  *)
(* one of a transmit subaddress.                                           *)
Answer(msg) ==
  /\ b_exited' = ~b_restarted
  /\ IF b_restarted
       THEN /\ b_len' = [b_len EXCEPT ![msg.desc] = IF msg.words = 0 THEN 32 ELSE msg.words]
            /\ b_cnt' = [b_cnt EXCEPT !.rx = @ + 1, !.txprep = @ + 1]
            /\ b_msg' = [msg EXCEPT !.desc = @ + 32]
       ELSE b_cnt' = [b_cnt EXCEPT !.rx = @ + 1] /\ b_msg' = msg /\ UNCHANGED b_len
  /\ UNCHANGED <<b_restarted, b_modes, b_report, b_since, b_fetched>>

RestartKeepsModes ==                          \* mutant: mode_code_tests is not cleared
  /\ b_restarted' = TRUE /\ b_cnt' = [rx |-> 0, tx |-> 0, txprep |-> 0]
  /\ b_since' = [m \in ModeCodes |-> 0]
  /\ UNCHANGED <<b_modes, b_len, b_report, b_fetched, b_exited>>

Restart ==
  /\ b_restarted' = TRUE /\ b_cnt' = [rx |-> 0, tx |-> 0, txprep |-> 0] /\ b_modes' = NoCounts
  /\ b_since' = [m \in ModeCodes |-> 0]
  /\ UNCHANGED <<b_len, b_report, b_fetched, b_exited>>

(* A mode code that is not supported ends the program.                     *)
CountMode(m, msg) ==
  IF ~Supported(m)
    THEN b_exited' = TRUE /\ b_msg' = msg
         /\ UNCHANGED <<b_restarted, b_cnt, b_modes, b_len, b_report, b_since, b_fetched>>
    ELSE /\ b_modes' = [b_modes EXCEPT ![Index(m)].cnt = @ + 1,
                                       ![Index(m)].last = IF DataByte(m) THEN msg.data ELSE @]
         /\ b_since' = [b_since EXCEPT ![m] = @ + 1]
         /\ IF m = 19
              THEN /\ b_report' = [i \in 0 .. 14 |-> b_modes'[i].cnt]
                   /\ b_fetched' = b_since'
                   /\ b_len' = [b_len EXCEPT ![30] = 30]
                   /\ b_msg' = [msg EXCEPT !.desc = 62]
              ELSE b_msg' = msg /\ UNCHANGED <<b_report, b_fetched, b_len>>
         /\ UNCHANGED <<b_restarted, b_cnt, b_exited>>

ModeCode(msg) ==
  LET m == (msg.desc - 64) % 32 IN
    CASE m = 17 /\ msg.data = "restart" -> Restart /\ b_msg' = msg
      [] m = 17 /\ msg.data = "print" ->
           b_msg' = msg /\ UNCHANGED <<b_restarted, b_cnt, b_modes, b_len, b_report, b_exited, b_since, b_fetched>>
      [] OTHER -> CountMode(m, msg)

Handle(msg) ==
  CASE msg.desc < 32 -> Answer(msg)
    [] msg.desc \in 32 .. 63 ->
         b_cnt' = [b_cnt EXCEPT !.tx = @ + 1] /\ b_msg' = msg
         /\ UNCHANGED <<b_restarted, b_modes, b_len, b_report, b_exited, b_since, b_fetched>>
    [] msg.desc \in 64 .. 127 -> ModeCode(msg)
    [] OTHER -> b_exited' = TRUE /\ b_msg' = msg
         /\ UNCHANGED <<b_restarted, b_cnt, b_modes, b_len, b_report, b_since, b_fetched>>

B1553Read ==
  /\ ~b_exited /\ b_reads < MaxRtMsgs /\ b_reads' = b_reads + 1
  /\ \/ \E msg \in Messages1553 : Handle(msg) /\ UNCHANGED b_failed
     \/ Handle(b_msg) /\ b_failed' = TRUE

B1553Spec == B1553Init /\ [][B1553Read]_b_vars

-----------------------------------------------------------------------------
B1553TypeOK ==
  /\ b_msg \in [desc : Nat, words : {0, 8}, data : {"restart", "print", "other"}]
  /\ {b_restarted, b_exited, b_failed} \subseteq BOOLEAN
  /\ b_cnt \in [rx : Nat, tx : Nat, txprep : Nat]
  /\ b_modes \in [0 .. 14 -> [cnt : Nat, last : {"none", "restart", "print", "other"}]]
  /\ b_len \in [0 .. 31 -> 0 .. 32] /\ b_since \in [ModeCodes -> Nat]
  /\ b_reads \in 0 .. MaxRtMsgs

(* The report tells of each mode code how often it came since the restart, *)
(* the 0x13 that asked for it included, also where codes share a place;    *)
(* and every message since was answered.                                   *)
B1553Report ==
  ~b_failed /\ ~b_exited =>
    /\ b_report # <<>> => \A m \in ModeCodes : Supported(m) => b_report[Index(m)] = b_fetched[m]
    /\ b_cnt.rx = b_cnt.txprep
=============================================================================

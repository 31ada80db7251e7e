------------------------------ MODULE BcRtData ------------------------------
(***************************************************************************)
(* The data the 1553 bus controller exchanges with one remote terminal     *)
(* once both communicate (1553/bc_list.c and 1553/rtems-gr1553rtbm.c).     *)
(*                                                                         *)
(* In each communication frame the core of the controller sends the two    *)
(* blocks of that frame, and at least 25 ms later asks for two blocks.     *)
(* The service routine at the start of a frame checks what came back in    *)
(* the frame before and makes new blocks for it.  The RT has a ring of two *)
(* blocks per frame in each direction; its service routine copies two      *)
(* received blocks over to the ring it sends from.  Nothing ties frames to *)
(* ring entries but that both sides count them from the same start.        *)
(*                                                                         *)
(* A block is 32 consecutive words, and the next one goes on where it      *)
(* ends, so a block is modelled by its number.                             *)
(***************************************************************************)
EXTENDS Integers

CONSTANTS
  NFrames,   \* communication frames (8); the rings of the RT hold two blocks each
  Blocks,    \* numbers of blocks before the 16-bit words repeat (2048)
  MaxLost    \* bound: blocks lost on the bus

ASSUME NFramesAssumption == NFrames \in Nat /\ NFrames > 1
ASSUME BlocksAssumption == Blocks \in Nat /\ Blocks > 2 * NFrames
ASSUME MaxLostAssumption == MaxLost \in Nat

Ring == 2 * NFrames

Zero == -1         \* a buffer of zeros
Garbled == -2      \* rxstate after a buffer of zeros was checked: no block starts so
None == -1         \* no interrupt is pending
Block == 0 .. Blocks - 1

VARIABLES
  txbufs, rxbufs,    \* controller: the blocks of each frame
  first, txstate, rxstate,
  err,               \* controller: the last check raised sync_errs
  frame, step,       \* core: the frame it executes and what comes next in it
  isr,               \* core: the frame bc_com_frame_sync is due for, or None
  rt_rx, rt_tx,      \* RT: the rings
  rxpos, txpos,      \* RT core: the descriptors it uses next
  last_entry, irqs,  \* RT: where its service routine is, and calls due
  lost               \* blocks lost so far

bc == <<txbufs, rxbufs, first, txstate, rxstate, err>>
core == <<frame, step, isr>>
rt == <<rt_rx, rt_tx, rxpos, txpos, last_entry, irqs>>
vars == <<bc, core, rt, lost>>

Frame == 0 .. NFrames - 1
Steps == {"sync", "send0", "send1", "ask0", "ask1"}

TypeOK ==
  /\ txbufs \in [Frame \X {0, 1} -> Block]
  /\ rxbufs \in [Frame \X {0, 1} -> Block \cup {Zero}]
  /\ txstate \in Block /\ rxstate \in Block \cup {Garbled}
  /\ {first, err} \subseteq BOOLEAN /\ isr \in Frame \cup {None}
  /\ frame \in Frame /\ step \in Steps
  /\ rt_rx \in [0 .. Ring - 1 -> Block \cup {Zero}]
  /\ rt_tx \in [0 .. Ring - 1 -> Block \cup {Zero}]
  /\ rxpos \in 0 .. Ring - 1 /\ txpos \in 0 .. Ring - 1
  /\ last_entry \in 0 .. Ring - 1 /\ irqs \in 0 .. 1 /\ lost \in 0 .. MaxLost

(* bc_rt_data_prepare makes the first blocks of all frames.                *)
Init ==
  /\ txbufs = [b \in Frame \X {0, 1} |-> 2 * b[1] + b[2]]
  /\ rxbufs = [b \in Frame \X {0, 1} |-> Zero]
  /\ first = TRUE /\ txstate = Ring % Blocks /\ rxstate = 0 /\ err = FALSE
  /\ frame = 0 /\ step = "sync" /\ isr = None
  /\ rt_rx = [i \in 0 .. Ring - 1 |-> Zero] /\ rt_tx = [i \in 0 .. Ring - 1 |-> Zero]
  /\ rxpos = 0 /\ txpos = 0 /\ last_entry = 0 /\ irqs = 0 /\ lost = 0

-----------------------------------------------------------------------------
(* The core of the controller, and that of the RT at the other end.        *)

(* Start of a frame.  The service routine has a frame's time to run.       *)
Sync ==
  /\ step = "sync" /\ isr = None
  /\ step' = "send0" /\ isr' = frame
  /\ UNCHANGED <<bc, frame, rt, lost>>

(* Every other descriptor of the ring the RT receives into interrupts.     *)
Send(j) ==
  /\ step = (IF j = 0 THEN "send0" ELSE "send1")
  /\ step' = IF j = 0 THEN "send1" ELSE "ask0"
  /\ \/ /\ rt_rx' = [rt_rx EXCEPT ![rxpos] = txbufs[frame, j]]
        /\ rxpos' = (rxpos + 1) % Ring
        /\ irqs' = irqs + (rxpos % 2)
        /\ UNCHANGED lost
     \/ lost < MaxLost /\ lost' = lost + 1 /\ UNCHANGED <<rt_rx, rxpos, irqs>>
  /\ UNCHANGED <<bc, frame, isr, rt_tx, txpos, last_entry>>

(* The service routine of the RT had 25 ms.  What gets lost is the command *)
(* to the RT or its answer, which the RT then counts as sent.              *)
Ask(j) ==
  /\ step = (IF j = 0 THEN "ask0" ELSE "ask1") /\ irqs = 0
  /\ IF j = 0 THEN step' = "ask1" /\ UNCHANGED frame
              ELSE step' = "sync" /\ frame' = (frame + 1) % NFrames
  /\ \/ /\ rxbufs' = [rxbufs EXCEPT ![<<frame, j>>] = rt_tx[txpos]]
        /\ txpos' = (txpos + 1) % Ring
        /\ UNCHANGED lost
     \/ /\ lost < MaxLost /\ lost' = lost + 1
        /\ txpos' \in {txpos, (txpos + 1) % Ring}
        /\ UNCHANGED rxbufs
  /\ UNCHANGED <<txbufs, first, txstate, rxstate, err, isr, rt_rx, rt_tx, rxpos,
                 last_entry, irqs>>

-----------------------------------------------------------------------------
(* The service routines.                                                   *)

(* bc_rt_data_check of a block: the number expected next, by the words.    *)
Checked(block) == IF block = Zero THEN Garbled ELSE (block + 1) % Blocks

LastThis(comfrm) == comfrm                    \* mutant: the frame that has just begun

Last(comfrm) == IF comfrm - 1 < 0 THEN NFrames - 1 ELSE comfrm - 1

BcIsrNoSync ==                                \* mutant: goes on from what it expected
  /\ isr # None /\ isr' = None
  /\ IF first
       THEN first' = FALSE /\ UNCHANGED <<txbufs, rxbufs, txstate, rxstate, err>>
       ELSE LET f == Last(isr)
            IN /\ err' = (\E j \in {0, 1} : rxbufs[f, j] # (rxstate + j) % Blocks)
               /\ rxstate' = (rxstate + 2) % Blocks
               /\ rxbufs' = [rxbufs EXCEPT ![<<f, 0>>] = Zero, ![<<f, 1>>] = Zero]
               /\ txbufs' = [txbufs EXCEPT ![<<f, 0>>] = txstate,
                                           ![<<f, 1>>] = (txstate + 1) % Blocks]
               /\ txstate' = (txstate + 2) % Blocks
               /\ UNCHANGED first
  /\ UNCHANGED <<frame, step, rt, lost>>

BcIsr ==
  /\ isr # None /\ isr' = None
  /\ IF first
       THEN first' = FALSE /\ UNCHANGED <<txbufs, rxbufs, txstate, rxstate, err>>
       ELSE LET f  == Last(isr)
                b0 == rxbufs[f, 0]
                b1 == rxbufs[f, 1]
            IN /\ err' = (b0 # rxstate \/ b1 # Checked(b0))
               /\ rxstate' = Checked(b1)
               /\ rxbufs' = [rxbufs EXCEPT ![<<f, 0>>] = Zero, ![<<f, 1>>] = Zero]
               /\ txbufs' = [txbufs EXCEPT ![<<f, 0>>] = txstate,
                                           ![<<f, 1>>] = (txstate + 1) % Blocks]
               /\ txstate' = (txstate + 2) % Blocks
               /\ UNCHANGED first
  /\ UNCHANGED <<frame, step, rt, lost>>

RtRxIsrOne ==                                 \* mutant: one entry for each interrupt
  /\ irqs > 0 /\ irqs' = irqs - 1
  /\ rt_tx' = [rt_tx EXCEPT ![last_entry] = rt_rx[last_entry]]
  /\ last_entry' = (last_entry + 1) % Ring
  /\ UNCHANGED <<bc, core, rt_rx, rxpos, txpos, lost>>

RtRxIsrPastEnd ==                             \* mutant: > for >=
  /\ irqs > 0 /\ irqs' = irqs - 1
  /\ rt_tx' = [i \in DOMAIN rt_tx |->
                 IF i \in {last_entry, last_entry + 1} THEN rt_rx[i] ELSE rt_tx[i]]
  /\ last_entry' = IF last_entry + 2 > Ring THEN 0 ELSE last_entry + 2
  /\ UNCHANGED <<bc, core, rt_rx, rxpos, txpos, lost>>

RtRxIsr ==
  /\ irqs > 0 /\ irqs' = irqs - 1
  /\ rt_tx' = [rt_tx EXCEPT ![last_entry] = rt_rx[last_entry],
                            ![last_entry + 1] = rt_rx[last_entry + 1]]
  /\ last_entry' = IF last_entry + 2 >= Ring THEN 0 ELSE last_entry + 2
  /\ UNCHANGED <<bc, core, rt_rx, rxpos, txpos, lost>>

Next == Sync \/ (\E j \in {0, 1} : Send(j) \/ Ask(j)) \/ BcIsr \/ RtRxIsr

(* The list is executed, and interrupts are served in their time.          *)
Spec == Init /\ [][Next]_vars /\ WF_vars(Next)

-----------------------------------------------------------------------------
(* Properties.                                                             *)

(* Without losses the RT answers in the very frame it was asked in: what   *)
(* the controller has received by the end of a frame is what it sent in    *)
(* that frame, whenever the two service routines run within their time.    *)
EchoedInFrame ==
  lost = 0 /\ step = "sync" /\ ~first =>
    \A j \in {0, 1} : rxbufs[Last(frame), j] = txbufs[Last(frame), j]

(* Without losses no check ever fails, through every wrap of the frames,   *)
(* of the rings and of the words.                                          *)
NoSyncErr == lost = 0 => ~err

(* Whatever gets lost, the service routine of the RT copies the pair whose *)
(* second block has come: it counts interrupts, never looks where the core *)
(* is, and must not fall out of step with it.                              *)
RtInStep == last_entry = (rxpos - (rxpos % 2) + Ring - 2 * irqs) % Ring

(* After the last loss the checks come to agree again with the data: what  *)
(* bc_rt_data_check does on a mismatch, under the comment "SYNC", is to go *)
(* on from the block it got (bc_list.c:714-716).                           *)
Settles == <>[]~err

=============================================================================

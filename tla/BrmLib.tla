------------------------------- MODULE BrmLib -------------------------------
(***************************************************************************)
(* The BRM library (brm_lib.c and its copy rasta/brm_lib.c): calls of the  *)
(* 1553 driver whose errors become return values.  A channel is the modes  *)
(* the library remembers and, with d_ before them, what the driver has     *)
(* taken.  The driver is not in the repository: its answer, "0" or an      *)
(* errno, comes in with each call.                                         *)
(***************************************************************************)
EXTENDS Integers

BrmModes == {"RT", "BC", "BM"}
BrmErrnos == {"0", "EINVAL", "EBUSY", "ENOMEM", "EIO"}

BrmChannels ==
  [mode : BrmModes, txblk : BOOLEAN, rxblk : BOOLEAN, broadcast : BOOLEAN,
   d_mode : BrmModes, d_txblk : BOOLEAN, d_rxblk : BOOLEAN, d_broadcast : BOOLEAN]

(* brmlib_open: calloc, and the mode a driver begins in.                   *)
BrmOpened ==
  [mode |-> "RT", txblk |-> FALSE, rxblk |-> FALSE, broadcast |-> FALSE,
   d_mode |-> "RT", d_txblk |-> FALSE, d_rxblk |-> FALSE, d_broadcast |-> FALSE]

(* An errno as a return value; those without one of their own are -1.      *)
BrmCode(errno, codes) ==
  IF errno = "0" THEN 0 ELSE IF errno \in DOMAIN codes THEN codes[errno] ELSE -1

Answers(chan, changed, errno, codes) ==
  [ret |-> BrmCode(errno, codes), chan |-> IF errno = "0" THEN changed ELSE chan]

SetMode(chan, mode, errno) ==
  Answers(chan, [chan EXCEPT !.mode = mode, !.d_mode = mode], errno,
          [EINVAL |-> -2, ENOMEM |-> -3])

SetTxBlock(chan, on, errno) ==
  Answers(chan, [chan EXCEPT !.txblk = on, !.d_txblk = on], errno, <<>>)

SetRxBlock(chan, on, errno) ==
  Answers(chan, [chan EXCEPT !.rxblk = on, !.d_rxblk = on], errno, <<>>)

SetBlock(chan, tx, rx, errno1, errno2) ==
  LET first == SetTxBlock(chan, tx, errno1) IN
    IF first.ret # 0 THEN first ELSE SetRxBlock(first.chan, rx, errno2)

SetBroadcast(chan, on, errno) ==
  Answers(chan, [chan EXCEPT !.broadcast = on, !.d_broadcast = on], errno, <<>>)

(* Options that exist in some modes only; their values are the driver's.   *)
InModes(modes, chan, errno, codes) ==
  IF chan.mode \in modes THEN Answers(chan, chan, errno, codes) ELSE [ret |-> -2, chan |-> chan]

SetBus(chan, errno) == InModes({"RT"}, chan, errno, [EINVAL |-> -2])
SetRtAddr(chan, errno) == InModes({"RT"}, chan, errno, <<>>)
SetMsgTimeout(chan, errno) == InModes({"BM", "BC"}, chan, errno, [EBUSY |-> -2])
SetStd(chan, errno) == InModes(BrmModes, chan, errno, [EINVAL |-> -2])

-----------------------------------------------------------------------------
(* brmlib_bc_dolist and brmlib_bc_dolist_wait: the list is done when the   *)
(* wait returns 1.                                                         *)
DoList(chan, errno) ==
  BrmCode(IF chan.d_mode # "BC" THEN "EINVAL" ELSE errno, [EINVAL |-> -2, EBUSY |-> -3])

DoListWait(chan, errno, result) ==
  LET code == DoList(chan, errno) IN IF code = 0 THEN result ELSE code

(* EBUSY says that a call would have to wait, and is no error where it may *)
(* not.                                                                    *)
Refused(errno, blk) == IF errno = "EBUSY" /\ ~blk THEN 0 ELSE -1

(* A read of up to msgcnt of the messages that have come, in the mode the  *)
(* caller says: "blocks" if it waits.                                      *)
BrmRead(chan, mode, msgcnt, come, errno) ==
  IF chan.mode # mode THEN [ret |-> -1, blocks |-> FALSE]
  ELSE IF errno # "0" THEN [ret |-> Refused(errno, chan.rxblk), blocks |-> FALSE]
  ELSE IF come > 0 THEN [ret |-> IF msgcnt < come THEN msgcnt ELSE come, blocks |-> FALSE]
  ELSE IF chan.d_rxblk THEN [ret |-> 0, blocks |-> TRUE]
  ELSE [ret |-> Refused("EBUSY", chan.rxblk), blocks |-> FALSE]

(* A reply to a descriptor: the receive subaddresses cannot be written.    *)
RtSend(chan, desc, errno) ==
  IF desc \notin 32 .. 63 THEN -1
  ELSE IF errno = "0" THEN 1 ELSE Refused(errno, chan.txblk)
=============================================================================

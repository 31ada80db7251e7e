------------------------------ MODULE OccanLib ------------------------------
(***************************************************************************)
(* The OCCAN library (occan_lib.c and its copy rasta/occan_lib.c): calls   *)
(* of the driver whose errors become return values.  A channel is what the *)
(* driver keeps (started, the length of its buffers, the filter, and the   *)
(* blocking modes d_txblk and d_rxblk) and the two modes the library       *)
(* remembers beside it.  A call gives a return value and a channel.        *)
(*                                                                         *)
(* The driver is not in the repository.  What is asked of it is what the   *)
(* library's error messages say: it is set up while it is stopped, and     *)
(* moves messages while it is started.                                     *)
(***************************************************************************)
EXTENDS Integers

Filters == {"all", "even"}

Channels(Lengths) ==
  [started : BOOLEAN, busoff : BOOLEAN, txlen : Lengths, rxlen : Lengths,
   filter : Filters, d_txblk : BOOLEAN, d_rxblk : BOOLEAN, txblk : BOOLEAN, rxblk : BOOLEAN]

(* occanlib_open: the handle comes from calloc.                            *)
Opened(len) ==
  [started |-> FALSE, busoff |-> FALSE, txlen |-> len, rxlen |-> len,
   filter |-> "all", d_txblk |-> FALSE, d_rxblk |-> FALSE, txblk |-> FALSE, rxblk |-> FALSE]

Returns(r, c) == [ret |-> r, chan |-> c]

(* What may be changed only while the channel is stopped.                  *)
WhenStopped(chan, changed) ==
  IF chan.started THEN Returns(-2, chan) ELSE Returns(0, changed)

SetSpeed(chan) == WhenStopped(chan, chan)
SetBtrs(chan) == WhenStopped(chan, chan)
SetBufLength(chan, txlen, rxlen) ==
  WhenStopped(chan, [chan EXCEPT !.txlen = txlen, !.rxlen = rxlen])
SetFilter(chan, f) == WhenStopped(chan, [chan EXCEPT !.filter = f])

SetBlockingMode(chan, tx, rx) ==
  Returns(0, [chan EXCEPT !.d_txblk = tx, !.d_rxblk = rx, !.txblk = tx, !.rxblk = rx])

Start(chan) ==
  WhenStopped(chan, [chan EXCEPT !.started = TRUE, !.busoff = FALSE])

Stop(chan) ==
  IF chan.started THEN Returns(0, [chan EXCEPT !.started = FALSE]) ELSE Returns(-2, chan)

-----------------------------------------------------------------------------
(* A write of several messages, of which the queue has room for room: the  *)
(* driver's answer, "blocks" if it waits instead.                          *)
Write(chan, msgcnt, room) ==
  IF chan.busoff THEN [ret |-> -1, errno |-> "EIO"]
  ELSE IF ~chan.started THEN [ret |-> -1, errno |-> "EBUSY"]
  ELSE IF room > 0 THEN [ret |-> IF msgcnt < room THEN msgcnt ELSE room, errno |-> "0"]
  ELSE IF chan.d_txblk THEN [ret |-> 0, errno |-> "blocks"]
  ELSE [ret |-> -1, errno |-> "ETIMEDOUT"]

(* occanlib_send_multiple of that answer.                                  *)
Sent(chan, answer) ==
  IF answer.ret >= 0 THEN answer.ret
  ELSE IF ~chan.txblk /\ answer.errno = "ETIMEDOUT" THEN 0
  ELSE IF answer.errno = "EBUSY" THEN -2
  ELSE -1

Read(chan, msgcnt, come) ==
  IF chan.busoff THEN [ret |-> -1, errno |-> "EIO"]
  ELSE IF ~chan.started THEN [ret |-> -1, errno |-> "EBUSY"]
  ELSE IF come > 0 THEN [ret |-> IF msgcnt < come THEN msgcnt ELSE come, errno |-> "0"]
  ELSE IF chan.d_rxblk THEN [ret |-> 0, errno |-> "blocks"]
  ELSE [ret |-> -1, errno |-> "ETIMEDOUT"]

(* occanlib_recv_multiple of that answer.                                  *)
Got(chan, answer) ==
  IF answer.ret >= 0 THEN answer.ret
  ELSE IF ~chan.rxblk /\ answer.errno = "ETIMEDOUT" THEN 0
  ELSE IF chan.rxblk /\ answer.errno = "EIO" THEN -3
  ELSE IF answer.errno = "EBUSY" THEN -2
  ELSE -1
=============================================================================

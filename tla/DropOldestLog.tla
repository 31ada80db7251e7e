--------------------------- MODULE DropOldestLog ---------------------------
(***************************************************************************)
(* What the compressed log of the 1553 bus monitor promises                *)
(* (1553/bm_logger.c, log_cmp_add and log_cmp_take): a first-in first-out  *)
(* log of bounded capacity.  Adding never fails: when the log is full the  *)
(* oldest word makes room for the new one.                                 *)
(***************************************************************************)
EXTENDS Naturals, Sequences

CONSTANTS
  Word,      \* the words that are logged
  Capacity   \* how many the log holds, at least one

VARIABLES
  log,   \* the words in the log, oldest first
  got    \* the word taken last, as a sequence of at most one word

vars == <<log, got>>

(* The log after w has been added.                                         *)
Put(q, w) == IF Len(q) < Capacity THEN Append(q, w) ELSE Append(Tail(q), w)

Init == log = <<>> /\ got = <<>>

Add == \E w \in Word : log' = Put(log, w) /\ UNCHANGED got

Take == log # <<>> /\ got' = <<Head(log)>> /\ log' = Tail(log)

Next == Add \/ Take

Spec == Init /\ [][Next]_vars

=============================================================================

------------------------------- MODULE CmpLog -------------------------------
(***************************************************************************)
(* The compressed log of the 1553 bus monitor as it is built: a ring of    *)
(* Cnt words with a head and a tail pointer (1553/bm_logger.c,             *)
(* log_cmp_add and log_cmp_take).                                          *)
(*                                                                         *)
(* The logging task adds one to three words at a time and the server task  *)
(* takes up to MaxTake (250) at a time.  Both run at the same priority     *)
(* without preemption, so neither call sees the other one half done; a     *)
(* step here is one round of the loop in either call.                      *)
(***************************************************************************)
EXTENDS Integers, Sequences

CONSTANTS
  Word,      \* the words that are logged
  Cnt,       \* BM_CMP_LOG_CNT, the words the ring has room for
  MaxWords,  \* the words one call of log_cmp_add may add
  MaxTake    \* the words one call of log_cmp_take may ask for

ASSUME CntAssumption == Cnt \in Nat /\ Cnt >= 2
ASSUME MaxAssumption == MaxWords \in Nat /\ MaxTake \in Nat

VARIABLES
  mem,    \* the ring, from base to end
  head,   \* index of the next word to write
  tail,   \* index of the next word to take; the log is empty at the head
  todo,   \* log_cmp_add: how many words it still has to add
  room,   \* log_cmp_take: how many words it may still take
  got     \* the word taken last

vars == <<mem, head, tail, todo, room, got>>

(* init_bm: the memory comes from malloc and holds anything.               *)
Init ==
  /\ mem \in [0..Cnt-1 -> Word]
  /\ head = 0 /\ tail = 0
  /\ todo = 0 /\ room = 0
  /\ got = <<>>

AdvancePastEnd(p) == IF p + 1 > Cnt THEN 0 ELSE p + 1   \* mutant: > for >=

Advance(p) == IF p + 1 >= Cnt THEN 0 ELSE p + 1

Busy == todo > 0 \/ room > 0

(* A call of log_cmp_add with n words, and one of log_cmp_take with max.   *)
CallAdd ==
  /\ ~Busy
  /\ todo' \in 1..MaxWords
  /\ UNCHANGED <<mem, head, tail, room, got>>

CallTake ==
  /\ ~Busy
  /\ room' \in 1..MaxTake
  /\ UNCHANGED <<mem, head, tail, todo, got>>

(* One round of log_cmp_add: store the word, advance the head, and when it *)
(* has caught up with the tail give up the oldest word.                    *)
AddWordKeepsTail ==                                \* mutant: a full ring is not noticed
  /\ todo > 0
  /\ todo' = todo - 1
  /\ \E w \in Word : mem' = [mem EXCEPT ![head] = w]
  /\ head' = Advance(head)
  /\ UNCHANGED <<tail, room, got>>

AddWord ==
  /\ todo > 0
  /\ todo' = todo - 1
  /\ \E w \in Word : mem' = [mem EXCEPT ![head] = w]
  /\ head' = Advance(head)
  /\ tail' = IF head' = tail THEN Advance(tail) ELSE tail
  /\ UNCHANGED <<room, got>>

(* One round of log_cmp_take: stop at an empty log.                        *)
TakeWord ==
  /\ room > 0
  /\ IF tail = head
       THEN room' = 0 /\ UNCHANGED <<tail, got>>
       ELSE /\ room' = room - 1
            /\ got' = <<mem[tail]>>
            /\ tail' = Advance(tail)
  /\ UNCHANGED <<mem, head, todo>>

Next == CallAdd \/ CallTake \/ AddWord \/ TakeWord

Spec == Init /\ [][Next]_vars

-----------------------------------------------------------------------------
(* The words in the ring, oldest first.                                    *)
Count == IF tail <= head THEN head - tail ELSE head - tail + Cnt
Slot(t, i) == IF t + i - 1 < Cnt THEN t + i - 1 ELSE t + i - 1 - Cnt
Contents == [i \in 1..Count |-> mem[Slot(tail, i)]]

(* The pointers stay in the ring.                                          *)
TypeOK ==
  /\ mem \in [0..Cnt-1 -> Word]
  /\ head \in 0..Cnt-1 /\ tail \in 0..Cnt-1
  /\ todo \in 0..MaxWords /\ room \in 0..MaxTake
  /\ got \in Seq(Word) /\ Len(got) <= 1

(* The ring implements the bounded log: it holds Cnt - 1 words, gives them *)
(* out in the order they came, and only ever loses the oldest one.         *)
Log == INSTANCE DropOldestLog WITH log <- Contents, Capacity <- Cnt - 1

ImplementsLog == Log!Spec

=============================================================================

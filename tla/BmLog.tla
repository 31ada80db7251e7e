------------------------------- MODULE BmLog -------------------------------
(***************************************************************************)
(* Logging of the 1553 bus (1553/bm_logger.c).  The bus monitor writes     *)
(* entries with a 24-bit time into a DMA area; bm_log_copy, which the      *)
(* driver calls out of gr1553bm_read, widens that time to 64 bits and      *)
(* compresses each entry into the log: a word with the 30 upper bits of    *)
(* the time whenever those have changed, a word for a bus error, and a     *)
(* word with the data and the lower 13 bits.  The server task takes the    *)
(* words out of the log and sends them to a client, which has only the     *)
(* words to tell when something was on the bus.                            *)
(*                                                                         *)
(* Times are numbers of the monitor's clock.  The three powers of two of   *)
(* the code are the constants T13, T24 and T30.  The log is the one of     *)
(* DropOldestLog, which module CmpLog implements.                          *)
(***************************************************************************)
EXTENDS Naturals, Sequences

CONSTANTS
  T13,       \* 2^13, one past the time in a data word
  T24,       \* 2^24, one past the time in a DMA entry
  T30,       \* 2^30, one past the time in a time word
  Capacity,  \* words in the log
  MaxDma,    \* bound: entries waiting in the DMA area
  MaxTime    \* bound: the clock

ASSUME ModulusAssumption == {T13, T24, T30} \subseteq Nat \ {0} /\ Capacity \in Nat /\ Capacity >= 3
ASSUME BoundsAssumption == {MaxDma, MaxTime} \subseteq Nat /\ MaxTime >= T24

VARIABLES
  now,      \* the monitor's clock
  dma,      \* the entries in the DMA area, oldest first
  pc,       \* "start", "idle", "counted" or "copy", of the logging task
  left,     \* nentries: entries bm_log_copy has still to copy
  currtime, \* its sample of the clock
  ll,       \* ll_time64: the upper bits of the time of the last entry
  time,     \* log->time
  last,     \* log->lastlogtime
  stopped,  \* an entry was found to be older than the one before: ta 1
  log,      \* the log
  base,     \* client: the last time word, as a sequence of at most one
  missed,   \* a time word has been dropped since the client got one
  shown,    \* client: the last data word, with the time it was decoded to
  since     \* the first time, which init_bm puts into the log

task == <<pc, left, currtime, ll, time, last, stopped>>
client == <<base, missed, shown>>
vars == <<now, dma, task, log, client, since>>

Word == [kind : {"ctrl", "err"}]
        \cup [kind : {"time"}, bits : 0..T30-1]
        \cup [kind : {"data"}, bits : 0..T13-1, real : Nat]

(* log_cmp_add: the words go in one by one; those the log has no room for, *)
(* the oldest, are dropped.                                                *)
LogAdd(ws) ==
  LET all  == log \o ws
      over == IF Len(all) > Capacity THEN Len(all) - Capacity ELSE 0
  IN  /\ log' = SubSeq(all, over + 1, Len(all))
      /\ missed' = (missed \/ \E i \in 1..over : all[i].kind = "time")

Upper(t) == t - (t % T13)
TimeWord(t) == [kind |-> "time", bits |-> (t \div T13) % T30]
DataWord(t, real) == [kind |-> "data", bits |-> t % T13, real |-> real]

(* init_bm has put the START control word; the monitor is running and its  *)
(* clock holds anything.                                                   *)
Init ==
  /\ now \in 0..T24
  /\ dma = <<>>
  /\ pc = "start" /\ left = 0 /\ currtime = 0
  /\ ll = 0 /\ time = 0 /\ last = 0 /\ stopped = FALSE
  /\ log = <<[kind |-> "ctrl"]>>
  /\ base = <<>> /\ missed = FALSE /\ shown = <<>>
  /\ since = 0

-----------------------------------------------------------------------------
(* The monitor.  The logging task runs often enough for no entry to be     *)
(* older than 2^24 when the clock is sampled for it.                       *)
Unsampled == IF pc = "copy" THEN SubSeq(dma, left + 1, Len(dma)) ELSE dma

Tick ==
  /\ now < MaxTime
  /\ Unsampled # <<>> => now < Head(Unsampled).real + T24
  /\ now' = now + 1
  /\ UNCHANGED <<dma, task, log, client, since>>

Message ==
  /\ Len(dma) < MaxDma
  /\ \E e \in BOOLEAN :
       dma' = Append(dma, [time |-> now % T24, error |-> e, real |-> now])
  /\ UNCHANGED <<now, task, log, client, since>>

-----------------------------------------------------------------------------
(* init_bm: the first time, and an empty data word.                        *)
FirstWords ==
  /\ pc = "start"
  /\ pc' = "idle"
  /\ LogAdd(<<TimeWord(now), DataWord(now, now)>>)
  /\ since' = now
  /\ UNCHANGED <<now, dma, left, currtime, ll, time, last, stopped, base, shown>>

(* gr1553bm_read has looked up how many entries there are, up to 128 or up *)
(* to the end of the DMA area, and calls bm_log_copy.                      *)
Read ==
  /\ pc = "idle"
  /\ left' \in 1..Len(dma)
  /\ pc' = "counted"
  /\ UNCHANGED <<now, dma, currtime, ll, time, last, stopped, log, client, since>>

(* bm_log_copy samples the clock: by now it has left the last entry behind.*)
Sample ==
  /\ pc = "counted"
  /\ now > dma[left].real
  /\ currtime' = now
  /\ ll' = Upper(time)
  /\ pc' = "copy"
  /\ UNCHANGED <<now, dma, left, time, last, stopped, log, client, since>>

LogTimeOrEqual(t) ==                                             \* mutant: <= for <
  LET time64 == currtime - (currtime % T24)
  IN  IF t <= currtime % T24 THEN time64 + t ELSE time64 - T24 + t

LogTimeNoWrap(t) == currtime - (currtime % T24) + t         \* mutant: the wrap is forgotten

(* The time of an entry: its 24 bits under the upper ones of the sample.   *)
LogTime(t) ==
  LET time64 == currtime - (currtime % T24)
  IN  IF t < currtime % T24 THEN time64 + t ELSE time64 - T24 + t

(* One round of the loop: one entry becomes one to three words.            *)
CopyEntry ==
  /\ pc = "copy" /\ left > 0 /\ ~stopped
  /\ LET t == LogTime(Head(dma).time)
         long == IF Upper(t) > ll THEN <<TimeWord(t)>> ELSE <<>>
         error == IF Head(dma).error THEN <<[kind |-> "err"]>> ELSE <<>>
     IN  IF last > t
           THEN /\ stopped' = TRUE
                /\ UNCHANGED <<dma, left, currtime, ll, time, last, log, missed, pc>>
           ELSE /\ last' = t
                /\ LogAdd(long \o error \o <<DataWord(t, Head(dma).real)>>)
                /\ dma' = Tail(dma)
                /\ left' = left - 1
                /\ IF left = 1
                     THEN pc' = "idle" /\ time' = t /\ ll' = 0 /\ currtime' = 0
                     ELSE /\ ll' = IF Upper(t) > ll THEN Upper(t) ELSE ll
                          /\ UNCHANGED <<pc, time, currtime>>
                /\ UNCHANGED stopped
  /\ UNCHANGED <<now, base, shown, since>>

-----------------------------------------------------------------------------
(* The server task takes a word and the client decodes it.  The tasks have *)
(* one priority and do not preempt: no word is taken out of a copy.        *)
TakeWord ==
  /\ pc # "copy" /\ log # <<>>
  /\ log' = Tail(log)
  /\ LET w == Head(log)
     IN  CASE w.kind = "time" -> base' = <<w.bits>> /\ missed' = FALSE /\ shown' = <<>>
           [] w.kind = "data" ->
                /\ shown' = IF base = <<>> \/ missed THEN <<>>
                            ELSE <<[as |-> base[1] * T13 + w.bits, real |-> w.real]>>
                /\ UNCHANGED <<base, missed>>
           [] OTHER -> shown' = <<>> /\ UNCHANGED <<base, missed>>
  /\ UNCHANGED <<now, dma, task, since>>

Next ==
  \/ Tick \/ Message
  \/ FirstWords \/ Read \/ Sample \/ CopyEntry
  \/ TakeWord

Spec == Init /\ [][Next]_vars

-----------------------------------------------------------------------------
TypeOK ==
  /\ now \in 0..MaxTime
  /\ Len(dma) <= MaxDma
  /\ pc \in {"start", "idle", "counted", "copy"}
  /\ left \in 0..Len(dma)
  /\ {currtime, ll, time, last} \subseteq 0..MaxTime
  /\ stopped \in BOOLEAN /\ missed \in BOOLEAN
  /\ log \in Seq(Word) /\ Len(log) <= Capacity

(* A data word is decoded to the time at which its data was on the bus, as *)
(* long as the log has not dropped the time word it hangs on: the 24 bits  *)
(* of the monitor and the 13 of the data word are widened right.  An entry *)
(* from before the first time is left out: init_bm does not set log->time, *)
(* so one out of the first 2^13 clocks gets no time word of its own.       *)
DecodedRight ==
  \A i \in DOMAIN shown :
    shown[i].real >= since => shown[i].as = shown[i].real % (T13 * T30)

(* Entries come out in the order of their times, whatever wrapped between  *)
(* them: the check in bm_log_copy that stops the monitor never fires.      *)
NeverStops == ~stopped

=============================================================================

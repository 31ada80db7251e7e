--------------------------- MODULE ScrubCounters ---------------------------
(***************************************************************************)
(* The error accounting of the memory scrubber driver                      *)
(* (memscrub/memscrub.c: checkstat, clearstat, memscrub_get_events,        *)
(* memscrub_setup_ahberr, memscrub_get_totals).                            *)
(*                                                                         *)
(* The AHB status register of the core holds two narrow error counters     *)
(* (10 bits of correctable, 8 bits of uncorrectable errors) that go on     *)
(* counting while software looks at them.  The driver extends them to long *)
(* totals: "laststat" remembers the last value read, "ack" what was        *)
(* counted before the last clear and the wraps seen since.  The interrupt  *)
(* service routine and the task work on the same four variables.           *)
(*                                                                         *)
(* There is one processor: while the service routine runs no task step is  *)
(* taken, so what it does to the variables is one step, but the core may   *)
(* count between any two steps.  memscrub_setup_ahberr runs with the       *)
(* interrupt enabled, so there every load and every store of the task is a *)
(* step of its own.                                                        *)
(***************************************************************************)
EXTENDS Integers

CONSTANTS
  Kinds,      \* the error kinds counted: correctable, uncorrectable
  Width,      \* Width[k]: the modulus of k's counter field (1024 and 256)
  MaxErrors   \* bound: how many errors of each kind ever occur

ASSUME WidthAssumption == Width \in [Kinds -> Nat \ {0}]
ASSUME MaxErrorsAssumption == MaxErrors \in Nat

VARIABLES
  cnt,      \* register: the counter fields of ahbstat
  ne,       \* register: the NE (new error) bit of ahbstat
  irq,      \* interrupt controller: the core's line is pending
  ack,      \* driver: ceack, ueack
  laststat, \* driver: laststat_ce, laststat_ue
  isr,      \* where the service routine is
  task,     \* where the task is in memscrub_setup_ahberr with k's variables
  l,        \* the task's copy of the counter fields in checkstat
  sum,      \* the processor register in which the task computes a new ack
  happened, \* history: errors the core has counted
  gap,      \* history: errors counted since the last complete check
  clean,    \* history: no error fell where the driver cannot see it
  reported, \* what the last memscrub_get_totals returned
  preempted \* history: the service routine has come within memscrub_setup_ahberr

vars == <<cnt, ne, irq, ack, laststat, isr, task, l, sum, happened, gap, clean,
          reported, preempted>>

Zero == [k \in Kinds |-> 0]

Init ==
  /\ cnt = Zero /\ ne = FALSE /\ irq = FALSE
  /\ ack = Zero /\ laststat = Zero
  /\ isr = "idle" /\ task = [k \in Kinds |-> "idle"] /\ l = Zero /\ sum = Zero
  /\ happened = Zero /\ gap = Zero /\ clean = [k \in Kinds |-> TRUE]
  /\ reported = Zero /\ preempted = FALSE

-----------------------------------------------------------------------------
(* The core.                                                               *)

(* An error of kind k: the counter field wraps at its width.  When the     *)
(* error is enabled and reaches its threshold the core also sets NE, which *)
(* stays set until ahbstat is written, and raises its interrupt.           *)
CoreError(k) ==
  /\ happened[k] < MaxErrors
  /\ happened' = [happened EXCEPT ![k] = @ + 1]
  /\ cnt' = [cnt EXCEPT ![k] = IF @ + 1 = Width[k] THEN 0 ELSE @ + 1]
  /\ gap' = [gap EXCEPT ![k] = @ + 1]
  /\ clean' = [clean EXCEPT ![k] = /\ @
                                  /\ isr # "ack" /\ task[k] = "idle"
                                  /\ gap[k] + 1 < Width[k]]
  /\ \E raise \in BOOLEAN :
       /\ ne' = (ne \/ raise)
       /\ irq' = (irq \/ (raise /\ ~ne))
  /\ UNCHANGED <<ack, laststat, isr, task, l, sum, reported, preempted>>

-----------------------------------------------------------------------------
(* checkstat: with the fields read as "seen", a field smaller than the     *)
(* last one means the counter wrapped.                                     *)
WrappedOrEqual(k, seen) == seen[k] <= laststat[k]  \* mutant: equality taken for a wrap
NoWrap(k, seen) == FALSE                           \* mutant: the wrap is not noticed

Wrapped(k, seen) == seen[k] < laststat[k]

CheckstatAccumulate(seen) ==                       \* mutant: += instead of =
  /\ ack' = [k \in Kinds |-> IF Wrapped(k, seen) THEN ack[k] + Width[k] ELSE ack[k]]
  /\ laststat' = [k \in Kinds |-> laststat[k] + seen[k]]

Checkstat(seen) ==
  /\ ack' = [k \in Kinds |-> IF Wrapped(k, seen) THEN ack[k] + Width[k] ELSE ack[k]]
  /\ laststat' = seen

(* clearstat: bank what was read, then write ahbstat.                      *)
Clearstat ==
  /\ ack' = [k \in Kinds |-> ack[k] + laststat[k]]
  /\ laststat' = Zero
  /\ cnt' = Zero
  /\ ne' = FALSE

(* The service routine loops on memscrub_get_events: it checks the status  *)
(* word, clears it when NE was set, and leaves when there is no event.     *)
IsrEnter ==
  /\ isr = "idle" /\ irq
  /\ isr' = "events"
  /\ irq' = FALSE
  /\ preempted' = (preempted \/ \E k \in Kinds : task[k] # "idle")
  /\ UNCHANGED <<cnt, ne, ack, laststat, task, l, sum, happened, gap, clean, reported>>

IsrEventsNoAck ==                                  \* mutant: NE is not acknowledged
  /\ isr = "events"
  /\ Checkstat(cnt)
  /\ gap' = Zero
  /\ isr' = "idle"
  /\ UNCHANGED <<cnt, ne, irq, task, l, sum, happened, clean, reported, preempted>>

IsrEvents ==
  /\ isr = "events"
  /\ Checkstat(cnt)
  /\ gap' = Zero
  /\ isr' = IF ne THEN "ack" ELSE "idle"
  /\ UNCHANGED <<cnt, ne, irq, task, l, sum, happened, clean, reported, preempted>>

IsrAck ==
  /\ isr = "ack"
  /\ Clearstat
  /\ gap' = Zero
  /\ isr' = "events"
  /\ UNCHANGED <<irq, task, l, sum, happened, clean, reported, preempted>>

-----------------------------------------------------------------------------
(* The task.                                                               *)

(* memscrubr_get_totals disables the interrupt around the check, so the    *)
(* service routine cannot run inside it; the total is the banked part plus *)
(* the field as last read.                                                 *)
GetTotals ==
  /\ isr = "idle" /\ \A k \in Kinds : task[k] = "idle"
  /\ Checkstat(cnt)
  /\ gap' = Zero
  /\ reported' = [k \in Kinds |-> ack'[k] + laststat'[k]]
  /\ UNCHANGED <<cnt, ne, irq, isr, task, l, sum, happened, clean, preempted>>

(* memscrub_setup_ahberr runs checkstat and clearstat with the interrupt   *)
(* enabled (from memscrubr_init2 and memscrubr_start_main): the service    *)
(* routine may run between any two of these steps.  The variables of the   *)
(* kinds are independent and none is volatile: the kinds advance in any    *)
(* order, and an addition may load its operands in either order.           *)
TaskOnly ==
  /\ isr = "idle"
  /\ UNCHANGED <<irq, isr, happened, clean, reported, preempted>>

SetupRead ==
  /\ TaskOnly
  /\ \A k \in Kinds : task[k] = "idle"
  /\ l' = cnt
  /\ gap' = Zero
  /\ task' = [k \in Kinds |-> "check"]
  /\ UNCHANGED <<cnt, ne, ack, laststat, sum>>

(* A statement on the variables of one kind.                               *)
TaskStep(k, from, to) ==
  /\ TaskOnly
  /\ task[k] = from
  /\ task' = [task EXCEPT ![k] = to]
  /\ UNCHANGED <<cnt, ne, gap, l>>

(* checkstat: the comparison; ceack += 1024 as a load and a store; and the *)
(* new laststat_ce.                                                        *)
SetupCompare(k) ==
  /\ TaskStep(k, "check", IF Wrapped(k, l) THEN "wrap" ELSE "last")
  /\ UNCHANGED <<ack, laststat, sum>>

SetupWrapLoad(k) ==
  /\ TaskStep(k, "wrap", "wrapped")
  /\ sum' = [sum EXCEPT ![k] = ack[k] + Width[k]]
  /\ UNCHANGED <<ack, laststat>>

SetupWrapStore(k) ==
  /\ TaskStep(k, "wrapped", "last")
  /\ ack' = [ack EXCEPT ![k] = sum[k]]
  /\ UNCHANGED <<laststat, sum>>

SetupLast(k) ==
  /\ TaskStep(k, "last", "bank")
  /\ laststat' = [laststat EXCEPT ![k] = l[k]]
  /\ UNCHANGED <<ack, sum>>

(* clearstat: ceack += laststat_ce as two loads and a store; laststat_ce   *)
(* to zero; and, once all kinds are through, the write of ahbstat.         *)
SetupLoad(k) ==
  /\ \/ /\ TaskStep(k, "bank", "addlast")
        /\ sum' = [sum EXCEPT ![k] = ack[k]]
     \/ /\ TaskStep(k, "bank", "addack")
        /\ sum' = [sum EXCEPT ![k] = laststat[k]]
  /\ UNCHANGED <<ack, laststat>>

SetupAdd(k) ==
  /\ \/ /\ TaskStep(k, "addlast", "store")
        /\ sum' = [sum EXCEPT ![k] = @ + laststat[k]]
     \/ /\ TaskStep(k, "addack", "store")
        /\ sum' = [sum EXCEPT ![k] = @ + ack[k]]
  /\ UNCHANGED <<ack, laststat>>

SetupStore(k) ==
  /\ TaskStep(k, "store", "zero")
  /\ ack' = [ack EXCEPT ![k] = sum[k]]
  /\ UNCHANGED <<laststat, sum>>

SetupZeroSkipped(k) ==                             \* mutant: laststat is not reset
  /\ TaskStep(k, "zero", "done")
  /\ UNCHANGED <<ack, laststat, sum>>

SetupZero(k) ==
  /\ TaskStep(k, "zero", "done")
  /\ laststat' = [laststat EXCEPT ![k] = 0]
  /\ UNCHANGED <<ack, sum>>

SetupClear ==
  /\ TaskOnly
  /\ \A k \in Kinds : task[k] = "done"
  /\ cnt' = Zero
  /\ ne' = FALSE
  /\ gap' = Zero
  /\ task' = [k \in Kinds |-> "idle"]
  /\ UNCHANGED <<ack, laststat, l, sum>>

-----------------------------------------------------------------------------
(* The steady state of a driver that scrubs since start-up: errors, the    *)
(* service routine and get_totals.                                         *)
Steady ==
  \/ \E k \in Kinds : CoreError(k)
  \/ IsrEnter \/ IsrEvents \/ IsrAck
  \/ GetTotals

(* The threshold set-up of a (re)start, on top of it.                      *)
SetupOf(k) ==
  \/ SetupCompare(k) \/ SetupWrapLoad(k) \/ SetupWrapStore(k) \/ SetupLast(k)
  \/ SetupLoad(k) \/ SetupAdd(k) \/ SetupStore(k) \/ SetupZero(k)

Setup == SetupRead \/ SetupClear \/ \E k \in Kinds : SetupOf(k)

Next == Steady \/ Setup

Spec == Init /\ [][Next]_vars

-----------------------------------------------------------------------------
(* Properties.                                                             *)

(* Every variable stays in its range; a field never reaches its width.     *)
TypeOK ==
  /\ cnt \in [Kinds -> Nat] /\ \A k \in Kinds : cnt[k] < Width[k]
  /\ laststat \in [Kinds -> Nat] /\ \A k \in Kinds : laststat[k] < Width[k]
  /\ l \in [Kinds -> Nat] /\ \A k \in Kinds : l[k] < Width[k]
  /\ ack \in [Kinds -> Nat] /\ sum \in [Kinds -> Nat]
  /\ happened \in [Kinds -> Nat]
  /\ gap \in [Kinds -> Nat]
  /\ reported \in [Kinds -> Nat]
  /\ clean \in [Kinds -> BOOLEAN]
  /\ ne \in BOOLEAN /\ irq \in BOOLEAN /\ preempted \in BOOLEAN
  /\ isr \in {"idle", "events", "ack"}
  /\ task \in [Kinds -> {"idle", "check", "wrap", "wrapped", "last", "bank", "addlast",
                        "addack", "store", "zero", "done"}]

Total(k) == ack[k] + laststat[k]

(* memscrub_get_totals promises the number of errors encountered: what it  *)
(* returned, wraps included, is never more than the core counted.  The     *)
(* program does not keep this: see the next property.                      *)
TotalsEncountered == \A k \in Kinds : reported[k] <= happened[k]

(* As long as the service routine has not come within                      *)
(* memscrub_setup_ahberr, the totals are never too large, however the      *)
(* service routine, the counting, the reads and the restarts interleave.   *)
NeverOvercount == ~preempted => TotalsEncountered

(* The wrap correction is exact: on the same condition, as long as no      *)
(* error fell between reading and clearing the status word, and fewer      *)
(* errors than the field is wide came between two checks, the total is     *)
(* short only by the errors that no check has seen yet.                    *)
ExactWhenClean ==
  ~preempted => \A k \in Kinds : clean[k] /\ task[k] = "idle"
                                   => Total(k) + gap[k] = happened[k]

(* A total that was reported is not taken back: on the same condition,     *)
(* wraps, clears and restarts only ever add to it.                         *)
TotalsMonotone == [][~preempted' => \A k \in Kinds : reported'[k] >= reported[k]]_vars

(* A new error is never left unserved: while NE is set the interrupt is    *)
(* pending or the service routine is still going to read the status word.  *)
NewErrorServed == ne => (irq \/ isr # "idle")

=============================================================================

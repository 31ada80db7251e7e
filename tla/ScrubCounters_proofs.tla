------------------------ MODULE ScrubCounters_proofs ------------------------
(***************************************************************************)
(* Theorems of ScrubCounters, for every set of error kinds, every width of *)
(* the counter fields and every number of errors.                          *)
(***************************************************************************)
EXTENDS ScrubCounters, TLAPS

USE WidthAssumption DEF WidthAssumption

-----------------------------------------------------------------------------
(* All counts at zero lie within every field.                              *)
LEMMA ZeroFits ==
  /\ Zero \in [Kinds -> Nat]
  /\ \A k \in Kinds : Zero[k] = 0 /\ Zero[k] < Width[k]
<1>1. Zero = [k \in Kinds |-> 0]
  BY DEF Zero
<1>2. ASSUME NEW k \in Kinds
      PROVE  0 < Width[k]
  <2>1. Width[k] \in Nat
    OBVIOUS
  <2>2. Width[k] # 0
    OBVIOUS
  <2> QED BY <2>1, <2>2
<1> QED BY <1>1, <1>2

(* What one check and one clear do to the accumulated counts.              *)

(* A check that reads a value within the field keeps the driver's counts   *)
(* well typed and never lowers the total of any kind.                      *)
LEMMA ChecksAdd ==
  ASSUME TypeOK, NEW seen \in [Kinds -> Nat],
         \A k \in Kinds : seen[k] < Width[k],
         Checkstat(seen)
  PROVE  /\ ack' \in [Kinds -> Nat]
         /\ laststat' \in [Kinds -> Nat]
         /\ \A k \in Kinds : laststat'[k] < Width[k]
         /\ \A k \in Kinds : ack'[k] >= ack[k]
         /\ \A k \in Kinds : ack'[k] + laststat'[k] >= ack[k] + laststat[k]
<1>1. \A k \in Kinds : /\ ack[k] \in Nat /\ laststat[k] \in Nat /\ seen[k] \in Nat
                       /\ Width[k] \in Nat
                       /\ laststat[k] < Width[k]
  BY DEF TypeOK
<1>2. /\ ack' = [k \in Kinds |-> IF seen[k] < laststat[k] THEN ack[k] + Width[k] ELSE ack[k]]
      /\ laststat' = seen
  BY DEF Checkstat, Wrapped
<1>3. \A k \in Kinds : ack'[k] \in Nat
  BY <1>1, <1>2
<1>4. ack' \in [Kinds -> Nat]
  BY <1>2, <1>3
<1> QED BY <1>1, <1>2, <1>4

(* A clear moves the counts from laststat to ack: the total stays.         *)
LEMMA ClearsKeep ==
  ASSUME TypeOK, Clearstat
  PROVE  /\ ack' \in [Kinds -> Nat]
         /\ laststat' \in [Kinds -> Nat] /\ cnt' \in [Kinds -> Nat]
         /\ \A k \in Kinds : laststat'[k] = 0 /\ cnt'[k] = 0
         /\ \A k \in Kinds : ack'[k] >= ack[k]
         /\ \A k \in Kinds : ack'[k] = ack[k] + laststat[k]
<1>1. \A k \in Kinds : ack[k] \in Nat /\ laststat[k] \in Nat
  BY DEF TypeOK
<1> QED BY <1>1 DEF Clearstat, Zero

-----------------------------------------------------------------------------
(* Type correctness, restarts included.                                    *)

LEMMA TypeNext ==
  ASSUME TypeOK, [Next]_vars
  PROVE  TypeOK'
<1>1. \A k \in Kinds : Width[k] \in Nat \ {0}
  OBVIOUS
<1>2. ASSUME NEW k \in Kinds, CoreError(k)
      PROVE  TypeOK'
  <2>1. /\ happened' \in [Kinds -> Nat] /\ gap' \in [Kinds -> Nat]
        /\ clean' \in [Kinds -> BOOLEAN]
    BY <1>2 DEF CoreError, TypeOK
  <2>2. cnt' \in [Kinds -> Nat] /\ \A j \in Kinds : cnt'[j] < Width[j]
    BY <1>1, <1>2 DEF CoreError, TypeOK
  <2>3. ne' \in BOOLEAN /\ irq' \in BOOLEAN /\ preempted' \in BOOLEAN
    BY <1>2, Zenon DEF CoreError, TypeOK
  <2> QED BY <1>2, <2>1, <2>2, <2>3 DEF CoreError, TypeOK
<1>3. CASE IsrEnter
  <2>1. preempted' \in BOOLEAN
    BY <1>3, Zenon DEF IsrEnter, TypeOK
  <2> QED BY <1>3, <2>1 DEF IsrEnter, TypeOK
<1>4. CASE IsrEvents
  BY <1>1, <1>4, ZeroFits, ChecksAdd DEF IsrEvents, TypeOK
<1>5. CASE IsrAck
  BY <1>1, <1>5, ZeroFits, ClearsKeep DEF IsrAck, TypeOK, Clearstat
<1>6. CASE GetTotals
  <2>1. /\ ack' \in [Kinds -> Nat]
        /\ laststat' \in [Kinds -> Nat]
        /\ \A k \in Kinds : laststat'[k] < Width[k]
    BY <1>6, ChecksAdd DEF GetTotals, TypeOK
  <2>2. reported' \in [Kinds -> Nat]
    BY <1>6, <2>1 DEF GetTotals
  <2> QED BY <1>6, <2>1, <2>2, ZeroFits DEF GetTotals, TypeOK
<1>7. CASE SetupRead
  BY <1>7, ZeroFits DEF SetupRead, TaskOnly, TypeOK
<1>8. CASE SetupClear
  BY <1>8, ZeroFits DEF SetupClear, TaskOnly, TypeOK
<1>9. ASSUME NEW k \in Kinds, SetupOf(k)
      PROVE  TypeOK'
  <2>1. /\ ack[k] \in Nat /\ laststat[k] \in Nat /\ l[k] \in Nat /\ sum[k] \in Nat
        /\ l[k] < Width[k] /\ 0 < Width[k]
    BY <1>1, ZeroFits DEF TypeOK
  <2>2. /\ UNCHANGED <<cnt, ne, gap, l, irq, isr, happened, clean, reported, preempted>>
        /\ task' \in [Kinds -> {"idle", "check", "wrap", "wrapped", "last", "bank",
                               "addlast", "addack", "store", "zero", "done"}]
    BY <1>9 DEF SetupOf, SetupCompare, SetupWrapLoad, SetupWrapStore, SetupLast,
       SetupLoad, SetupAdd, SetupStore, SetupZero, TaskStep, TaskOnly, TypeOK
  <2>3. /\ ack' \in [Kinds -> Nat] /\ sum' \in [Kinds -> Nat]
        /\ laststat' \in [Kinds -> Nat]
        /\ \A j \in Kinds : laststat'[j] < Width[j]
    BY <1>1, <1>9, <2>1 DEF SetupOf, SetupCompare, SetupWrapLoad, SetupWrapStore,
       SetupLast, SetupLoad, SetupAdd, SetupStore, SetupZero, TypeOK
  <2> QED BY <2>2, <2>3 DEF TypeOK
<1>10. CASE UNCHANGED vars
  BY <1>10 DEF vars, TypeOK
<1> QED
  BY <1>2, <1>3, <1>4, <1>5, <1>6, <1>7, <1>8, <1>9, <1>10 DEF Next, Steady, Setup

LEMMA TypeInit == Init => TypeOK
BY ZeroFits DEF Init, TypeOK

(* Every behaviour keeps every variable in its range: in particular what   *)
(* the driver remembers of a counter field never reaches its width.        *)
THEOREM Typing == Spec => []TypeOK
<1>1. TypeOK /\ [Next]_vars => TypeOK'
  BY TypeNext
<1> QED BY TypeInit, <1>1, PTL DEF Spec

-----------------------------------------------------------------------------
(* No new error is left unserved, restarts included.                       *)

(* While NE is set the interrupt is pending or the service routine is      *)
(* running: the property of memscrubr_isr that makes the driver live.      *)
THEOREM Served == Spec => []NewErrorServed
<1>1. Init => NewErrorServed
  BY DEF Init, NewErrorServed
<1>2. ASSUME TypeOK, NewErrorServed, [Next]_vars
      PROVE  NewErrorServed'
  <2>1. ASSUME NEW k \in Kinds, CoreError(k)
        PROVE  NewErrorServed'
    BY <1>2, <2>1, Zenon DEF CoreError, NewErrorServed
  <2>2. CASE IsrEnter
    BY <2>2 DEF IsrEnter, NewErrorServed
  <2>3. CASE IsrEvents
    BY <2>3 DEF IsrEvents, NewErrorServed
  <2>4. CASE IsrAck
    BY <2>4 DEF IsrAck, Clearstat, NewErrorServed
  <2>5. CASE GetTotals
    BY <1>2, <2>5 DEF GetTotals, NewErrorServed
  <2>6. CASE Setup
    BY <1>2, <2>6 DEF Setup, SetupRead, SetupClear, SetupOf, SetupCompare, SetupWrapLoad,
       SetupWrapStore, SetupLast, SetupLoad, SetupAdd, SetupStore, SetupZero, TaskStep,
       TaskOnly, NewErrorServed
  <2>7. CASE UNCHANGED vars
    BY <1>2, <2>7 DEF vars, NewErrorServed
  <2> QED BY <1>2, <2>1, <2>2, <2>3, <2>4, <2>5, <2>6, <2>7 DEF Next, Steady
<1>3. TypeOK /\ NewErrorServed /\ [Next]_vars => NewErrorServed'
  BY <1>2
<1> QED BY Typing, <1>1, <1>3, PTL DEF Spec

-----------------------------------------------------------------------------
(* The accounting as long as no set-up was preempted.                      *)

(* The service routine never takes back that it came within a set-up.      *)
LEMMA StaysPreempted ==
  ASSUME [Next]_vars, ~preempted'
  PROVE  ~preempted
BY DEF Next, Steady, CoreError, IsrEnter, IsrEvents, IsrAck, GetTotals, Setup, SetupRead,
   SetupClear, SetupOf, SetupCompare, SetupWrapLoad, SetupWrapStore, SetupLast, SetupLoad,
   SetupAdd, SetupStore, SetupZero, TaskStep, TaskOnly, vars

(* If the status word were read now: what the driver would then hold.  The *)
(* field may have wrapped since it was read last.                          *)
NextReading(k) == ack[k] + (IF cnt[k] < laststat[k] THEN Width[k] ELSE 0) + cnt[k]

(* The total of kind k that the driver holds; inside a set-up, the one it  *)
(* will hold at its end, told from where the task is.                      *)
Pending(k) ==
  CASE task[k] = "idle" -> ack[k] + laststat[k]
    [] task[k] = "check" -> ack[k] + (IF l[k] < laststat[k] THEN Width[k] ELSE 0) + l[k]
    [] task[k] = "wrap" -> ack[k] + Width[k] + l[k]
    [] task[k] = "wrapped" -> sum[k] + l[k]
    [] task[k] = "last" -> ack[k] + l[k]
    [] task[k] = "bank" -> ack[k] + laststat[k]
    [] task[k] = "addlast" -> sum[k] + laststat[k]
    [] task[k] = "addack" -> sum[k] + ack[k]
    [] task[k] = "store" -> sum[k]
    [] task[k] \in {"zero", "done"} -> ack[k]

(* No part of a set-up runs beside the service routine, and at its end     *)
(* nothing is left in laststat.                                            *)
Apart(k) ==
  /\ task[k] # "idle" => isr = "idle"
  /\ task[k] = "done" => laststat[k] = 0

(* What was reported is covered by what the driver holds.                  *)
Covered(k) == reported[k] <= Pending(k)

(* What the driver holds, or would hold after a reading, has happened.     *)
Sound(k) ==
  /\ task[k] = "idle" => NextReading(k) <= happened[k]
  /\ task[k] # "idle" => Pending(k) <= happened[k]

(* As long as no error of kind k was lost from sight, the field shows what *)
(* was read last plus what came since, wrapped at most once, and the total *)
(* is short by exactly what came since.  Between reading and clearing the  *)
(* status word nothing has come.                                           *)
Exact(k) ==
  clean[k] =>
    /\ gap[k] < Width[k]
    /\ Pending(k) + gap[k] = happened[k]
    /\ task[k] = "idle" => cnt[k] = IF laststat[k] + gap[k] < Width[k]
                                      THEN laststat[k] + gap[k]
                                      ELSE laststat[k] + gap[k] - Width[k]
    /\ isr = "ack" \/ task[k] # "idle" => gap[k] = 0

Kept(k) == Apart(k) /\ Covered(k) /\ Sound(k) /\ Exact(k)

(* The counts of one kind are numbers.                                     *)
LEMMA Counts ==
  ASSUME TypeOK, NEW k \in Kinds
  PROVE  /\ cnt[k] \in Nat /\ laststat[k] \in Nat /\ ack[k] \in Nat /\ l[k] \in Nat
         /\ sum[k] \in Nat /\ happened[k] \in Nat /\ gap[k] \in Nat
         /\ reported[k] \in Nat /\ Width[k] \in Nat /\ clean[k] \in BOOLEAN
         /\ cnt[k] < Width[k] /\ laststat[k] < Width[k] /\ l[k] < Width[k]
BY DEF TypeOK

(* A reading by which the kind is left out of a set-up keeps the account.  *)
LEMMA ReadingKeeps ==
  ASSUME TypeOK, NEW k \in Kinds, Kept(k), task[k] = "idle",
         Checkstat(cnt), gap' = Zero, UNCHANGED <<cnt, happened, clean, task>>
  PROVE  /\ Apart(k)' /\ Sound(k)' /\ Exact(k)'
         /\ Pending(k)' = ack'[k] + laststat'[k]
         /\ reported[k] <= Pending(k)'
<1>1. /\ ack'[k] = IF cnt[k] < laststat[k] THEN ack[k] + Width[k] ELSE ack[k]
      /\ laststat'[k] = cnt[k]
      /\ cnt'[k] = cnt[k] /\ happened'[k] = happened[k] /\ clean'[k] = clean[k]
      /\ task'[k] = "idle" /\ gap'[k] = 0
  BY ZeroFits DEF Checkstat, Wrapped
<1>2. Pending(k)' = ack'[k] + laststat'[k]
  BY <1>1 DEF Pending
<1>3. Pending(k) = ack[k] + laststat[k]
  BY DEF Pending
<1>4. Apart(k)'
  BY <1>1 DEF Apart
<1>5. Sound(k)'
  BY <1>1, Counts DEF Kept, Sound, NextReading
<1>6. Exact(k)'
  BY <1>1, <1>2, <1>3, Counts DEF Kept, Exact
<1>7. reported[k] <= Pending(k)'
  BY <1>1, <1>2, <1>3, Counts DEF Kept, Covered
<1> QED BY <1>2, <1>4, <1>5, <1>6, <1>7

(* A statement of the task keeps the total that the set-up will end with.  *)
LEMMA StatementKeeps ==
  ASSUME TypeOK, NEW j \in Kinds, SetupOf(j), NEW k \in Kinds, Apart(k)
  PROVE  /\ Pending(k)' = Pending(k)
         /\ (task[k] = "idle") <=> (task'[k] = "idle")
         /\ Apart(k)'
         /\ task[k] = "idle" => ack'[k] = ack[k] /\ laststat'[k] = laststat[k]
<1>1. isr = "idle" /\ isr' = "idle" /\ l' = l
  BY DEF SetupOf, SetupCompare, SetupWrapLoad, SetupWrapStore, SetupLast, SetupLoad,
     SetupAdd, SetupStore, SetupZero, TaskStep, TaskOnly
<1>2. CASE j # k
  <2>1. /\ task'[k] = task[k] /\ ack'[k] = ack[k] /\ laststat'[k] = laststat[k]
        /\ sum'[k] = sum[k]
    BY <1>2 DEF SetupOf, SetupCompare, SetupWrapLoad, SetupWrapStore, SetupLast, SetupLoad,
       SetupAdd, SetupStore, SetupZero, TaskStep, TypeOK
  <2> QED BY <1>1, <2>1 DEF Pending, Apart
<1>3. CASE j = k
  <2>1. /\ cnt[k] \in Nat /\ laststat[k] \in Nat /\ ack[k] \in Nat /\ l[k] \in Nat
        /\ sum[k] \in Nat /\ Width[k] \in Nat
    BY Counts
  <2>2. CASE SetupCompare(k)
    <3>1. /\ task[k] = "check" /\ l' = l /\ ack' = ack /\ laststat' = laststat
          /\ task'[k] = IF l[k] < laststat[k] THEN "wrap" ELSE "last"
      BY <2>2 DEF SetupCompare, TaskStep, Wrapped, TypeOK
    <3> QED BY <1>1, <2>1, <3>1 DEF Pending, Apart
  <2>3. CASE SetupWrapLoad(k)
    <3>1. /\ task[k] = "wrap" /\ task'[k] = "wrapped" /\ sum'[k] = ack[k] + Width[k]
          /\ ack' = ack /\ laststat' = laststat
      BY <2>3 DEF SetupWrapLoad, TaskStep, TypeOK
    <3> QED BY <1>1, <2>1, <3>1 DEF Pending, Apart
  <2>4. CASE SetupWrapStore(k)
    <3>1. /\ task[k] = "wrapped" /\ task'[k] = "last" /\ ack'[k] = sum[k]
      BY <2>4 DEF SetupWrapStore, TaskStep, TypeOK
    <3> QED BY <1>1, <2>1, <3>1 DEF Pending, Apart
  <2>5. CASE SetupLast(k)
    <3>1. /\ task[k] = "last" /\ task'[k] = "bank" /\ laststat'[k] = l[k] /\ ack' = ack
      BY <2>5 DEF SetupLast, TaskStep, TypeOK
    <3> QED BY <1>1, <2>1, <3>1 DEF Pending, Apart
  <2>6. CASE SetupLoad(k)
    <3>1. /\ task[k] = "bank" /\ ack' = ack /\ laststat' = laststat
          /\ \/ task'[k] = "addlast" /\ sum'[k] = ack[k]
             \/ task'[k] = "addack" /\ sum'[k] = laststat[k]
      BY <2>6 DEF SetupLoad, TaskStep, TypeOK
    <3> QED BY <1>1, <2>1, <3>1 DEF Pending, Apart
  <2>7. CASE SetupAdd(k)
    <3>1. /\ task'[k] = "store" /\ ack' = ack /\ laststat' = laststat
          /\ \/ task[k] = "addlast" /\ sum'[k] = sum[k] + laststat[k]
             \/ task[k] = "addack" /\ sum'[k] = sum[k] + ack[k]
      BY <2>7 DEF SetupAdd, TaskStep, TypeOK
    <3> QED BY <1>1, <2>1, <3>1 DEF Pending, Apart
  <2>8. CASE SetupStore(k)
    <3>1. /\ task[k] = "store" /\ task'[k] = "zero" /\ ack'[k] = sum[k]
      BY <2>8 DEF SetupStore, TaskStep, TypeOK
    <3> QED BY <1>1, <2>1, <3>1 DEF Pending, Apart
  <2>9. CASE SetupZero(k)
    <3>1. /\ task[k] = "zero" /\ task'[k] = "done" /\ laststat'[k] = 0 /\ ack' = ack
      BY <2>9 DEF SetupZero, TaskStep, TypeOK
    <3> QED BY <1>1, <2>1, <3>1 DEF Pending, Apart
  <2> QED BY <1>3, <2>2, <2>3, <2>4, <2>5, <2>6, <2>7, <2>8, <2>9 DEF SetupOf
<1> QED BY <1>2, <1>3

LEMMA KeptNext ==
  ASSUME TypeOK, \A k \in Kinds : Kept(k), [Next]_vars, ~preempted', NEW k \in Kinds
  PROVE  Kept(k)'
<1>1. /\ cnt[k] \in Nat /\ laststat[k] \in Nat /\ ack[k] \in Nat /\ l[k] \in Nat
      /\ sum[k] \in Nat /\ happened[k] \in Nat /\ gap[k] \in Nat
      /\ reported[k] \in Nat /\ Width[k] \in Nat /\ clean[k] \in BOOLEAN
      /\ cnt[k] < Width[k] /\ laststat[k] < Width[k] /\ l[k] < Width[k]
  BY Counts
<1>2. Kept(k)
  OBVIOUS
<1>3. ASSUME NEW j \in Kinds, CoreError(j)
      PROVE  Kept(k)'
  <2>1. UNCHANGED <<ack, laststat, isr, task, l, sum, reported>>
    BY <1>3 DEF CoreError
  <2>2. Pending(k)' = Pending(k)
    BY <2>1 DEF Pending
  <2>3. Apart(k)' /\ Covered(k)'
    BY <1>2, <2>1, <2>2 DEF Kept, Apart, Covered
  <2>4. CASE j = k
    <3>1. /\ happened'[k] = happened[k] + 1
          /\ gap'[k] = gap[k] + 1
      BY <1>3, <2>4 DEF CoreError, TypeOK
    <3>2. cnt'[k] = IF cnt[k] + 1 = Width[k] THEN 0 ELSE cnt[k] + 1
      BY <1>3, <2>4 DEF CoreError, TypeOK
    <3>3. clean'[k] = (clean[k] /\ isr # "ack" /\ task[k] = "idle" /\ gap[k] + 1 < Width[k])
      BY <1>3, <2>4 DEF CoreError, TypeOK
    <3>4. CASE task[k] = "idle"
      <4>1. Pending(k) = ack[k] + laststat[k]
        BY <3>4 DEF Pending
      <4>2. Sound(k)'
        BY <1>1, <1>2, <2>1, <3>1, <3>2, <3>4 DEF Kept, Sound, NextReading
      <4>3. Exact(k)'
        <5> SUFFICES ASSUME clean'[k]
                     PROVE  Exact(k)'
          BY DEF Exact
        <5>1. clean[k] /\ isr # "ack" /\ gap[k] + 1 < Width[k]
          BY <3>3
        <5>2. /\ ack[k] + laststat[k] + gap[k] = happened[k]
              /\ cnt[k] = IF laststat[k] + gap[k] < Width[k]
                            THEN laststat[k] + gap[k]
                            ELSE laststat[k] + gap[k] - Width[k]
          BY <1>2, <3>4, <4>1, <5>1 DEF Kept, Exact
        <5>3. Pending(k)' + gap'[k] = happened'[k]
          BY <1>1, <2>2, <3>1, <4>1, <5>2
        <5>4. cnt'[k] = IF laststat[k] + gap'[k] < Width[k]
                          THEN laststat[k] + gap'[k]
                          ELSE laststat[k] + gap'[k] - Width[k]
          BY <1>1, <3>1, <3>2, <5>1, <5>2
        <5> QED BY <2>1, <3>1, <3>4, <5>1, <5>3, <5>4 DEF Exact
      <4> QED BY <2>3, <4>2, <4>3 DEF Kept
    <3>5. CASE task[k] # "idle"
      <4>1. ~clean'[k]
        BY <3>3, <3>5
      <4>2. Exact(k)'
        BY <4>1 DEF Exact
      <4>3. Pending(k) \in Nat
        BY <1>1, <3>5 DEF Pending, TypeOK
      <4>4. Sound(k)'
        BY <1>1, <1>2, <2>1, <2>2, <3>1, <3>5, <4>3 DEF Kept, Sound
      <4> QED BY <2>3, <4>2, <4>4 DEF Kept
    <3> QED BY <3>4, <3>5
  <2>5. CASE j # k
    <3>1. /\ happened'[k] = happened[k] /\ cnt'[k] = cnt[k]
          /\ gap'[k] = gap[k] /\ clean'[k] = clean[k]
      BY <1>3, <2>5 DEF CoreError, TypeOK
    <3>2. Sound(k)' /\ Exact(k)'
      BY <1>2, <2>1, <2>2, <3>1 DEF Kept, Sound, Exact, NextReading
    <3> QED BY <2>3, <3>2 DEF Kept
  <2> QED BY <2>4, <2>5
<1>4. CASE IsrEnter
  <2>1. UNCHANGED <<cnt, ack, laststat, task, l, sum, happened, gap, clean, reported>>
    BY <1>4 DEF IsrEnter
  <2>2. task[k] = "idle" /\ isr' = "events"
    BY <1>4 DEF IsrEnter
  <2>3. Pending(k)' = Pending(k)
    BY <2>1 DEF Pending
  <2> QED BY <1>2, <2>1, <2>2, <2>3 DEF Kept, Apart, Covered, Sound, Exact, NextReading
<1>5. CASE IsrEvents
  <2>1. task[k] = "idle"
    BY <1>2, <1>5 DEF IsrEvents, Kept, Apart
  <2>2. UNCHANGED <<cnt, happened, clean, task, reported>> /\ Checkstat(cnt) /\ gap' = Zero
    BY <1>5 DEF IsrEvents
  <2>3. /\ Apart(k)' /\ Sound(k)' /\ Exact(k)' /\ reported[k] <= Pending(k)'
    BY <1>2, <2>1, <2>2, ReadingKeeps
  <2> QED BY <2>2, <2>3 DEF Kept, Covered
<1>6. CASE IsrAck
  <2>1. task[k] = "idle" /\ task' = task /\ clean' = clean /\ reported' = reported
    BY <1>2, <1>6 DEF IsrAck, Kept, Apart
  <2>2. /\ ack'[k] = ack[k] + laststat[k] /\ laststat'[k] = 0 /\ cnt'[k] = 0
        /\ happened'[k] = happened[k] /\ gap'[k] = 0 /\ isr = "ack"
    BY <1>6, ClearsKeep, ZeroFits DEF IsrAck
  <2>3. Pending(k) = ack[k] + laststat[k] /\ Pending(k)' = ack[k] + laststat[k]
    BY <1>1, <2>1, <2>2 DEF Pending
  <2>4. Apart(k)' /\ Covered(k)'
    BY <1>2, <2>1, <2>3 DEF Kept, Apart, Covered
  <2>5. Sound(k)'
    BY <1>1, <1>2, <2>1, <2>2 DEF Kept, Sound, NextReading
  <2>6. Exact(k)'
    BY <1>1, <1>2, <2>1, <2>2, <2>3 DEF Kept, Exact
  <2> QED BY <2>4, <2>5, <2>6 DEF Kept
<1>7. CASE GetTotals
  <2>1. /\ task[k] = "idle" /\ UNCHANGED <<cnt, happened, clean, task>>
        /\ Checkstat(cnt) /\ gap' = Zero
    BY <1>7 DEF GetTotals
  <2>2. reported'[k] = ack'[k] + laststat'[k]
    BY <1>7 DEF GetTotals
  <2>3. /\ Apart(k)' /\ Sound(k)' /\ Exact(k)' /\ Pending(k)' = reported'[k]
    BY <1>2, <2>1, <2>2, ReadingKeeps
  <2>4. reported'[k] \in Nat
    BY TypeNext DEF TypeOK
  <2> QED BY <2>3, <2>4 DEF Kept, Covered
<1>8. CASE SetupRead
  <2>1. /\ task[k] = "idle" /\ task'[k] = "check" /\ l'[k] = cnt[k] /\ gap'[k] = 0
        /\ UNCHANGED <<ack, laststat, isr, happened, clean, reported>>
        /\ isr = "idle"
    BY <1>8, ZeroFits DEF SetupRead, TaskOnly
  <2>2. Pending(k) = ack[k] + laststat[k] /\ Pending(k)' = NextReading(k)
    BY <2>1 DEF Pending, NextReading
  <2>3. Apart(k)' /\ Sound(k)'
    BY <1>2, <2>1, <2>2 DEF Kept, Apart, Sound
  <2>4. Covered(k)'
    BY <1>1, <1>2, <2>1, <2>2 DEF Kept, Covered, NextReading
  <2>5. Exact(k)'
    BY <1>1, <1>2, <2>1, <2>2 DEF Kept, Exact, NextReading
  <2> QED BY <2>3, <2>4, <2>5 DEF Kept
<1>9. CASE SetupClear
  <2>1. /\ task[k] = "done" /\ task'[k] = "idle" /\ cnt'[k] = 0 /\ gap'[k] = 0
        /\ UNCHANGED <<ack, laststat, isr, happened, clean, reported>>
        /\ isr = "idle"
    BY <1>9, ZeroFits DEF SetupClear, TaskOnly
  <2>2. laststat[k] = 0
    BY <1>2, <2>1 DEF Kept, Apart
  <2>3. Pending(k) = ack[k] /\ Pending(k)' = ack[k]
    BY <1>1, <2>1, <2>2 DEF Pending
  <2>4. Apart(k)' /\ Covered(k)'
    BY <1>2, <2>1, <2>3 DEF Kept, Apart, Covered
  <2>5. Sound(k)'
    BY <1>1, <1>2, <2>1, <2>2, <2>3 DEF Kept, Sound, NextReading
  <2>6. Exact(k)'
    BY <1>1, <1>2, <2>1, <2>2, <2>3, ZeroFits DEF Kept, Exact
  <2> QED BY <2>4, <2>5, <2>6 DEF Kept
<1>10. ASSUME NEW j \in Kinds, SetupOf(j)
       PROVE  Kept(k)'
  <2>1. UNCHANGED <<cnt, gap, isr, happened, clean, reported>>
    BY <1>10 DEF SetupOf, SetupCompare, SetupWrapLoad, SetupWrapStore, SetupLast, SetupLoad,
       SetupAdd, SetupStore, SetupZero, TaskStep, TaskOnly
  <2>2. /\ Pending(k)' = Pending(k)
        /\ (task[k] = "idle") <=> (task'[k] = "idle")
        /\ Apart(k)'
        /\ task[k] = "idle" => ack'[k] = ack[k] /\ laststat'[k] = laststat[k]
    BY <1>2, <1>10, StatementKeeps DEF Kept
  <2> QED BY <1>2, <2>1, <2>2 DEF Kept, Covered, Sound, Exact, NextReading
<1>11. CASE UNCHANGED vars
  <2>1. Pending(k)' = Pending(k)
    BY <1>11 DEF vars, Pending
  <2> QED BY <1>2, <1>11, <2>1 DEF vars, Kept, Apart, Covered, Sound, Exact, NextReading
<1> QED
  BY <1>3, <1>4, <1>5, <1>6, <1>7, <1>8, <1>9, <1>10, <1>11 DEF Next, Steady, Setup

Account == ~preempted => \A k \in Kinds : Kept(k)

LEMMA AccountInit == Init => Account
<1> SUFFICES ASSUME Init, NEW k \in Kinds
             PROVE  Kept(k)
  BY Zenon DEF Account
<1>1. /\ reported[k] = 0 /\ ack[k] = 0 /\ laststat[k] = 0 /\ gap[k] = 0
      /\ cnt[k] = 0 /\ happened[k] = 0 /\ 0 < Width[k] /\ task[k] = "idle" /\ isr = "idle"
  BY ZeroFits DEF Init
<1>2. Width[k] \in Nat
  OBVIOUS
<1>3. Pending(k) = 0
  BY <1>1 DEF Pending
<1> QED BY <1>1, <1>2, <1>3 DEF Kept, Apart, Covered, Sound, Exact, NextReading

LEMMA AccountNext == TypeOK /\ Account /\ [Next]_vars => Account'
BY KeptNext, StaysPreempted DEF Account

LEMMA AccountKept == Spec => []Account
BY Typing, AccountInit, AccountNext, PTL DEF Spec

(* While no set-up was preempted, memscrub_get_totals never returns more   *)
(* errors than the core counted, however often the fields wrap, the driver *)
(* is restarted and the service routine comes.                             *)
THEOREM NeverOvercounts == Spec => []NeverOvercount
<1>1. TypeOK /\ Account => NeverOvercount
  <2> SUFFICES ASSUME TypeOK, Account, ~preempted, NEW k \in Kinds
               PROVE  reported[k] <= happened[k]
    BY Zenon DEF NeverOvercount, TotalsEncountered
  <2>1. Kept(k)
    BY DEF Account
  <2>2. CASE task[k] = "idle"
    <3>1. Pending(k) = ack[k] + laststat[k]
      BY <2>2 DEF Pending
    <3> QED BY <2>1, <2>2, <3>1, Counts DEF Kept, Covered, Sound, NextReading
  <2>3. CASE task[k] # "idle"
    <3>1. Pending(k) \in Nat
      BY <2>3, Counts DEF Pending, TypeOK
    <3> QED BY <2>1, <2>3, <3>1, Counts DEF Kept, Covered, Sound
  <2> QED BY <2>2, <2>3
<1> QED BY Typing, AccountKept, <1>1, PTL

(* The wrap correction of checkstat is exact whenever fewer errors than    *)
(* the field is wide come between two checks and none comes between a      *)
(* check and its clear.                                                    *)
THEOREM ExactTotals == Spec => []ExactWhenClean
<1>1. Account => ExactWhenClean
  BY DEF Account, Kept, Exact, Pending, ExactWhenClean, Total
<1> QED BY AccountKept, <1>1, PTL

(* memscrub_get_totals never takes back an error it has reported, as long  *)
(* as the service routine has not come within a set-up; the restarts       *)
(* themselves take nothing back.                                           *)
THEOREM Monotone == Spec => TotalsMonotone
<1>1. ASSUME TypeOK, Account, [Next]_vars, ~preempted', NEW k \in Kinds
      PROVE  reported'[k] >= reported[k]
  <2>1. Kept(k) /\ reported[k] \in Nat
    BY <1>1, StaysPreempted, Counts DEF Account
  <2>2. CASE GetTotals
    <3>1. /\ task[k] = "idle" /\ UNCHANGED <<cnt, happened, clean, task>>
          /\ Checkstat(cnt) /\ gap' = Zero
      BY <2>2 DEF GetTotals
    <3>2. reported'[k] = ack'[k] + laststat'[k]
      BY <2>2 DEF GetTotals
    <3>3. reported[k] <= reported'[k]
      BY <1>1, <2>1, <3>1, <3>2, ReadingKeeps
    <3>4. reported'[k] \in Nat
      BY <1>1, TypeNext DEF TypeOK
    <3> QED BY <2>1, <3>3, <3>4
  <2>3. CASE ~GetTotals
    <3>1. reported' = reported
      BY <1>1, <2>3 DEF Next, Steady, CoreError, IsrEnter, IsrEvents, IsrAck, Setup,
         SetupRead, SetupClear, SetupOf, SetupCompare, SetupWrapLoad, SetupWrapStore,
         SetupLast, SetupLoad, SetupAdd, SetupStore, SetupZero, TaskStep, TaskOnly, vars
    <3> QED BY <2>1, <3>1
  <2> QED BY <2>2, <2>3
<1>2. TypeOK /\ Account /\ [Next]_vars
      => [~preempted' => \A k \in Kinds : reported'[k] >= reported[k]]_vars
  BY <1>1
<1> QED BY Typing, AccountKept, <1>2, PTL DEF Spec, TotalsMonotone

=============================================================================

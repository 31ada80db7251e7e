---------------------------- MODULE CmpLog_proofs ----------------------------
(***************************************************************************)
(* The ring of bm_logger.c implements the bounded log, for every size of   *)
(* the ring and every set of words.                                        *)
(***************************************************************************)
EXTENDS CmpLog, SequenceTheorems, TLAPS

USE CntAssumption, MaxAssumption DEF CntAssumption, MaxAssumption

-----------------------------------------------------------------------------
(* Moving through the ring.                                                *)

LEMMA AdvanceStays ==
  ASSUME NEW p \in 0..Cnt-1
  PROVE  /\ Advance(p) \in 0..Cnt-1
         /\ Advance(p) = IF p = Cnt - 1 THEN 0 ELSE p + 1
BY DEF Advance

(* The slots of the words in the log are in the ring, distinct from the    *)
(* head, and the head is the slot after the last of them.                  *)
LEMMA SlotsStay ==
  ASSUME TypeOK
  PROVE  /\ Count \in 0..Cnt-1
         /\ \A i \in 1..Count : Slot(tail, i) \in 0..Cnt-1 /\ Slot(tail, i) # head
         /\ Slot(tail, Count + 1) = head
BY DEF TypeOK, Count, Slot

(* The abstract log is a sequence of words.                                *)
ContentsOK ==
  /\ Contents \in Seq(Word)
  /\ Len(Contents) = Count
  /\ Count \in Nat
  /\ \A i \in 1..Count : Contents[i] = mem[Slot(tail, i)]

LEMMA ContentsSeq == TypeOK => ContentsOK
<1> SUFFICES ASSUME TypeOK
             PROVE  ContentsOK
  OBVIOUS
<1>1. Count \in Nat /\ \A i \in 1..Count : mem[Slot(tail, i)] \in Word
  BY SlotsStay DEF TypeOK
<1>2. Contents \in [1..Count -> Word]
  BY <1>1 DEF Contents
<1>3. Contents \in Seq(Word)
  BY <1>1 DEF Contents
<1>4. Len(Contents) = Count
  BY <1>1, <1>2, <1>3
<1> QED BY <1>1, <1>3, <1>4 DEF Contents, ContentsOK

-----------------------------------------------------------------------------
(* Type correctness.                                                       *)

LEMMA TypeNext ==
  ASSUME TypeOK, [Next]_vars
  PROVE  TypeOK'
<1>1. CASE CallAdd
  BY <1>1 DEF CallAdd, TypeOK
<1>2. CASE CallTake
  BY <1>2 DEF CallTake, TypeOK
<1>3. CASE AddWord
  <2>1. head' \in 0..Cnt-1 /\ tail' \in 0..Cnt-1
    BY <1>3, AdvanceStays DEF AddWord, TypeOK
  <2>2. mem' \in [0..Cnt-1 -> Word]
    BY <1>3 DEF AddWord, TypeOK
  <2> QED BY <1>3, <2>1, <2>2 DEF AddWord, TypeOK
<1>4. CASE TakeWord
  <2>1. tail' \in 0..Cnt-1
    BY <1>4, AdvanceStays DEF TakeWord, TypeOK
  <2>2. mem[tail] \in Word
    BY DEF TypeOK
  <2>3. got' \in Seq(Word) /\ Len(got') <= 1
    <3>1. <<mem[tail]>> \in Seq(Word) /\ Len(<<mem[tail]>>) = 1
      BY <2>2
    <3>2. got' = got \/ got' = <<mem[tail]>>
      BY <1>4 DEF TakeWord
    <3>3. got \in Seq(Word) /\ Len(got) <= 1
      BY DEF TypeOK
    <3>4. CASE got' = got
      BY <3>3, <3>4
    <3>5. CASE got' = <<mem[tail]>>
      BY <3>1, <3>5
    <3> QED BY <3>2, <3>4, <3>5
  <2>4. room' \in 0..MaxTake
    BY <1>4 DEF TakeWord, TypeOK
  <2> QED BY <1>4, <2>1, <2>3, <2>4 DEF TakeWord, TypeOK
<1>5. CASE UNCHANGED vars
  BY <1>5 DEF vars, TypeOK
<1> QED BY <1>1, <1>2, <1>3, <1>4, <1>5 DEF Next

(* Head and tail never leave the ring.                                     *)
THEOREM Typing == Spec => []TypeOK
<1>1. Init => TypeOK
  BY DEF Init, TypeOK
<1>2. TypeOK /\ [Next]_vars => TypeOK'
  BY TypeNext
<1> QED BY <1>1, <1>2, PTL DEF Spec

-----------------------------------------------------------------------------
(* Refinement, step by step.                                               *)

(* A round of log_cmp_add puts one word into the log, whether there is     *)
(* room or the oldest word has to go.                                      *)
LEMMA AddsOne ==
  ASSUME TypeOK, TypeOK', AddWord
  PROVE  \E w \in Word : Contents' = Log!Put(Contents, w)
<1>1. PICK w \in Word : mem' = [mem EXCEPT ![head] = w]
  BY DEF AddWord
<1>2. /\ Contents \in Seq(Word) /\ Len(Contents) = Count /\ Count \in Nat
      /\ \A i \in 1..Count : Contents[i] = mem[Slot(tail, i)]
  BY ContentsSeq DEF ContentsOK
<1>3. /\ Contents' \in Seq(Word) /\ Len(Contents') = Count' /\ Count' \in Nat
      /\ \A i \in 1..Count' : Contents'[i] = mem'[Slot(tail', i)]
  <2>1. ContentsOK'
    BY ContentsSeq, PTL
  <2> QED BY <2>1 DEF ContentsOK
<1>4. \A j \in 0..Cnt-1 : mem'[j] = IF j = head THEN w ELSE mem[j]
  <2>1. mem \in [0..Cnt-1 -> Word]
    BY DEF TypeOK
  <2> QED BY <1>1, <2>1
<1>5. head' = Advance(head) /\ tail' = IF head' = tail THEN Advance(tail) ELSE tail
  BY DEF AddWord
<1>6. head \in 0..Cnt-1 /\ tail \in 0..Cnt-1
  BY DEF TypeOK
<1>7. CASE Count < Cnt - 1
  <2>1. tail' = tail /\ Count' = Count + 1
    BY <1>5, <1>6, <1>7, AdvanceStays DEF Count
  <2>2. \A i \in 1..Count : Slot(tail', i) = Slot(tail, i) /\ Slot(tail, i) \in 0..Cnt-1 /\ Slot(tail, i) # head
    BY <2>1, SlotsStay DEF Slot
  <2>3. Slot(tail', Count') = head
    BY <2>1, SlotsStay DEF Slot
  <2>4. \A i \in 1..Count' : Contents'[i] = IF i = Count + 1 THEN w ELSE Contents[i]
    <3> SUFFICES ASSUME NEW i \in 1..Count'
                 PROVE  Contents'[i] = IF i = Count + 1 THEN w ELSE Contents[i]
      OBVIOUS
    <3>1. CASE i = Count + 1
      BY <1>3, <1>4, <1>6, <2>1, <2>3, <3>1
    <3>2. CASE i # Count + 1
      <4>1. i \in 1..Count
        BY <1>2, <2>1, <3>2
      <4> QED BY <1>2, <1>3, <1>4, <2>2, <3>2, <4>1
    <3> QED BY <3>1, <3>2
  <2>5. Contents' = Append(Contents, w)
    <3> DEFINE q == Append(Contents, w)
    <3>1. /\ q \in Seq(Word) /\ Len(q) = Count + 1
          /\ \A i \in 1..Count : q[i] = Contents[i]
          /\ q[Count + 1] = w
      BY <1>2, AppendProperties
    <3> HIDE DEF q
    <3>2. \A i \in 1..Count' : Contents'[i] = q[i]
      BY <1>2, <2>1, <2>4, <3>1
    <3>3. Contents' = q
      BY <1>3, <2>1, <3>1, <3>2, SeqEqual
    <3> QED BY <3>3 DEF q
  <2> QED BY <1>2, <1>7, <2>5 DEF Log!Put
<1>8. CASE Count = Cnt - 1
  <2>1. tail' = Advance(tail) /\ Count' = Count
    BY <1>5, <1>6, <1>8, AdvanceStays DEF Count
  <2>2. \A i \in 1..Count-1 : Slot(tail', i) = Slot(tail, i+1) /\ Slot(tail, i+1) \in 0..Cnt-1 /\ Slot(tail, i+1) # head
    BY <1>6, <1>8, <2>1, AdvanceStays, SlotsStay DEF Slot
  <2>3. Slot(tail', Count) = head
    BY <1>6, <1>8, <2>1, AdvanceStays DEF Slot, Count
  <2>4. \A i \in 1..Count' : Contents'[i] = IF i = Count THEN w ELSE Contents[i + 1]
    <3> SUFFICES ASSUME NEW i \in 1..Count'
                 PROVE  Contents'[i] = IF i = Count THEN w ELSE Contents[i + 1]
      OBVIOUS
    <3>1. CASE i = Count
      BY <1>3, <1>4, <1>6, <2>1, <2>3, <3>1
    <3>2. CASE i # Count
      <4>1. i \in 1..Count-1 /\ i + 1 \in 1..Count
        BY <1>2, <2>1, <3>2
      <4> QED BY <1>2, <1>3, <1>4, <2>2, <3>2, <4>1
    <3> QED BY <3>1, <3>2
  <2>5. /\ Tail(Contents) \in Seq(Word) /\ Len(Tail(Contents)) = Count - 1
        /\ \A i \in 1..Count-1 : Tail(Contents)[i] = Contents[i + 1]
    BY <1>2, <1>8, HeadTailProperties
  <2>6. Contents' = Append(Tail(Contents), w)
    <3> DEFINE q == Append(Tail(Contents), w)
    <3>1. /\ q \in Seq(Word) /\ Len(q) = Count
          /\ \A i \in 1..Count-1 : q[i] = Tail(Contents)[i]
          /\ q[Count] = w
      BY <1>2, <2>5, AppendProperties
    <3> HIDE DEF q
    <3>2. \A i \in 1..Count' : Contents'[i] = q[i]
      BY <1>2, <2>1, <2>4, <2>5, <3>1
    <3>3. Contents' = q
      BY <1>3, <2>1, <3>1, <3>2, SeqEqual
    <3> QED BY <3>3 DEF q
  <2> QED BY <1>2, <1>8, <2>6 DEF Log!Put
<1> QED BY <1>7, <1>8, SlotsStay

(* A round of log_cmp_take that finds a word takes the oldest one.         *)
LEMMA TakesOne ==
  ASSUME TypeOK, TypeOK', TakeWord, tail # head
  PROVE  Log!Take
<1>1. /\ Contents \in Seq(Word) /\ Len(Contents) = Count /\ Count \in Nat
      /\ \A i \in 1..Count : Contents[i] = mem[Slot(tail, i)]
  BY ContentsSeq DEF ContentsOK
<1>2. /\ Contents' \in Seq(Word) /\ Len(Contents') = Count' /\ Count' \in Nat
      /\ \A i \in 1..Count' : Contents'[i] = mem'[Slot(tail', i)]
  <2>1. ContentsOK'
    BY ContentsSeq, PTL
  <2> QED BY <2>1 DEF ContentsOK
<1>3. /\ tail' = Advance(tail) /\ got' = <<mem[tail]>>
      /\ UNCHANGED <<mem, head>>
  BY DEF TakeWord
<1>4. head \in 0..Cnt-1 /\ tail \in 0..Cnt-1
  BY DEF TypeOK
<1>5. Count >= 1 /\ Slot(tail, 1) = tail /\ Count' = Count - 1
  BY <1>3, <1>4, AdvanceStays DEF Count, Slot
<1>6. Contents # <<>> /\ Head(Contents) = mem[tail]
  BY <1>1, <1>5
<1>7. \A i \in 1..Count' : Slot(tail', i) = Slot(tail, i + 1)
  BY <1>3, <1>4, <1>5, AdvanceStays DEF Slot, Count
<1>8. \A i \in 1..Count' : Contents'[i] = Contents[i + 1]
  BY <1>1, <1>2, <1>3, <1>5, <1>7
<1>9. /\ Tail(Contents) \in Seq(Word) /\ Len(Tail(Contents)) = Count - 1
      /\ \A i \in 1..Count-1 : Tail(Contents)[i] = Contents[i + 1]
  BY <1>1, <1>6, HeadTailProperties
<1>10. Contents' = Tail(Contents)
  BY <1>2, <1>5, <1>8, <1>9, SeqEqual
<1> QED BY <1>3, <1>6, <1>10 DEF Log!Take

(* The ring of bm_logger.c is a bounded log of Cnt - 1 words: nothing but  *)
(* the oldest word is ever lost, and nothing is given out twice or out of  *)
(* order.                                                                  *)
THEOREM Refinement == Spec => ImplementsLog
<1>1. Init => Log!Init
  <2> SUFFICES ASSUME Init
               PROVE  Log!Init
    OBVIOUS
  <2>1. Count = 0
    BY DEF Init, Count
  <2>2. Contents = <<>>
    BY <2>1 DEF Contents
  <2> QED BY <2>2 DEF Init, Log!Init
<1>2. TypeOK /\ TypeOK' /\ [Next]_vars => [Log!Next]_Log!vars
  <2> SUFFICES ASSUME TypeOK, TypeOK', [Next]_vars
               PROVE  [Log!Next]_Log!vars
    OBVIOUS
  <2>1. ASSUME UNCHANGED <<mem, head, tail, got>>
        PROVE  UNCHANGED Log!vars
    BY <2>1 DEF Log!vars, Contents, Count, Slot
  <2>2. CASE AddWord
    BY <2>2, AddsOne DEF Log!Next, Log!Add, AddWord
  <2>3. CASE TakeWord /\ tail # head
    BY <2>3, TakesOne DEF Log!Next
  <2>4. CASE TakeWord /\ tail = head
    BY <2>1, <2>4 DEF TakeWord
  <2>5. CASE CallAdd \/ CallTake \/ UNCHANGED vars
    BY <2>1, <2>5 DEF CallAdd, CallTake, vars
  <2> QED BY <2>2, <2>3, <2>4, <2>5 DEF Next
<1> QED BY Typing, <1>1, <1>2, PTL DEF Spec, ImplementsLog, Log!Spec

=============================================================================

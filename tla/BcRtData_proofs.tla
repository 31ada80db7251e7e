-------------------------- MODULE BcRtData_proofs --------------------------
(***************************************************************************)
(* The data exchange of the bus controller and a remote terminal, for any  *)
(* number of frames, any length of the words' cycle that is longer than    *)
(* the ring, and any number of lost blocks.                                *)
(***************************************************************************)
EXTENDS BcRtData, TLAPS

USE NFramesAssumption, BlocksAssumption, MaxLostAssumption

-----------------------------------------------------------------------------
(* What the RT's service routine has done, whatever is lost.  At most one  *)
(* call is due, and none where the controller asks.                        *)

(* The first entry of the pair the RT receives into next.                  *)
Pair == rxpos - (rxpos % 2)

(* The first entry of the pair before it.                                  *)
PairBefore == IF Pair = 0 THEN Ring - 2 ELSE Pair - 2

InStepInv ==
  /\ step \in {"sync", "send0", "ask1"} => irqs = 0
  /\ step = "send1" /\ irqs = 1 => rxpos % 2 = 0
  /\ last_entry = IF irqs = 0 THEN Pair ELSE PairBefore

-----------------------------------------------------------------------------
(* What holds until a block is lost.                                       *)

Position ==
  /\ rxpos = CASE step \in {"sync", "send0"} -> 2 * frame
               [] step = "send1" -> 2 * frame + 1
               [] OTHER -> IF frame = NFrames - 1 THEN 0 ELSE 2 * frame + 2
  /\ txpos = IF step = "ask1" THEN 2 * frame + 1 ELSE 2 * frame
  /\ isr # None => isr = (IF step = "sync" THEN Last(frame) ELSE frame)
  /\ step = "ask0" => irqs \in {0, 1}
  /\ first /\ isr = None => step = "sync"
  /\ first => frame = 0 \/ (step = "sync" /\ frame = 1)
  /\ first => isr = (IF step = "sync" /\ frame = 0 THEN None ELSE 0)

(* On its way to the RT and back.                                          *)
UnderWay ==
  /\ step \in {"send1", "ask0", "ask1"} => rt_rx[2 * frame] = txbufs[frame, 0]
  /\ step \in {"ask0", "ask1"} => rt_rx[2 * frame + 1] = txbufs[frame, 1]
  /\ (step \in {"ask0", "ask1"} /\ irqs = 0) =>
       rt_tx[2 * frame] = txbufs[frame, 0] /\ rt_tx[2 * frame + 1] = txbufs[frame, 1]
  /\ step = "ask1" => rxbufs[frame, 0] = txbufs[frame, 0]

Echoed(f) == \A j \in {0, 1} : rxbufs[f, j] = txbufs[f, j]

(* A frame that was executed and not checked.                              *)
Returned ==
  /\ step = "sync" /\ (~first \/ isr # None) => Echoed(Last(frame))
  /\ isr # None /\ ~first => Echoed(Last(isr))

(* The next frame to be checked, and how far another is ahead of it.       *)
NextCheck ==
  IF first THEN 0
  ELSE IF isr # None THEN Last(isr)
  ELSE IF step = "sync" THEN Last(frame) ELSE frame

Ahead(f) == IF f >= NextCheck THEN f - NextCheck ELSE f - NextCheck + NFrames

(* x % Blocks for the x that occur.                                        *)
Wrap(x) == IF x >= Blocks THEN x - Blocks ELSE x

(* The blocks of all frames are the ones that are expected, in their order.*)
Numbers ==
  /\ rxstate \in Block
  /\ txstate = Wrap(rxstate + Ring)
  /\ \A f \in Frame, j \in {0, 1} : txbufs[f, j] = Wrap(rxstate + 2 * Ahead(f) + j)

Undisturbed == lost = 0 => Position /\ UnderWay /\ Returned /\ Numbers /\ ~err

ExchangeInv == TypeOK /\ InStepInv /\ Undisturbed

-----------------------------------------------------------------------------
(* Remainders, and buffers of two blocks for each frame.                   *)

LEMMA Remainder ==
  ASSUME NEW n \in Nat, n > 0, NEW x \in 0 .. 2 * n - 1
  PROVE  x % n = IF x >= n THEN x - n ELSE x
<1> DEFINE q == x \div n
           r == x % n
<1>1. q \in Nat /\ r \in 0 .. n - 1 /\ x = n * q + r
  OBVIOUS
<1> HIDE DEF q, r
<1>2. q = 0 \/ q = 1
  <2>1. CASE q >= 2
    <3>1. PICK d \in Nat : q = 2 + d
      <4>1. q - 2 \in Nat /\ q = 2 + (q - 2)
        BY <1>1, <2>1
      <4> QED
        BY <4>1
    <3>2. n * q = 2 * n + n * d
      BY <3>1
    <3>3. n * d \in Nat
      BY <3>1
    <3> QED
      BY <1>1, <3>2, <3>3
  <2> QED
    BY <1>1, <2>1
<1>3. r = IF x >= n THEN x - n ELSE x
  <2>1. CASE q = 0
    BY <1>1, <2>1
  <2>2. CASE q = 1
    BY <1>1, <2>2
  <2> QED
    BY <1>2, <2>1, <2>2
<1> QED
  BY <1>3 DEF r

LEMMA Wrapped ==
  ASSUME NEW x \in 0 .. 2 * Blocks - 1
  PROVE  x % Blocks = Wrap(x) /\ Wrap(x) \in Block
BY Remainder DEF Wrap, Block

LEMMA InRing ==
  ASSUME NEW x \in 0 .. 2 * Ring - 1
  PROVE  x % Ring = IF x >= Ring THEN x - Ring ELSE x
BY Remainder DEF Ring

LEMMA NextEntry ==
  ASSUME NEW x \in 0 .. Ring - 1
  PROVE  /\ Ring \in Nat /\ Ring = 2 * NFrames
         /\ (x + 1) % Ring = IF x + 1 = Ring THEN 0 ELSE x + 1
         /\ (x + 1) % Ring \in 0 .. Ring - 1
<1>1. Ring \in Nat /\ Ring = 2 * NFrames /\ Ring > 0
  BY DEF Ring
<1>2. PICK y \in 0 .. 2 * Ring - 1 : y = x + 1
  BY <1>1
<1>3. y % Ring = IF y >= Ring THEN y - Ring ELSE y
  BY <1>1, Remainder
<1> QED
  BY <1>1, <1>2, <1>3

LEMMA Frames ==
  ASSUME NEW f \in Frame
  PROVE  /\ Last(f) \in Frame /\ Last(f) # f
         /\ Last((f + 1) % NFrames) = f
         /\ (f + 1) % NFrames = IF f = NFrames - 1 THEN 0 ELSE f + 1
         /\ (f + 1) % NFrames \in Frame
<1>1. (f + 1) % NFrames = IF f = NFrames - 1 THEN 0 ELSE f + 1
  <2>1. f + 1 \in 0 .. 2 * NFrames - 1
    BY DEF Frame
  <2> QED
    BY <2>1, Remainder DEF Frame
<1> QED
  BY <1>1 DEF Frame, Last

LEMMA OneBlock ==
  ASSUME NEW S, NEW h \in [Frame \X {0, 1} -> S], NEW f \in Frame, NEW j \in {0, 1}, NEW a \in S,
         NEW g, g = [h EXCEPT ![<<f, j>>] = a]
  PROVE  /\ g \in [Frame \X {0, 1} -> S]
         /\ \A k \in Frame, i \in {0, 1} : g[k, i] = IF k = f /\ i = j THEN a ELSE h[k, i]
OBVIOUS

(* Only the two blocks of frame f differ, and are a and b now.             *)
Refilled(new, old, f, a, b) ==
  \A k \in Frame, i \in {0, 1} :
    new[k, i] = IF k = f THEN IF i = 0 THEN a ELSE b ELSE old[k, i]

LEMMA BothBlocks ==
  ASSUME NEW S, NEW h \in [Frame \X {0, 1} -> S], NEW f \in Frame, NEW a \in S, NEW b \in S,
         NEW g, g = [h EXCEPT ![<<f, 0>>] = a, ![<<f, 1>>] = b]
  PROVE  g \in [Frame \X {0, 1} -> S] /\ Refilled(g, h, f, a, b)
<1> DEFINE m == [h EXCEPT ![<<f, 0>>] = a]
<1>1. /\ m \in [Frame \X {0, 1} -> S]
      /\ \A k \in Frame, i \in {0, 1} : m[k, i] = IF k = f /\ i = 0 THEN a ELSE h[k, i]
  BY OneBlock
<1>2. g = [m EXCEPT ![<<f, 1>>] = b]
  OBVIOUS
<1>3. /\ g \in [Frame \X {0, 1} -> S]
      /\ \A k \in Frame, i \in {0, 1} : g[k, i] = IF k = f /\ i = 1 THEN b ELSE m[k, i]
  <2> HIDE DEF m
  <2>1. m \in [Frame \X {0, 1} -> S] /\ 1 \in {0, 1}
    BY <1>1
  <2> QED
    BY <1>2, <2>1 
<1> HIDE DEF m
<1>4. g \in [Frame \X {0, 1} -> S]
  BY <1>3
<1>5. ASSUME NEW k \in Frame, NEW i \in {0, 1}
      PROVE  g[k, i] = IF k = f THEN IF i = 0 THEN a ELSE b ELSE h[k, i]
  <2>1. m[k, i] = IF k = f /\ i = 0 THEN a ELSE h[k, i]
    BY <1>1, Zenon
  <2>2. g[k, i] = IF k = f /\ i = 1 THEN b ELSE m[k, i]
    BY <1>3, Zenon
  <2>3. CASE i = 0
    <3>1. i # 1
      BY <2>3
    <3> QED
      BY <2>1, <2>2, <2>3, <3>1, Zenon
  <2>4. CASE i = 1
    <3>1. i # 0
      BY <2>4
    <3> QED
      BY <2>1, <2>2, <2>4, <3>1, Zenon
  <2> QED
    BY <2>3, <2>4
<1> QED
  BY <1>4, <1>5, Zenon DEF Refilled

-----------------------------------------------------------------------------
(* The first part of the invariant, action by action.                      *)

LEMMA InitInv == Init => ExchangeInv
<1> SUFFICES ASSUME Init
             PROVE  ExchangeInv
  OBVIOUS
<1>1. Ring \in 0 .. Blocks - 1 /\ Ring % Blocks = Ring
  BY Remainder DEF Ring
<1>2. /\ txbufs \in [Frame \X {0, 1} -> Block]
      /\ \A f \in Frame, j \in {0, 1} : txbufs[f, j] = 2 * f + j
  <2>1. \A b \in Frame \X {0, 1} : 2 * b[1] + b[2] \in Block
    BY DEF Frame, Block
  <2> QED
    BY <2>1 DEF Init
<1>3. TypeOK
  <2>1. /\ txstate \in Block /\ rxstate \in Block
        /\ rxpos \in 0 .. Ring - 1 /\ txpos \in 0 .. Ring - 1 /\ last_entry \in 0 .. Ring - 1
        /\ frame \in Frame
    BY <1>1 DEF Init, Block, Frame, Ring
  <2>2. /\ rxbufs \in [Frame \X {0, 1} -> Block \cup {Zero}]
        /\ rt_rx \in [0 .. Ring - 1 -> Block \cup {Zero}]
        /\ rt_tx \in [0 .. Ring - 1 -> Block \cup {Zero}]
    BY DEF Init
  <2>3. {first, err} \subseteq BOOLEAN /\ isr \in Frame \cup {None} /\ step \in Steps
    BY DEF Init, Steps
  <2>4. irqs \in 0 .. 1 /\ lost \in 0 .. MaxLost
    BY DEF Init
  <2> QED
    BY <1>2, <2>1, <2>2, <2>3, <2>4 DEF TypeOK
<1>4. InStepInv
  BY DEF Init, InStepInv, Pair
<1>5. Position /\ UnderWay /\ Returned /\ ~err
  BY DEF Init, Position, UnderWay, Returned, None
<1>6. Numbers
  <2>1. NextCheck = 0 /\ rxstate = 0 /\ txstate = Ring
    BY <1>1 DEF Init, NextCheck
  <2>2. \A f \in Frame : Ahead(f) = f
    BY <2>1 DEF Ahead, Frame
  <2>3. \A f \in Frame, j \in {0, 1} : 2 * f + j < Blocks /\ 2 * f \in Nat
    BY DEF Frame
  <2>4. rxstate \in Block /\ txstate = Wrap(rxstate + Ring)
    BY <1>1, <2>1 DEF Wrap, Block
  <2>5. ASSUME NEW f \in Frame, NEW j \in {0, 1}
        PROVE  txbufs[f, j] = Wrap(rxstate + 2 * Ahead(f) + j)
    <3>1. txbufs[f, j] = 2 * f + j
      BY <1>2, Zenon
    <3>2. 2 * f + j < Blocks /\ 2 * f + j \in Nat
      <4>1. j = 0 \/ j = 1
        OBVIOUS
      <4> QED
        BY <4>1 DEF Frame
    <3>3. rxstate + 2 * Ahead(f) + j = 2 * f + j
      <4>1. Ahead(f) = f /\ f \in Nat /\ j \in Nat
        BY <2>2 DEF Frame
      <4> QED
        BY <2>1, <4>1
    <3>4. Wrap(2 * f + j) = 2 * f + j
      BY <3>2 DEF Wrap
    <3> QED
      BY <3>1, <3>3, <3>4, Zenon
  <2> QED
    BY <2>4, <2>5 DEF Numbers
<1> QED
  BY <1>3, <1>4, <1>5, <1>6 DEF ExchangeInv, Undisturbed

LEMMA SyncType == TypeOK /\ InStepInv /\ Sync => TypeOK' /\ InStepInv'
BY DEF TypeOK, InStepInv, Sync, bc, rt, Pair, PairBefore, Steps, Ring

LEMMA SendType ==
  ASSUME NEW j \in {0, 1}, TypeOK, InStepInv, Send(j)
  PROVE  TypeOK' /\ InStepInv'
<1> DEFINE next == (rxpos + 1) % Ring
<1>1. /\ rxpos \in 0 .. Ring - 1 /\ Ring \in Nat /\ Ring = 2 * NFrames
      /\ next = IF rxpos + 1 = Ring THEN 0 ELSE rxpos + 1
      /\ next \in 0 .. Ring - 1
  BY NextEntry DEF TypeOK
<1>2. irqs = 0 \/ (step = "send1" /\ irqs = 1 /\ rxpos % 2 = 0)
  <2>1. step = "send0" \/ step = "send1"
    BY DEF Send
  <2>2. irqs = 0 \/ irqs = 1
    BY DEF TypeOK
  <2> QED
    BY <2>1, <2>2 DEF InStepInv
<1>3. \/ rxpos' = next /\ irqs' = irqs + (rxpos % 2) /\ lost' = lost
      \/ lost < MaxLost /\ lost' = lost + 1 /\ rxpos' = rxpos /\ irqs' = irqs
  BY DEF Send
<1> HIDE DEF next
<1>4. irqs' \in 0 .. 1
  BY <1>1, <1>2, <1>3
<1>5. TypeOK'
  <2>1. txbufs[frame, j] \in Block
    BY DEF TypeOK
  <2>2. rt_rx' \in [0 .. Ring - 1 -> Block \cup {Zero}]
    <3>1. rt_rx \in [0 .. Ring - 1 -> Block \cup {Zero}]
      BY DEF TypeOK
    <3>2. rt_rx' = rt_rx \/ rt_rx' = [rt_rx EXCEPT ![rxpos] = txbufs[frame, j]]
      BY DEF Send
    <3> QED
      BY <2>1, <3>1, <3>2
  <2>3. rxpos' \in 0 .. Ring - 1 /\ lost' \in 0 .. MaxLost
    <3>1. lost \in 0 .. MaxLost
      BY DEF TypeOK
    <3> QED
      BY <1>1, <1>3, <3>1
  <2>4. step' \in Steps
    BY DEF Send, Steps
  <2> QED
    BY <1>4, <2>2, <2>3, <2>4 DEF Send, TypeOK, bc
<1>6. InStepInv'
  <2>1. /\ step' = "send1" \/ step' = "ask0"
        /\ step = "send0" => step' = "send1"
        /\ step = "send1" => step' = "ask0"
        /\ last_entry' = last_entry
    BY DEF Send
  <2>2. last_entry = IF irqs = 0 THEN Pair ELSE PairBefore
    BY DEF InStepInv
  <2>3. irqs' = 0 \/ irqs' = 1
    BY <1>4
  <2>4. step' = "send1" /\ irqs' = 1 => rxpos' % 2 = 0
    BY <1>1, <1>2, <1>3, <2>1
  <2>5. last_entry' = IF irqs' = 0 THEN Pair' ELSE PairBefore'
    <3>1. CASE irqs = 1
      BY <1>1, <1>2, <1>3, <2>1, <2>2, <3>1 DEF Pair, PairBefore
    <3>2. CASE irqs = 0
      <4>1. last_entry' = rxpos - (rxpos % 2)
        BY <2>1, <2>2, <3>2 DEF Pair
      <4>2. CASE rxpos % 2 = 0
        BY <1>1, <1>3, <3>2, <4>1, <4>2 DEF Pair, PairBefore
      <4>3. CASE rxpos % 2 = 1
        BY <1>1, <1>3, <3>2, <4>1, <4>3 DEF Pair, PairBefore
      <4> QED
        BY <1>1, <4>2, <4>3
    <3> QED
      BY <1>2, <3>1, <3>2
  <2> QED
    BY <2>1, <2>4, <2>5 DEF InStepInv
<1> QED
  BY <1>5, <1>6

LEMMA AskType ==
  ASSUME NEW j \in {0, 1}, TypeOK, InStepInv, Ask(j)
  PROVE  TypeOK' /\ InStepInv'
<1>1. txpos \in 0 .. Ring - 1 /\ (txpos + 1) % Ring \in 0 .. Ring - 1
  BY NextEntry DEF TypeOK
<1>2. frame' \in Frame /\ step' \in Steps
  BY Frames DEF TypeOK, Ask, Steps
<1>3. rxbufs' \in [Frame \X {0, 1} -> Block \cup {Zero}]
  <2>1. rt_tx[txpos] \in Block \cup {Zero}
    BY <1>1 DEF TypeOK
  <2> QED
    BY <2>1, OneBlock DEF TypeOK, Ask
<1>4. TypeOK'
  BY <1>1, <1>2, <1>3 DEF TypeOK, Ask
<1> QED
  BY <1>4 DEF InStepInv, TypeOK, Ask, Pair, PairBefore

LEMMA BcIsrType == TypeOK /\ InStepInv /\ BcIsr => TypeOK' /\ InStepInv'
<1> SUFFICES ASSUME TypeOK, InStepInv, BcIsr
             PROVE  TypeOK' /\ InStepInv'
  OBVIOUS
<1>1. InStepInv'
  BY DEF InStepInv, TypeOK, BcIsr, rt, Pair, PairBefore
<1>2. /\ txbufs' \in [Frame \X {0, 1} -> Block]
      /\ rxbufs' \in [Frame \X {0, 1} -> Block \cup {Zero}]
      /\ txstate' \in Block /\ rxstate' \in Block \cup {Garbled}
      /\ first' \in BOOLEAN /\ err' \in BOOLEAN
  <2>1. CASE first
    BY <2>1 DEF BcIsr, TypeOK
  <2>2. CASE ~first
    <3>1. isr \in Frame /\ Last(isr) \in Frame
      BY Frames DEF BcIsr, TypeOK
    <3>2. /\ txstate \in Block /\ (txstate + 1) % Blocks \in Block /\ (txstate + 2) % Blocks \in Block
      <4>1. txstate \in Block
        BY DEF TypeOK
      <4>2. txstate + 1 \in 0 .. 2 * Blocks - 1 /\ txstate + 2 \in 0 .. 2 * Blocks - 1
        BY <4>1 DEF Block
      <4> QED
        BY <4>1, <4>2, Wrapped
    <3>3. txbufs' \in [Frame \X {0, 1} -> Block]
      <4>1. txbufs' = [txbufs EXCEPT ![<<Last(isr), 0>>] = txstate,
                                     ![<<Last(isr), 1>>] = (txstate + 1) % Blocks]
        BY <2>2 DEF BcIsr
      <4>2. txbufs \in [Frame \X {0, 1} -> Block]
        BY DEF TypeOK
      <4> HIDE DEF Block, Frame
      <4> QED
        BY <3>1, <3>2, <4>1, <4>2, BothBlocks
    <3>4. rxbufs' \in [Frame \X {0, 1} -> Block \cup {Zero}]
      BY <2>2, <3>1, BothBlocks DEF BcIsr, TypeOK
    <3>5. \A b \in Block \cup {Zero} : Checked(b) \in Block \cup {Garbled}
      BY DEF Checked, Block, Zero
    <3>6. rxstate' \in Block \cup {Garbled}
      <4>1. rxbufs[Last(isr), 1] \in Block \cup {Zero}
        BY <3>1 DEF TypeOK
      <4> QED
        BY <2>2, <3>5, <4>1 DEF BcIsr
    <3>7. err' \in BOOLEAN
      BY <2>2 DEF BcIsr
    <3>8. txstate' \in Block /\ first' \in BOOLEAN
      BY <2>2, <3>2 DEF BcIsr, TypeOK
    <3> QED
      BY <3>3, <3>4, <3>6, <3>7, <3>8
  <2> QED
    BY <2>1, <2>2
<1>3. isr' = None /\ UNCHANGED <<frame, step, rt, lost>>
  BY DEF BcIsr
<1>4. TypeOK'
  BY <1>2, <1>3 DEF TypeOK, rt
<1> QED
  BY <1>1, <1>4

LEMMA RtIsrEntries ==
  ASSUME TypeOK, InStepInv, RtRxIsr
  PROVE  /\ irqs = 1 /\ irqs' = 0
         /\ last_entry = PairBefore /\ last_entry + 1 \in 0 .. Ring - 1
         /\ last_entry' = Pair /\ Pair \in 0 .. Ring - 1
         /\ rt_tx' \in [0 .. Ring - 1 -> Block \cup {Zero}]
         /\ rt_tx'[last_entry] = rt_rx[last_entry]
         /\ rt_tx'[last_entry + 1] = rt_rx[last_entry + 1]
<1>1. irqs = 1 /\ irqs' = 0
  BY DEF RtRxIsr, TypeOK
<1>2. /\ last_entry = PairBefore /\ last_entry + 1 \in 0 .. Ring - 1
      /\ last_entry' = Pair /\ Pair \in 0 .. Ring - 1 /\ last_entry \in 0 .. Ring - 1
  BY <1>1 DEF RtRxIsr, TypeOK, InStepInv, Pair, PairBefore, Ring
<1> DEFINE E == Block \cup {Zero}
<1>3. /\ rt_tx \in [0 .. Ring - 1 -> E] /\ rt_rx \in [0 .. Ring - 1 -> E]
      /\ rt_tx' = [rt_tx EXCEPT ![last_entry] = rt_rx[last_entry],
                                ![last_entry + 1] = rt_rx[last_entry + 1]]
  BY DEF RtRxIsr, TypeOK
<1> HIDE DEF E
<1>4. /\ rt_tx' \in [0 .. Ring - 1 -> E]
      /\ rt_tx'[last_entry] = rt_rx[last_entry] /\ rt_tx'[last_entry + 1] = rt_rx[last_entry + 1]
  BY <1>2, <1>3
<1> QED
  BY <1>1, <1>2, <1>4 DEF E

LEMMA RtIsrType == TypeOK /\ InStepInv /\ RtRxIsr => TypeOK' /\ InStepInv'
<1> SUFFICES ASSUME TypeOK, InStepInv, RtRxIsr
             PROVE  TypeOK' /\ InStepInv'
  OBVIOUS
<1>1. UNCHANGED <<bc, core, rt_rx, rxpos, txpos, lost>>
  BY DEF RtRxIsr
<1> QED
  BY <1>1, RtIsrEntries DEF TypeOK, InStepInv, bc, core, Pair

-----------------------------------------------------------------------------
(* The second part: a step that loses nothing when nothing was lost.       *)

Whole == TypeOK /\ InStepInv /\ Position /\ UnderWay /\ Returned /\ Numbers /\ ~err

LEMMA NumbersKept ==
  ASSUME Numbers, NextCheck' = NextCheck, UNCHANGED <<txbufs, rxstate, txstate>>
  PROVE  Numbers'
<1>1. \A f \in Frame : Ahead(f)' = Ahead(f)
  BY DEF Ahead
<1> QED
  BY <1>1 DEF Numbers, Wrap

LEMMA SyncWhole ==
  ASSUME Whole, Sync
  PROVE  (Position /\ UnderWay /\ Returned /\ Numbers /\ ~err)'
<1>1. /\ frame \in Frame /\ None \notin Frame
      /\ step = "sync" /\ isr = None /\ step' = "send0" /\ isr' = frame
      /\ UNCHANGED <<first, err, txbufs, rxbufs, rxstate, txstate, frame, rt_rx, rt_tx, rxpos, txpos, irqs>>
  BY DEF Sync, bc, rt, Whole, TypeOK, Frame, None
<1>2. Position'
  BY <1>1 DEF Whole, Position, None
<1>3. UnderWay'
  BY <1>1 DEF UnderWay
<1>4. Returned'
  BY <1>1 DEF Whole, Returned, Echoed
<1>5. NextCheck' = NextCheck
  BY <1>1 DEF NextCheck
<1>6. Numbers'
  BY <1>1, <1>5, NumbersKept DEF Whole
<1> QED
  BY <1>1, <1>2, <1>3, <1>4, <1>6 DEF Whole

LEMMA SendWhole ==
  ASSUME NEW j \in {0, 1}, Whole, Send(j), lost' = lost
  PROVE  (Position /\ UnderWay /\ Returned /\ Numbers /\ ~err)'
<1> DEFINE next == (rxpos + 1) % Ring
<1>1. /\ rxpos \in 0 .. Ring - 1 /\ Ring \in Nat /\ Ring = 2 * NFrames
      /\ next = IF rxpos + 1 = Ring THEN 0 ELSE rxpos + 1
      /\ next \in 0 .. Ring - 1
  BY NextEntry DEF Whole, TypeOK
<1> DEFINE Put == rt_rx' = [rt_rx EXCEPT ![rxpos] = txbufs[frame, j]]
<1>2. /\ UNCHANGED <<frame, isr, first, err, txbufs, rxbufs, rxstate, txstate, rt_tx, txpos>>
      /\ step = (IF j = 0 THEN "send0" ELSE "send1") /\ step' = (IF j = 0 THEN "send1" ELSE "ask0")
      /\ (Put /\ rxpos' = next /\ irqs' = irqs + (rxpos % 2)) \/ lost' = lost + 1
  BY Zenon DEF Send, bc
<1> HIDE DEF Put
<1>3. Put /\ rxpos' = next /\ irqs' = irqs + (rxpos % 2) /\ frame \in 0 .. NFrames - 1
  <2>1. lost \in Nat /\ frame \in Frame
    BY DEF Whole, TypeOK
  <2> QED
    BY <1>2, <2>1 DEF Frame
<1>4. /\ j = 0 => step = "send0" /\ step' = "send1"
      /\ j = 1 => step = "send1" /\ step' = "ask0"
  BY <1>2
<1>6. rxpos = 2 * frame + j /\ txpos = 2 * frame
  BY <1>3, <1>4 DEF Whole, Position
<1> HIDE DEF next
<1>7. irqs = 0 /\ irqs' = j
  <2>1. irqs \in {0, 1} /\ (step = "send0" => irqs = 0) /\ (step = "send1" /\ irqs = 1 => rxpos % 2 = 0)
    BY DEF Whole, TypeOK, InStepInv
  <2>2. rxpos % 2 = j
    BY <1>3, <1>6
  <2> QED
    BY <1>3, <1>4, <2>1, <2>2
<1>8. Position'
  <2>1. /\ isr # None => isr = frame
        /\ ~(first /\ isr = None)
        /\ first => frame = 0 /\ isr = 0
    BY <1>4 DEF Whole, Position
  <2>2. rxpos' = IF j = 0 THEN 2 * frame + 1 ELSE IF frame = NFrames - 1 THEN 0 ELSE 2 * frame + 2
    BY <1>1, <1>3, <1>6
  <2> QED
    BY <1>2, <1>3, <1>4, <1>6, <1>7, <2>1, <2>2 DEF Position
<1>9. UnderWay'
  <2>1. rt_rx \in [0 .. Ring - 1 -> Block \cup {Zero}]
    BY DEF Whole, TypeOK
  <2>2. rt_rx'[2 * frame + j] = txbufs[frame, j]
    BY <1>1, <1>3, <1>6, <2>1 DEF Put
  <2>3. j = 1 => rt_rx'[2 * frame] = rt_rx[2 * frame]
    <3>1. 2 * frame \in 0 .. Ring - 1 /\ (j = 1 => 2 * frame # rxpos)
      BY <1>1, <1>3, <1>6
    <3> QED
      BY <1>1, <1>3, <2>1, <3>1 DEF Put
  <2>4. CASE j = 0
    <3>1. 2 * frame + 0 = 2 * frame
      BY <1>3
    <3>2. rt_rx'[2 * frame] = txbufs[frame, 0]
      BY <2>2, <2>4, <3>1
    <3> QED
      BY <1>2, <1>4, <2>4, <3>2 DEF UnderWay
  <2>5. CASE j = 1
    <3>1. rt_rx[2 * frame] = txbufs[frame, 0]
      BY <1>4, <2>5 DEF Whole, UnderWay
    <3>2. rt_rx'[2 * frame] = txbufs[frame, 0]
      BY <2>3, <2>5, <3>1
    <3> QED
      BY <1>2, <1>4, <1>7, <2>2, <2>5, <3>2 DEF UnderWay
  <2> QED
    BY <2>4, <2>5
<1>10. Returned'
  <2>1. step' # "sync"
    BY <1>4
  <2> QED
    BY <1>2, <2>1 DEF Whole, Returned, Echoed
<1>11. NextCheck' = NextCheck
  BY <1>2, <1>4 DEF NextCheck
<1>12. Numbers'
  BY <1>2, <1>11, NumbersKept DEF Whole
<1> QED
  BY <1>2, <1>8, <1>9, <1>10, <1>12 DEF Whole

LEMMA AskWhole ==
  ASSUME NEW j \in {0, 1}, Whole, Ask(j), lost' = lost
  PROVE  (Position /\ UnderWay /\ Returned /\ Numbers /\ ~err)'
<1> DEFINE next == (txpos + 1) % Ring
<1>1. /\ txpos \in 0 .. Ring - 1 /\ Ring \in Nat /\ Ring = 2 * NFrames
      /\ next = IF txpos + 1 = Ring THEN 0 ELSE txpos + 1
  BY NextEntry DEF Whole, TypeOK
<1>2. /\ UNCHANGED <<isr, first, err, txbufs, rxstate, txstate, rt_rx, rt_tx, rxpos, irqs>>
      /\ irqs = 0 /\ frame \in Frame /\ txpos' = next
      /\ j = 0 => step = "ask0" /\ step' = "ask1" /\ frame' = frame
      /\ j = 1 => step = "ask1" /\ step' = "sync" /\ frame' = (frame + 1) % NFrames
  <2>1. lost \in Nat /\ frame \in Frame
    BY DEF Whole, TypeOK
  <2> QED
    BY <2>1 DEF Ask
<1>3. /\ Last(frame) \in Frame /\ Last(frame) # frame
      /\ Last((frame + 1) % NFrames) = frame
      /\ (frame + 1) % NFrames = IF frame = NFrames - 1 THEN 0 ELSE frame + 1
  BY <1>2, Frames
<1>4. txpos = 2 * frame + j
  BY <1>2 DEF Whole, Position, Frame
<1>5. \A k \in Frame, i \in {0, 1} :
        rxbufs'[k, i] = IF k = frame /\ i = j THEN rt_tx[txpos] ELSE rxbufs[k, i]
  <2>1. rxbufs' = [rxbufs EXCEPT ![<<frame, j>>] = rt_tx[txpos]]
    <3>1. lost \in Nat
      BY DEF Whole, TypeOK
    <3> QED
      BY <3>1 DEF Ask
  <2>2. rxbufs \in [Frame \X {0, 1} -> Block \cup {Zero}] /\ rt_tx[txpos] \in Block \cup {Zero}
    BY <1>1 DEF Whole, TypeOK
  <2> QED
    BY <1>2, <2>1, <2>2, OneBlock
<1>6. rt_tx[txpos] = txbufs[frame, j]
  <2>1. step \in {"ask0", "ask1"} /\ irqs = 0
    BY <1>2
  <2>2. rt_tx[2 * frame] = txbufs[frame, 0] /\ rt_tx[2 * frame + 1] = txbufs[frame, 1]
    BY <2>1 DEF Whole, UnderWay
  <2>3. j = 0 => txpos = 2 * frame
    BY <1>2, <1>4 DEF Frame
  <2> QED
    BY <1>4, <2>2, <2>3
<1>7. isr = None \/ isr = frame
  BY <1>2 DEF Whole, Position
<1> HIDE DEF next
<1>8. Position'
  <2>1. CASE j = 0
    BY <1>1, <1>2, <1>4, <1>7, <2>1 DEF Whole, Position, Frame
  <2>2. CASE j = 1
    <3>1. frame' = IF frame = NFrames - 1 THEN 0 ELSE frame + 1
      BY <1>2, <1>3, <2>2
    <3>2. Last(frame') = frame
      BY <1>2, <1>3, <2>2
    <3>3. /\ rxpos = IF frame = NFrames - 1 THEN 0 ELSE 2 * frame + 2
          /\ first => frame = 0 /\ isr = 0
      BY <1>2, <2>2 DEF Whole, Position
    <3>4. rxpos' = 2 * frame' /\ txpos' = 2 * frame'
      BY <1>1, <1>2, <1>4, <2>2, <3>1, <3>3 DEF Frame
    <3>5. first' => frame' = 1 /\ isr' = 0
      BY <1>2, <3>1, <3>3
    <3> QED
      BY <1>2, <1>7, <2>2, <3>2, <3>4, <3>5 DEF Position, None
  <2> QED
    BY <2>1, <2>2
<1>9. UnderWay'
  <2>1. CASE j = 0
    <3>1. rxbufs'[frame, 0] = txbufs[frame, 0]
      BY <1>2, <1>5, <1>6, <2>1
    <3> QED
      BY <1>2, <2>1, <3>1 DEF Whole, UnderWay
  <2>2. CASE j = 1
    BY <1>2, <2>2 DEF UnderWay
  <2> QED
    BY <2>1, <2>2
<1> DEFINE Back(f) == \A i \in {0, 1} : rxbufs'[f, i] = txbufs'[f, i]
<1>10. ASSUME NEW k \in Frame, k # frame, Echoed(k)
       PROVE  Back(k)
  <2>1. \A i \in {0, 1} : rxbufs'[k, i] = rxbufs[k, i]
    BY <1>5, <1>10, Zenon
  <2> QED
    BY <1>2, <1>10, <2>1, Zenon DEF Echoed
<1>11. j = 1 => Back(frame)
  <2>1. SUFFICES ASSUME j = 1, NEW i \in {0, 1}
                 PROVE  rxbufs'[frame, i] = txbufs'[frame, i]
    OBVIOUS
  <2>2. rxbufs[frame, 0] = txbufs[frame, 0]
    BY <1>2, <2>1 DEF Whole, UnderWay
  <2>3. i = 0 \/ i = j
    BY <2>1
  <2>4. rxbufs'[frame, i] = IF i = j THEN rt_tx[txpos] ELSE rxbufs[frame, i]
    BY <1>2, <1>5, Zenon
  <2> QED
    BY <1>2, <1>6, <2>2, <2>3, <2>4, Zenon
<1>12. Returned'
  <2>1. isr # None /\ ~first => Back(Last(isr))
    <3> HIDE DEF Back
    <3>1. isr # None /\ ~first => isr = frame /\ Echoed(Last(isr)) /\ Last(frame) \in Frame /\ Last(frame) # frame
      BY <1>3, <1>7 DEF Whole, Returned
    <3> QED
      BY <1>10, <3>1, Zenon
  <2>2. step' = "sync" => Back(Last(frame'))
    <3> HIDE DEF Back
    <3>1. step' = "sync" => j = 1 /\ Last(frame') = frame
      BY <1>2, <1>3
    <3> QED
      BY <1>11, <3>1, Zenon
  <2>3. (Echoed(Last(frame)))' <=> Back(Last(frame'))
    BY Zenon DEF Echoed
  <2>4. (Echoed(Last(isr)))' <=> Back(Last(isr'))
    BY Zenon DEF Echoed
  <2> HIDE DEF Back
  <2> QED
    BY <1>2, <2>1, <2>2, <2>3, <2>4, Zenon DEF Returned
<1>13. NextCheck' = NextCheck
  <2>1. step' = "sync" => Last(frame') = frame
    BY <1>2, <1>3
  <2>2. step # "sync" /\ (step' # "sync" => frame' = frame)
    BY <1>2
  <2> QED
    BY <1>2, <2>1, <2>2 DEF NextCheck
<1>14. Numbers'
  BY <1>2, <1>13, NumbersKept DEF Whole
<1> QED
  BY <1>2, <1>8, <1>9, <1>12, <1>14 DEF Whole

(* The check of a frame moves what is expected, and what is sent there     *)
(* next, on by the two blocks.                                             *)
LEMMA CheckWhole ==
  ASSUME Whole, BcIsr, ~first
  PROVE  /\ UNCHANGED <<first, frame, step, rt_rx, rt_tx, rxpos, txpos, irqs>>
         /\ isr \in Frame /\ isr' = None /\ NextCheck = Last(isr)
         /\ err' = FALSE /\ Numbers'
         /\ \A k \in Frame, i \in {0, 1} :
              k # Last(isr) => rxbufs'[k, i] = rxbufs[k, i] /\ txbufs'[k, i] = txbufs[k, i]
<1> DEFINE f == Last(isr)
           b0 == rxbufs[f, 0]
           b1 == rxbufs[f, 1]
<1>1. /\ isr # None /\ isr' = None /\ first' = first
      /\ UNCHANGED <<frame, step, rt_rx, rt_tx, rxpos, txpos, irqs>>
  BY Zenon DEF BcIsr, rt
<1>2. isr \in Frame /\ f \in Frame /\ f # isr
  BY <1>1, Frames DEF Whole, TypeOK
<1>3. /\ err' = (b0 # rxstate \/ b1 # Checked(b0))
      /\ rxstate' = Checked(b1) /\ txstate' = (txstate + 2) % Blocks
      /\ rxbufs' = [rxbufs EXCEPT ![<<f, 0>>] = Zero, ![<<f, 1>>] = Zero]
      /\ txbufs' = [txbufs EXCEPT ![<<f, 0>>] = txstate, ![<<f, 1>>] = (txstate + 1) % Blocks]
  BY Zenon DEF BcIsr
<1>4. NextCheck = f
  BY <1>1 DEF NextCheck
<1>5. rxstate \in Block /\ txstate = Wrap(rxstate + Ring)
  BY DEF Whole, Numbers
<1>a. \A k \in Frame, i \in {0, 1} : txbufs[k, i] = Wrap(rxstate + 2 * Ahead(k) + i)
  BY DEF Whole, Numbers
<1>6. Ring \in 0 .. Blocks - 1 /\ Ring = 2 * NFrames
  BY DEF Ring
<1>7. /\ Wrap(rxstate) = rxstate /\ Wrap(rxstate + 1) \in Block /\ Wrap(rxstate + 2) \in Block
      /\ (rxstate + 1) % Blocks = Wrap(rxstate + 1)
      /\ (Wrap(rxstate + 1) + 1) % Blocks = Wrap(rxstate + 2)
  <2>1. rxstate + 1 \in 0 .. 2 * Blocks - 1 /\ Wrap(rxstate + 1) + 1 \in 0 .. 2 * Blocks - 1
    BY <1>5 DEF Wrap, Block
  <2>2. Wrap(Wrap(rxstate + 1) + 1) = Wrap(rxstate + 2)
    BY <1>5 DEF Wrap, Block
  <2>3. (rxstate + 1) % Blocks = Wrap(rxstate + 1) /\ (Wrap(rxstate + 1) + 1) % Blocks = Wrap(Wrap(rxstate + 1) + 1)
    BY <2>1, Wrapped
  <2> QED
    BY <1>5, <2>2, <2>3 DEF Wrap, Block
<1>8. /\ txstate' = Wrap(Wrap(rxstate + 2) + Ring)
      /\ txstate = Wrap(Wrap(rxstate + 2) + 2 * (NFrames - 1))
      /\ (txstate + 1) % Blocks = Wrap(Wrap(rxstate + 2) + 2 * (NFrames - 1) + 1)
      /\ txstate \in Block /\ (txstate + 1) % Blocks \in Block
  <2>1. txstate \in Block /\ txstate + 1 \in 0 .. 2 * Blocks - 1 /\ txstate + 2 \in 0 .. 2 * Blocks - 1
    BY <1>5, <1>6 DEF Wrap, Block
  <2>2. txstate' = Wrap(txstate + 2) /\ (txstate + 1) % Blocks = Wrap(txstate + 1) /\ Wrap(txstate + 1) \in Block
    BY <1>3, <2>1, Wrapped
  <2>3. Wrap(txstate + 2) = Wrap(Wrap(rxstate + 2) + Ring)
    BY <1>5, <1>6 DEF Wrap, Block
  <2>4. txstate = Wrap(Wrap(rxstate + 2) + 2 * (NFrames - 1))
    BY <1>5, <1>6 DEF Wrap, Block
  <2>5. Wrap(txstate + 1) = Wrap(Wrap(rxstate + 2) + 2 * (NFrames - 1) + 1)
    BY <1>5, <1>6 DEF Wrap, Block
  <2> QED
    BY <2>1, <2>2, <2>3, <2>4, <2>5
<1>9. b0 = rxstate /\ b1 = Wrap(rxstate + 1)
  <2>1. Echoed(f)
    BY <1>1 DEF Whole, Returned
  <2>2. rxbufs[f, 0] = txbufs[f, 0] /\ rxbufs[f, 1] = txbufs[f, 1]
    BY <2>1, Zenon DEF Echoed
  <2>3. txbufs[f, 0] = Wrap(rxstate + 2 * Ahead(f) + 0) /\ txbufs[f, 1] = Wrap(rxstate + 2 * Ahead(f) + 1)
    BY <1>2, <1>a, Zenon
  <2>4. Ahead(f) = 0
    BY <1>2, <1>4 DEF Ahead, Frame
  <2>5. rxstate + 2 * Ahead(f) + 0 = rxstate /\ rxstate + 2 * Ahead(f) + 1 = rxstate + 1
    BY <1>5, <2>4 DEF Block
  <2> QED
    BY <1>7, <2>2, <2>3, <2>5, Zenon
<1>10. rxstate' = Wrap(rxstate + 2) /\ Checked(b0) = b1
  <2>1. Zero \notin Block
    BY DEF Zero, Block
  <2>2. /\ Checked(rxstate) = (rxstate + 1) % Blocks
        /\ Checked(Wrap(rxstate + 1)) = (Wrap(rxstate + 1) + 1) % Blocks
    BY <1>5, <1>7, <2>1, Zenon DEF Checked
  <2> HIDE DEF b0, b1
  <2> QED
    BY <1>3, <1>7, <1>9, <2>2, Zenon
<1>11. err' = FALSE
  <2> HIDE DEF b0, b1
  <2>1. ~(b0 # rxstate \/ b1 # Checked(b0))
    BY <1>9, <1>10, Zenon
  <2> QED
    BY <1>3, <2>1, Zenon
<1>12. /\ Refilled(rxbufs', rxbufs, f, Zero, Zero)
       /\ Refilled(txbufs', txbufs, f, txstate, (txstate + 1) % Blocks)
  <2>1. rxbufs \in [Frame \X {0, 1} -> Block \cup {Zero}] /\ txbufs \in [Frame \X {0, 1} -> Block]
    BY DEF Whole, TypeOK
  <2>2. Zero \in Block \cup {Zero}
    OBVIOUS
  <2> HIDE DEF f
  <2>3. Refilled(rxbufs', rxbufs, f, Zero, Zero)
    BY <1>2, <1>3, <2>1, <2>2, BothBlocks, Zenon
  <2>4. Refilled(txbufs', txbufs, f, txstate, (txstate + 1) % Blocks)
    BY <1>2, <1>3, <1>8, <2>1, BothBlocks, Zenon
  <2> QED
    BY <2>3, <2>4
<1>13. Numbers'
  <2>1. NextCheck' = isr
    <3>1. isr = IF step = "sync" THEN Last(frame) ELSE frame
      BY <1>1 DEF Whole, Position
    <3>2. NextCheck' = IF step = "sync" THEN Last(frame) ELSE frame
      BY <1>1, Zenon DEF NextCheck, Last
    <3> QED
      BY <3>1, <3>2
  <2>2. ASSUME NEW k \in Frame
        PROVE  /\ Ahead(k)' = IF k = f THEN NFrames - 1 ELSE Ahead(k) - 1
               /\ Ahead(k) \in 0 .. NFrames - 1 /\ (k # f => Ahead(k) > 0)
    BY <1>2, <1>4, <2>1 DEF Ahead, Last, Frame
  <2>3. ASSUME NEW k \in Frame, NEW i \in {0, 1}
        PROVE  txbufs'[k, i] = Wrap(Wrap(rxstate + 2) + 2 * Ahead(k)' + i)
    <3>1. CASE k = f
      <4>1. Ahead(k)' = NFrames - 1
        BY <2>2, <3>1
      <4>2. txbufs'[k, i] = IF i = 0 THEN txstate ELSE (txstate + 1) % Blocks
        BY <1>12, <3>1, Zenon DEF Refilled
      <4>3. CASE i = 0
        <5>1. Wrap(rxstate + 2) + 2 * (NFrames - 1) + 0 = Wrap(rxstate + 2) + 2 * (NFrames - 1)
          BY <1>7 DEF Block
        <5> QED
          BY <1>8, <4>1, <4>2, <4>3, <5>1, Zenon
      <4>4. CASE i = 1
        <5>1. i # 0
          BY <4>4
        <5> QED
          BY <1>8, <4>1, <4>2, <4>4, <5>1, Zenon
      <4> QED
        BY <4>3, <4>4
    <3>2. CASE k # f
      <4>1. Ahead(k)' = Ahead(k) - 1 /\ Ahead(k) \in 1 .. NFrames - 1
        BY <2>2, <3>2
      <4>2. txbufs'[k, i] = Wrap(rxstate + 2 * Ahead(k) + i)
        BY <1>12, <1>a, <3>2, Zenon DEF Refilled
      <4>3. Wrap(rxstate + 2 * Ahead(k) + i) = Wrap(Wrap(rxstate + 2) + 2 * (Ahead(k) - 1) + i)
        BY <1>5, <4>1 DEF Wrap, Block
      <4> QED
        BY <4>1, <4>2, <4>3, Zenon
    <3> QED
      BY <3>1, <3>2
  <2>4. rxstate' \in Block /\ txstate' = Wrap(rxstate' + Ring)
    BY <1>7, <1>8, <1>10
  <2>5. \A k \in Frame, i \in {0, 1} : txbufs'[k, i] = Wrap(rxstate' + 2 * Ahead(k)' + i)
    BY <1>10, <2>3, Zenon
  <2> QED
    BY <2>4, <2>5 DEF Numbers, Wrap
<1> QED
  BY <1>1, <1>2, <1>4, <1>11, <1>12, <1>13, Zenon DEF Refilled

LEMMA BcIsrWhole ==
  ASSUME Whole, BcIsr
  PROVE  (Position /\ UnderWay /\ Returned /\ Numbers /\ ~err)'
<1>1. /\ isr # None /\ isr' = None
      /\ UNCHANGED <<frame, step, rt_rx, rt_tx, rxpos, txpos, irqs>>
      /\ isr = IF step = "sync" THEN Last(frame) ELSE frame
  BY Zenon DEF BcIsr, rt, Whole, Position
<1>2. frame \in Frame /\ Last(frame) \in Frame /\ Last(frame) # frame
  BY Frames DEF Whole, TypeOK
<1>3. CASE first
  <2>1. first' = FALSE /\ UNCHANGED <<txbufs, rxbufs, txstate, rxstate, err>>
    BY <1>3 DEF BcIsr
  <2>2. /\ isr = 0 /\ frame = (IF step = "sync" THEN 1 ELSE 0)
        /\ Echoed(Last(frame)) \/ step # "sync"
    BY <1>1, <1>3 DEF Whole, Position, Returned, None
  <2>3. Position'
    BY <1>1, <2>1, <2>2 DEF Whole, Position
  <2>4. UnderWay'
    BY <1>1, <2>1 DEF Whole, UnderWay
  <2>5. Returned'
    BY <1>1, <2>1, <2>2 DEF Returned, Echoed
  <2>6. NextCheck' = NextCheck
    BY <1>1, <1>3, <2>1, <2>2 DEF NextCheck, Last
  <2>7. Numbers'
    BY <2>1, <2>6, NumbersKept DEF Whole
  <2> QED
    BY <2>1, <2>3, <2>4, <2>5, <2>7 DEF Whole
<1>4. CASE ~first
  <2>1. /\ UNCHANGED <<first, frame, step, rt_rx, rt_tx, rxpos, txpos, irqs>>
        /\ isr \in Frame /\ err' = FALSE /\ Numbers'
    BY <1>4, CheckWhole
  <2>2. \A k \in Frame, i \in {0, 1} :
          k # Last(isr) => rxbufs'[k, i] = rxbufs[k, i] /\ txbufs'[k, i] = txbufs[k, i]
    BY <1>4, CheckWhole
  <2>3. Last(isr) \in Frame /\ Last(isr) # isr
    BY <2>1, Frames
  <2>4. Position'
    BY <1>1, <1>4, <2>1 DEF Whole, Position
  <2>5. step # "sync" => \A i \in {0, 1} : rxbufs'[frame, i] = rxbufs[frame, i] /\ txbufs'[frame, i] = txbufs[frame, i]
    <3>1. step # "sync" => frame # Last(isr)
      BY <1>1, <2>3
    <3> QED
      BY <1>2, <2>2, <3>1, Zenon
  <2>6. UnderWay'
    <3>1. step # "sync" => /\ rxbufs'[frame, 0] = rxbufs[frame, 0]
                           /\ txbufs'[frame, 0] = txbufs[frame, 0] /\ txbufs'[frame, 1] = txbufs[frame, 1]
      <4>1. 0 \in {0, 1} /\ 1 \in {0, 1}
        OBVIOUS
      <4> QED
        BY <2>5, <4>1, Zenon
    <3>2. UnderWay
      BY DEF Whole
    <3>3. step = "send1" \/ step = "ask0" \/ step = "ask1" => step # "sync"
      OBVIOUS
    <3> QED
      BY <1>1, <3>1, <3>2, <3>3, Zenon DEF UnderWay
  <2>7. Returned'
    <3>1. step = "sync" => \A i \in {0, 1} : rxbufs'[Last(frame), i] = txbufs'[Last(frame), i]
      <4>1. step = "sync" => Echoed(Last(frame)) /\ Last(frame) # Last(isr)
        BY <1>1, <1>4, <2>3 DEF Whole, Returned
      <4> QED
        BY <1>2, <2>2, <4>1, Zenon DEF Echoed
    <3> QED
      BY <1>1, <3>1, Zenon DEF Returned, Echoed, Last
  <2> QED
    BY <2>1, <2>4, <2>6, <2>7
<1> QED
  BY <1>3, <1>4

LEMMA RtIsrWhole ==
  ASSUME Whole, RtRxIsr
  PROVE  (Position /\ UnderWay /\ Returned /\ Numbers /\ ~err)'
<1>1. UNCHANGED <<txbufs, rxbufs, first, txstate, rxstate, err, frame, step, isr, rt_rx, rxpos, txpos>>
  BY Zenon DEF RtRxIsr, bc, core
<1>2. /\ irqs = 1 /\ irqs' = 0 /\ last_entry = PairBefore
      /\ rt_tx'[last_entry] = rt_rx[last_entry]
      /\ rt_tx'[last_entry + 1] = rt_rx[last_entry + 1]
  BY RtIsrEntries DEF Whole
<1>3. step = "ask0" /\ last_entry = 2 * frame
  <2>1. /\ frame \in 0 .. NFrames - 1 /\ Ring = 2 * NFrames
        /\ step \in Steps /\ step # "sync" /\ step # "send0" /\ step # "ask1"
        /\ step = "send1" => rxpos % 2 = 0
    BY <1>2 DEF Whole, TypeOK, InStepInv, Frame, Ring
  <2>2. step = "send1" => rxpos = 2 * frame + 1
    BY DEF Whole, Position
  <2>3. step = "ask0"
    BY <2>1, <2>2 DEF Steps
  <2>4. rxpos = IF frame = NFrames - 1 THEN 0 ELSE 2 * frame + 2
    BY <2>3 DEF Whole, Position
  <2> QED
    BY <1>2, <2>1, <2>3, <2>4 DEF Pair, PairBefore
<1>4. UnderWay'
  <2>1. UnderWay
    BY DEF Whole
  <2>2. rt_tx'[2 * frame] = txbufs[frame, 0] /\ rt_tx'[2 * frame + 1] = txbufs[frame, 1]
    BY <1>2, <1>3, <2>1 DEF UnderWay
  <2> QED
    BY <1>1, <1>3, <2>1, <2>2 DEF UnderWay
<1>5. Position'
  BY <1>1, <1>2 DEF Whole, Position
<1>6. Returned'
  BY <1>1, Zenon DEF Whole, Returned, Echoed, Last
<1>7. NextCheck' = NextCheck
  BY <1>1, Zenon DEF NextCheck, Last
<1>8. Numbers'
  BY <1>1, <1>7, NumbersKept DEF Whole
<1> QED
  BY <1>1, <1>4, <1>5, <1>6, <1>8 DEF Whole

-----------------------------------------------------------------------------
LEMMA NextExchange == ExchangeInv /\ [Next]_vars => ExchangeInv'
<1> SUFFICES ASSUME ExchangeInv, [Next]_vars
             PROVE  ExchangeInv'
  OBVIOUS
<1> DEFINE Rest == Position /\ UnderWay /\ Returned /\ Numbers /\ ~err
<1>1. TypeOK /\ InStepInv /\ (lost = 0 => Whole) /\ lost \in Nat
  BY DEF ExchangeInv, Undisturbed, Whole, TypeOK
<1>2. CASE Sync
  <2>1. TypeOK' /\ InStepInv' /\ lost' = lost
    BY <1>1, <1>2, SyncType DEF Sync
  <2>2. lost' = 0 => Rest'
    BY <1>1, <1>2, <2>1, SyncWhole
  <2> QED
    BY <2>1, <2>2 DEF ExchangeInv, Undisturbed
<1>3. ASSUME NEW j \in {0, 1}, Send(j)
      PROVE  ExchangeInv'
  <2>1. TypeOK' /\ InStepInv'
    BY <1>1, <1>3, SendType
  <2>2. lost' = 0 => lost' = lost
    <3>1. lost' = lost \/ lost' = lost + 1
      BY <1>3, Zenon DEF Send
    <3> QED
      BY <1>1, <3>1
  <2>3. lost' = 0 => Rest'
    BY <1>1, <1>3, <2>2, SendWhole
  <2> QED
    BY <2>1, <2>3 DEF ExchangeInv, Undisturbed
<1>4. ASSUME NEW j \in {0, 1}, Ask(j)
      PROVE  ExchangeInv'
  <2>1. TypeOK' /\ InStepInv'
    BY <1>1, <1>4, AskType
  <2>2. lost' = 0 => lost' = lost
    <3>1. lost' = lost \/ lost' = lost + 1
      BY <1>4, Zenon DEF Ask
    <3> QED
      BY <1>1, <3>1
  <2>3. lost' = 0 => Rest'
    BY <1>1, <1>4, <2>2, AskWhole
  <2> QED
    BY <2>1, <2>3 DEF ExchangeInv, Undisturbed
<1>5. CASE BcIsr
  <2>1. TypeOK' /\ InStepInv' /\ lost' = lost
    BY <1>1, <1>5, BcIsrType DEF BcIsr
  <2>2. lost' = 0 => Rest'
    BY <1>1, <1>5, <2>1, BcIsrWhole
  <2> QED
    BY <2>1, <2>2 DEF ExchangeInv, Undisturbed
<1>6. CASE RtRxIsr
  <2>1. TypeOK' /\ InStepInv' /\ lost' = lost
    BY <1>1, <1>6, RtIsrType DEF RtRxIsr
  <2>2. lost' = 0 => Rest'
    BY <1>1, <1>6, <2>1, RtIsrWhole
  <2> QED
    BY <2>1, <2>2 DEF ExchangeInv, Undisturbed
<1>7. CASE UNCHANGED vars
  <2>1. TypeOK' /\ InStepInv' /\ lost' = lost
    BY <1>1, <1>7 DEF vars, bc, core, rt, TypeOK, InStepInv, Pair, PairBefore
  <2>2. UNCHANGED <<txbufs, rxbufs, first, txstate, rxstate, err, frame, step, isr, rt_rx, rt_tx, rxpos, txpos, irqs>>
    BY <1>7, Zenon DEF vars, bc, core, rt
  <2>3. lost' = 0 => Rest'
    <3> SUFFICES ASSUME Whole
                 PROVE  Rest'
      BY <1>1, <2>1
    <3>1. Position'
      BY <2>2 DEF Whole, Position
    <3>2. UnderWay' /\ Returned' /\ NextCheck' = NextCheck /\ err' = err
      BY <2>2, Zenon DEF Whole, UnderWay, Returned, Echoed, Last, NextCheck
    <3> QED
      BY <2>2, <3>1, <3>2, NumbersKept DEF Whole
  <2> QED
    BY <2>1, <2>3 DEF ExchangeInv, Undisturbed
<1> QED
  BY <1>2, <1>3, <1>4, <1>5, <1>6, <1>7 DEF Next

(* The invariant: the terminal's routine is in step with its core          *)
(* whatever is lost, and while nothing was lost each block is where the    *)
(* position of the frame says, and has the number that is expected next.   *)
THEOREM Exchange == Spec => []ExchangeInv
BY InitInv, NextExchange, PTL DEF Spec

(* Every variable of the two ends has its type: at most one call of the    *)
(* terminal's service routine is ever due.                                 *)
THEOREM ExchangeTyping == Spec => []TypeOK
<1>1. ExchangeInv => TypeOK
  BY DEF ExchangeInv
<1> QED
  BY <1>1, Exchange, PTL

(* For any number of frames and whatever gets lost, the terminal's routine *)
(* copies the pair that has just come: it never falls out of step with the *)
(* core, whose position it does not look at.                               *)
THEOREM StaysInStep == Spec => []RtInStep
<1>1. ExchangeInv => RtInStep
  <2> SUFFICES ASSUME TypeOK, InStepInv
               PROVE  RtInStep
    BY DEF ExchangeInv
  <2>1. /\ Pair \in 0 .. Ring - 1 /\ Ring \in Nat /\ Ring >= 4 /\ irqs \in {0, 1}
        /\ Pair # 0 => Pair >= 2
    <3>1. rxpos \in 0 .. 2 * NFrames - 1 /\ irqs \in {0, 1}
      BY DEF TypeOK, Ring
    <3>2. /\ rxpos - (rxpos % 2) \in 0 .. 2 * NFrames - 1
          /\ rxpos - (rxpos % 2) # 0 => rxpos - (rxpos % 2) >= 2
      BY <3>1
    <3> QED
      BY <3>1, <3>2 DEF Pair, Ring
  <2>2. PICK x \in 0 .. 2 * Ring - 1 : x = Pair + Ring - 2 * irqs
    BY <2>1
  <2>3. x % Ring = IF x >= Ring THEN x - Ring ELSE x
    BY <2>1, Remainder
  <2>4. x % Ring = last_entry
    BY <2>1, <2>2, <2>3 DEF InStepInv, PairBefore
  <2> QED
    BY <2>2, <2>4 DEF RtInStep, Pair
<1> QED
  BY <1>1, Exchange, PTL

(* For any number of frames and any cycle of the words longer than the     *)
(* ring: while nothing is lost, what came back by the end of a frame is    *)
(* what was sent in it.                                                    *)
THEOREM EchoedInTheFrame == Spec => []EchoedInFrame
<1>1. ExchangeInv => EchoedInFrame
  BY Zenon DEF ExchangeInv, Undisturbed, Returned, Echoed, EchoedInFrame
<1> QED
  BY <1>1, Exchange, PTL

(* And no check of the controller ever fails, through every wrap of the    *)
(* frames, the rings and the words.                                        *)
THEOREM ChecksAgree == Spec => []NoSyncErr
<1>1. ExchangeInv => NoSyncErr
  BY DEF ExchangeInv, Undisturbed, NoSyncErr
<1> QED
  BY <1>1, Exchange, PTL

=============================================================================

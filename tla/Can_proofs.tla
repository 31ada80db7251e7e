----------------------------- MODULE Can_proofs -----------------------------
(***************************************************************************)
(* The CAN samples, each for any value of its constants: the loop-back     *)
(* tasks (CanLoop), the demo of the OCCAN library (OccanDemo), the GRCAN   *)
(* demos (GrCan) and the bit timing calculator (CanTiming).                *)
(***************************************************************************)
EXTENDS CanLoop, OccanDemo, GrCan, CanTiming,
        SequenceTheorems, NaturalsInduction, WellFoundedInduction, TLAPS

-----------------------------------------------------------------------------
(* Numbers.                                                                *)

(* A set of numbers has a smallest one.                                    *)
LEMMA Smallest ==
  ASSUME NEW T \in SUBSET Nat, T # {}
  PROVE  \E x \in T : \A y \in T : x <= y
<1>1. OpToRel(<, Nat) = {p \in Nat \X Nat : p[1] < p[2]}
  BY DEF OpToRel
<1>2. PICK x \in T : \A y \in T : ~ (<<y, x>> \in OpToRel(<, Nat))
  BY WFMin, NatLessThanWellFounded, Zenon
<1>3. ASSUME NEW y \in T PROVE x <= y
  <2>1. ~ (<<y, x>> \in {p \in Nat \X Nat : p[1] < p[2]})
    BY <1>1, <1>2, Zenon
  <2>2. x \in Nat /\ y \in Nat
    OBVIOUS
  <2> QED
    BY <2>1, <2>2
<1> QED
  BY <1>3

(* A set with 0, and with the number after each of its numbers, has them   *)
(* all: otherwise there is a least one it has not.                         *)
LEMMA Induction ==
  ASSUME NEW S \in SUBSET Nat, 0 \in S, \A n \in S : n + 1 \in S
  PROVE  S = Nat
<1> SUFFICES ASSUME Nat \ S # {} PROVE FALSE
  OBVIOUS
<1>1. PICK x \in Nat \ S : \A y \in Nat \ S : x <= y
  BY Smallest
<1>2. x \in Nat /\ x \notin S /\ x # 0
  OBVIOUS
<1>3. x - 1 \in Nat /\ ~ (x <= x - 1) /\ x - 1 + 1 = x
  BY <1>2
<1>4. x - 1 \in S
  BY <1>1, <1>3
<1> QED
  BY <1>2, <1>3, <1>4

-----------------------------------------------------------------------------
(* The loop-back tasks: each channel gets its own messages back.           *)

Own(q, c, changed) == \A i \in DOMAIN q : q[i].chan = c /\ q[i].changed = changed
Rising(q) == \A i, k \in DOMAIN q : i < k => q[i].n < q[k].n
Before(p, q) == \A i \in DOMAIN p, k \in DOMAIN q : p[i].n < q[k].n
Upto(q, m) == \A i \in DOMAIN q : q[i].n <= m

(* The messages of a channel that are out, the task's, and still to come   *)
(* in, of those that have come: all its own and in their order.            *)
Chain(out, mid, in, come, c) ==
  /\ out \in Seq(LoopMsgs) /\ mid \in Seq(LoopMsgs) /\ in \in Seq(LoopMsgs)
  /\ Own(out, c, TRUE) /\ Own(mid, c, TRUE) /\ Own(in, c, FALSE)
  /\ Rising(out) /\ Rising(mid) /\ Rising(in)
  /\ Before(out, mid) /\ Before(out, in) /\ Before(mid, in)
  /\ Upto(out, come) /\ Upto(mid, come) /\ Upto(in, come)

LEMMA OfSeq ==
  ASSUME NEW S, NEW q \in Seq(S)
  PROVE  Len(q) \in Nat /\ DOMAIN q = 1 .. Len(q) /\ \A i \in 1 .. Len(q) : q[i] \in S
BY LenProperties, ElementOfSeq

(* Two sequences one after the other, and a sequence cut in two.           *)
LEMMA Joined ==
  ASSUME NEW p \in Seq(LoopMsgs), NEW q \in Seq(LoopMsgs)
  PROVE  /\ p \o q \in Seq(LoopMsgs)
         /\ \A i \in DOMAIN (p \o q) :
              \/ i \in DOMAIN p /\ (p \o q)[i] = p[i]
              \/ i - Len(p) \in DOMAIN q /\ (p \o q)[i] = q[i - Len(p)] /\ i > Len(p)
         /\ Len(p) \in Nat /\ DOMAIN p = 1 .. Len(p)
         /\ DOMAIN (p \o q) \subseteq Nat
<1> HIDE DEF LoopMsgs
<1>1. /\ p \o q \in Seq(LoopMsgs) /\ Len(p \o q) = Len(p) + Len(q)
      /\ \A i \in 1 .. Len(p) + Len(q) : (p \o q)[i] = IF i <= Len(p) THEN p[i] ELSE q[i - Len(p)]
  BY ConcatProperties
<1>2. /\ Len(p) \in Nat /\ Len(q) \in Nat
      /\ DOMAIN p = 1 .. Len(p) /\ DOMAIN q = 1 .. Len(q) /\ DOMAIN (p \o q) = 1 .. Len(p) + Len(q)
  BY <1>1, OfSeq
<1>3. ASSUME NEW i \in 1 .. Len(p) + Len(q)
      PROVE  \/ i \in 1 .. Len(p) /\ (p \o q)[i] = p[i]
             \/ i - Len(p) \in 1 .. Len(q) /\ (p \o q)[i] = q[i - Len(p)] /\ i > Len(p)
  <2>1. (p \o q)[i] = IF i <= Len(p) THEN p[i] ELSE q[i - Len(p)]
    BY <1>1
  <2>2. i <= Len(p) => i \in 1 .. Len(p)
    BY <1>2
  <2>3. ~(i <= Len(p)) => i - Len(p) \in 1 .. Len(q) /\ i > Len(p)
    BY <1>2
  <2> QED
    BY <2>1, <2>2, <2>3, Zenon
<1> QED
  BY <1>1, <1>2, <1>3

LEMMA JoinedRight ==
  ASSUME NEW p \in Seq(LoopMsgs), NEW q \in Seq(LoopMsgs)
  PROVE  /\ \A c, b : Own(p, c, b) /\ Own(q, c, b) => Own(p \o q, c, b)
         /\ Rising(p) /\ Rising(q) /\ Before(p, q) => Rising(p \o q)
         /\ \A r : Before(p, r) /\ Before(q, r) => Before(p \o q, r)
         /\ \A r : Before(r, p) /\ Before(r, q) => Before(r, p \o q)
         /\ \A m : Upto(p, m) /\ Upto(q, m) => Upto(p \o q, m)
<1>1. /\ \A i \in DOMAIN (p \o q) :
           \/ i \in DOMAIN p /\ (p \o q)[i] = p[i]
           \/ i - Len(p) \in DOMAIN q /\ (p \o q)[i] = q[i - Len(p)] /\ i > Len(p)
      /\ Len(p) \in Nat /\ DOMAIN p = 1 .. Len(p)
      /\ DOMAIN (p \o q) \subseteq Nat
  BY Joined
<1>2. \A c, b : Own(p, c, b) /\ Own(q, c, b) => Own(p \o q, c, b)
  BY <1>1, ZenonT(60) DEF Own
<1>3. ASSUME Rising(p), Rising(q), Before(p, q), NEW i \in DOMAIN (p \o q), NEW k \in DOMAIN (p \o q), i < k
      PROVE  (p \o q)[i].n < (p \o q)[k].n
  <2>1. CASE i \in DOMAIN p /\ k \in DOMAIN p /\ (p \o q)[i] = p[i] /\ (p \o q)[k] = p[k]
    BY <1>3, <2>1, Zenon DEF Rising
  <2>2. CASE i \in DOMAIN p /\ (p \o q)[i] = p[i] /\ k - Len(p) \in DOMAIN q /\ (p \o q)[k] = q[k - Len(p)]
    BY <1>3, <2>2, Zenon DEF Before
  <2>3. CASE i > Len(p) /\ k \in DOMAIN p
    BY <1>1, <1>3, <2>3
  <2>4. CASE /\ i - Len(p) \in DOMAIN q /\ (p \o q)[i] = q[i - Len(p)]
             /\ k - Len(p) \in DOMAIN q /\ (p \o q)[k] = q[k - Len(p)]
    <3>1. i - Len(p) < k - Len(p)
      BY <1>1, <1>3
    <3> QED
      BY <1>3, <2>4, <3>1, Zenon DEF Rising
  <2> QED
    BY <1>1, <2>1, <2>2, <2>3, <2>4, Zenon
<1>4. \A r : Before(p, r) /\ Before(q, r) => Before(p \o q, r)
  BY <1>1, Zenon DEF Before
<1>5. \A r : Before(r, p) /\ Before(r, q) => Before(r, p \o q)
  BY <1>1, Zenon DEF Before
<1>6. \A m : Upto(p, m) /\ Upto(q, m) => Upto(p \o q, m)
  BY <1>1, Zenon DEF Upto
<1>7. Rising(p) /\ Rising(q) /\ Before(p, q) => Rising(p \o q)
  BY <1>3, Zenon DEF Rising
<1> QED
  BY <1>2, <1>4, <1>5, <1>6, <1>7, Zenon

LEMMA CutOut ==
  ASSUME NEW q \in Seq(LoopMsgs), NEW a \in Nat, NEW b \in Nat, b <= Len(q)
  PROVE  /\ SubSeq(q, a + 1, b) \in Seq(LoopMsgs)
         /\ DOMAIN SubSeq(q, a + 1, b) = 1 .. Len(SubSeq(q, a + 1, b))
         /\ Len(SubSeq(q, a + 1, b)) = (IF a <= b THEN b - a ELSE 0)
         /\ \A i \in DOMAIN SubSeq(q, a + 1, b) :
              a + i \in DOMAIN q /\ i \in 1 .. b - a /\ SubSeq(q, a + 1, b)[i] = q[a + i]
<1> HIDE DEF LoopMsgs
<1>1. Len(q) \in Nat /\ DOMAIN q = 1 .. Len(q) /\ \A i \in 1 .. Len(q) : q[i] \in LoopMsgs
  BY OfSeq
<1>2. \A i \in a + 1 .. b : q[i] \in LoopMsgs
  BY <1>1
<1>3. /\ SubSeq(q, a + 1, b) \in Seq(LoopMsgs)
      /\ Len(SubSeq(q, a + 1, b)) = (IF a + 1 <= b THEN b - (a + 1) + 1 ELSE 0)
      /\ \A i \in 1 .. b - (a + 1) + 1 : SubSeq(q, a + 1, b)[i] = q[(a + 1) + i - 1]
  <2>1. a + 1 \in Int /\ b \in Int
    OBVIOUS
  <2> QED
    BY <1>2, <2>1, SubSeqProperties
<1>4. DOMAIN SubSeq(q, a + 1, b) = 1 .. Len(SubSeq(q, a + 1, b))
  BY <1>3, OfSeq
<1>5. Len(SubSeq(q, a + 1, b)) = (IF a <= b THEN b - a ELSE 0)
  BY <1>3
<1>6. ASSUME NEW i \in DOMAIN SubSeq(q, a + 1, b)
      PROVE  a + i \in DOMAIN q /\ i \in 1 .. b - a /\ SubSeq(q, a + 1, b)[i] = q[a + i]
  <2>1. i \in 1 .. b - a /\ a + i \in 1 .. Len(q)
    BY <1>1, <1>4, <1>5
  <2>2. (a + 1) + i - 1 = a + i /\ i \in 1 .. b - (a + 1) + 1
    BY <2>1
  <2> QED
    BY <1>1, <1>3, <2>1, <2>2
<1> QED
  BY <1>3, <1>4, <1>5, <1>6

LEMMA CutRight ==
  ASSUME NEW q \in Seq(LoopMsgs), NEW a \in Nat, NEW b \in Nat, b <= Len(q)
  PROVE  /\ \A c, ch : Own(q, c, ch) => Own(SubSeq(q, a + 1, b), c, ch)
         /\ Rising(q) => Rising(SubSeq(q, a + 1, b))
         /\ \A r : Before(q, r) => Before(SubSeq(q, a + 1, b), r)
         /\ \A r : Before(r, q) => Before(r, SubSeq(q, a + 1, b))
         /\ \A m : Upto(q, m) => Upto(SubSeq(q, a + 1, b), m)
<1> DEFINE s == SubSeq(q, a + 1, b)
<1>1. \A i \in DOMAIN s : a + i \in DOMAIN q /\ i \in 1 .. b - a /\ s[i] = q[a + i]
  BY CutOut
<1> HIDE DEF s
<1>2. /\ \A c, ch : Own(q, c, ch) => Own(s, c, ch)
      /\ \A r : Before(q, r) => Before(s, r)
      /\ \A r : Before(r, q) => Before(r, s)
      /\ \A m : Upto(q, m) => Upto(s, m)
  BY <1>1, Zenon DEF Own, Before, Upto
<1>3. ASSUME Rising(q), NEW i \in DOMAIN s, NEW k \in DOMAIN s, i < k
      PROVE  s[i].n < s[k].n
  <2>1. a + i < a + k
    BY <1>1, <1>3
  <2> QED
    BY <1>1, <1>3, <2>1, Zenon DEF Rising
<1>4. Rising(q) => Rising(s)
  BY <1>3, Zenon DEF Rising
<1> QED
  BY <1>2, <1>4, Zenon DEF s

LEMMA Nothing ==
  /\ <<>> \in Seq(LoopMsgs) /\ DOMAIN <<>> = {}
  /\ \A c, b : Own(<<>>, c, b)
  /\ Rising(<<>>)
  /\ \A r : Before(<<>>, r) /\ Before(r, <<>>)
  /\ \A m : Upto(<<>>, m)
<1>1. <<>> \in Seq(LoopMsgs) /\ DOMAIN <<>> = {}
  OBVIOUS
<1> QED
  BY <1>1 DEF Own, Rising, Before, Upto

(* A message is changed where it is.                                       *)
LEMMA ChangedRight ==
  ASSUME NEW q \in Seq(LoopMsgs), NEW c, Own(q, c, FALSE)
  PROVE  /\ Changed(q) \in Seq(LoopMsgs) /\ Len(Changed(q)) = Len(q)
         /\ Own(Changed(q), c, TRUE)
         /\ Rising(q) => Rising(Changed(q))
         /\ \A r : Before(q, r) => Before(Changed(q), r)
         /\ \A r : Before(r, q) => Before(r, Changed(q))
         /\ \A m : Upto(q, m) => Upto(Changed(q), m)
<1>1. Len(q) \in Nat /\ DOMAIN q = 1 .. Len(q) /\ \A i \in 1 .. Len(q) : q[i] \in LoopMsgs
  BY OfSeq
<1>2. DOMAIN Changed(q) = DOMAIN q /\ \A i \in DOMAIN q : Changed(q)[i] = [q[i] EXCEPT !.changed = TRUE]
  BY Zenon DEF Changed
<1>3. \A m \in LoopMsgs : /\ [m EXCEPT !.changed = TRUE] \in LoopMsgs
                          /\ [m EXCEPT !.changed = TRUE].chan = m.chan
                          /\ [m EXCEPT !.changed = TRUE].n = m.n
                          /\ [m EXCEPT !.changed = TRUE].changed = TRUE
  BY DEF LoopMsgs
<1>4. \A i \in DOMAIN q : /\ Changed(q)[i] \in LoopMsgs
                          /\ Changed(q)[i].chan = q[i].chan
                          /\ Changed(q)[i].n = q[i].n
                          /\ Changed(q)[i].changed = TRUE
  <2> TAKE i \in DOMAIN q
  <2>1. q[i] \in LoopMsgs /\ Changed(q)[i] = [q[i] EXCEPT !.changed = TRUE]
    BY <1>1, <1>2
  <2> QED
    BY <1>3, <2>1
<1> HIDE DEF LoopMsgs
<1>5. Changed(q) \in Seq(LoopMsgs)
  <2>1. Changed(q) \in [1 .. Len(q) -> LoopMsgs]
    BY <1>1, <1>2, <1>4 DEF Changed
  <2> QED
    BY <1>1, <2>1, SeqDef
<1>6. Len(Changed(q)) = Len(q)
  <2>1. DOMAIN Changed(q) = 1 .. Len(Changed(q)) /\ Len(Changed(q)) \in Nat
    BY <1>5, OfSeq
  <2>2. 1 .. Len(Changed(q)) = 1 .. Len(q)
    BY <1>1, <1>2, <2>1
  <2>3. \A n, m \in Nat : 1 .. n = 1 .. m => n = m
    <3> SUFFICES ASSUME NEW n \in Nat, NEW m \in Nat, 1 .. n = 1 .. m
                 PROVE  ~(n < m) /\ ~(m < n)
      OBVIOUS
    <3>1. n < m => m \in 1 .. m /\ m \notin 1 .. n
      OBVIOUS
    <3>2. m < n => n \in 1 .. n /\ n \notin 1 .. m
      OBVIOUS
    <3> QED
      BY <3>1, <3>2
  <2> QED
    BY <1>1, <2>1, <2>2, <2>3
<1> DEFINE s == Changed(q)
<1>7. DOMAIN s = DOMAIN q /\ \A i \in DOMAIN q : s[i].chan = q[i].chan /\ s[i].n = q[i].n /\ s[i].changed = TRUE
  BY <1>2, <1>4
<1> HIDE DEF s
<1>8. /\ Own(s, c, TRUE)
      /\ Rising(q) => Rising(s)
      /\ \A r : Before(q, r) => Before(s, r)
      /\ \A r : Before(r, q) => Before(r, s)
      /\ \A m : Upto(q, m) => Upto(s, m)
  BY <1>7, Zenon DEF Own, Rising, Before, Upto
<1> QED
  BY <1>5, <1>6, <1>8, Zenon DEF s

(* The four things that happen to a chain.                                 *)
LEMMA ChainLater ==
  ASSUME NEW out, NEW mid, NEW in, NEW c, NEW come \in Nat, Chain(out, mid, in, come, c)
  PROVE  Chain(out, mid, in, come + 1, c)
<1>1. \A q \in Seq(LoopMsgs) : Upto(q, come) => Upto(q, come + 1)
  <2> SUFFICES ASSUME NEW q \in Seq(LoopMsgs), Upto(q, come), NEW i \in DOMAIN q
               PROVE  q[i].n <= come + 1
    BY DEF Upto
  <2>1. q[i] \in LoopMsgs
    BY OfSeq
  <2>2. q[i].n \in Nat
    BY <2>1 DEF LoopMsgs
  <2>3. q[i].n <= come
    BY DEF Upto
  <2> QED
    BY <2>2, <2>3
<1> QED
  BY <1>1, Zenon DEF Chain

LEMMA ChainComes ==
  ASSUME NEW out, NEW mid, NEW in, NEW c \in LoopChans, NEW come \in Nat, come < MaxCome,
         Chain(out, mid, in, come, c)
  PROVE  Chain(out, mid, Append(in, Come(c, come + 1)), come + 1, c)
<1> DEFINE m == Come(c, come + 1)
           one == <<m>>
<1>1. m \in LoopMsgs
  BY LoopLengths DEF Come, LoopMsgs
<1>2. m.chan = c /\ m.n = come + 1 /\ m.changed = FALSE
  BY DEF Come
<1>3. one \in Seq(LoopMsgs) /\ DOMAIN one = {1} /\ one[1] = m
  BY <1>1
<1>4. out \in Seq(LoopMsgs) /\ mid \in Seq(LoopMsgs) /\ in \in Seq(LoopMsgs)
  BY DEF Chain
<1>5. Append(in, m) = in \o one
  BY <1>1, <1>4, AppendIsConcat
<1> HIDE DEF m, one
<1>6. Chain(out, mid, in, come + 1, c)
  BY ChainLater
<1>7. \A q \in Seq(LoopMsgs) : Upto(q, come) => Before(q, one)
  <2> SUFFICES ASSUME NEW q \in Seq(LoopMsgs), Upto(q, come), NEW i \in DOMAIN q
               PROVE  q[i].n < come + 1
    BY <1>2, <1>3, Zenon DEF Before
  <2>1. q[i] \in LoopMsgs
    BY OfSeq
  <2>2. q[i].n \in Nat
    BY <2>1 DEF LoopMsgs
  <2>3. q[i].n <= come
    BY DEF Upto
  <2> QED
    BY <2>2, <2>3
<1>8. Own(one, c, FALSE) /\ Rising(one) /\ Upto(one, come + 1)
  BY <1>2, <1>3 DEF Own, Rising, Upto
<1>9. Before(in, one) /\ Before(mid, one) /\ Before(out, one)
  BY <1>4, <1>7, Zenon DEF Chain
<1>10. in \o one \in Seq(LoopMsgs)
  BY <1>3, <1>4, Joined
<1>11. /\ Own(in \o one, c, FALSE) /\ Rising(in \o one) /\ Upto(in \o one, come + 1)
       /\ Before(out, in \o one) /\ Before(mid, in \o one)
  <2>1. /\ \A cc, b : Own(in, cc, b) /\ Own(one, cc, b) => Own(in \o one, cc, b)
        /\ Rising(in) /\ Rising(one) /\ Before(in, one) => Rising(in \o one)
        /\ \A r : Before(r, in) /\ Before(r, one) => Before(r, in \o one)
        /\ \A k : Upto(in, k) /\ Upto(one, k) => Upto(in \o one, k)
    BY <1>3, <1>4, JoinedRight
  <2> QED
    BY <1>6, <1>8, <1>9, <2>1, Zenon DEF Chain
<1>12. Chain(out, mid, in \o one, come + 1, c)
  BY <1>6, <1>10, <1>11, Zenon DEF Chain
<1> QED
  BY <1>5, <1>12, Zenon DEF m

LEMMA ChainReceived ==
  ASSUME NEW out, NEW in, NEW c, NEW come, Chain(out, <<>>, in, come, c), NEW k \in 1 .. Len(in)
  PROVE  /\ Chain(out, Changed(SubSeq(in, 1, k)), SubSeq(in, k + 1, Len(in)), come, c)
         /\ Len(Changed(SubSeq(in, 1, k))) = k
         /\ Len(SubSeq(in, k + 1, Len(in))) = Len(in) - k
<1> DEFINE front == SubSeq(in, 0 + 1, k)
           back == SubSeq(in, k + 1, Len(in))
<1>1. in \in Seq(LoopMsgs) /\ Len(in) \in Nat /\ k \in Nat /\ k <= Len(in) /\ DOMAIN in = 1 .. Len(in)
  <2>1. in \in Seq(LoopMsgs)
    BY DEF Chain
  <2> QED
    BY <2>1, OfSeq
<1>2. /\ front \in Seq(LoopMsgs) /\ Len(front) = k
      /\ \A i \in DOMAIN front : i \in DOMAIN in /\ i <= k /\ front[i] = in[i]
  <2>1. /\ front \in Seq(LoopMsgs) /\ Len(front) = (IF 0 <= k THEN k - 0 ELSE 0)
        /\ \A i \in DOMAIN front : 0 + i \in DOMAIN in /\ i \in 1 .. k - 0 /\ front[i] = in[0 + i]
    BY <1>1, CutOut
  <2> QED
    BY <1>1, <2>1
<1>3. /\ back \in Seq(LoopMsgs) /\ Len(back) = Len(in) - k
      /\ \A i \in DOMAIN back : k + i \in DOMAIN in /\ i >= 1 /\ back[i] = in[k + i] /\ i \in Nat
  <2>1. /\ back \in Seq(LoopMsgs) /\ Len(back) = (IF k <= Len(in) THEN Len(in) - k ELSE 0)
        /\ \A i \in DOMAIN back : k + i \in DOMAIN in /\ i \in 1 .. Len(in) - k /\ back[i] = in[k + i]
    <3>1. Len(in) <= Len(in)
      BY <1>1
    <3> QED
      BY <1>1, <3>1, CutOut, Zenon
  <2>2. \A i \in 1 .. Len(in) - k : i >= 1 /\ i \in Nat
    BY <1>1
  <2> HIDE DEF back
  <2>3. Len(back) = Len(in) - k
    BY <1>1, <2>1
  <2> QED
    BY <2>1, <2>2, <2>3, Zenon
<1>4. /\ Own(front, c, FALSE) /\ Rising(front) /\ Before(out, front) /\ Upto(front, come)
  <2>1. /\ \A cc, ch : Own(in, cc, ch) => Own(front, cc, ch)
        /\ Rising(in) => Rising(front)
        /\ \A r : Before(r, in) => Before(r, front)
        /\ \A m : Upto(in, m) => Upto(front, m)
    BY <1>1, CutRight
  <2> QED
    BY <2>1, Zenon DEF Chain
<1>5. /\ Own(back, c, FALSE) /\ Rising(back) /\ Before(out, back) /\ Upto(back, come)
  <2>1. /\ \A cc, ch : Own(in, cc, ch) => Own(back, cc, ch)
        /\ Rising(in) => Rising(back)
        /\ \A r : Before(r, in) => Before(r, back)
        /\ \A m : Upto(in, m) => Upto(back, m)
    BY <1>1, CutRight
  <2> QED
    BY <2>1, Zenon DEF Chain
<1>6. Before(front, back)
  <2> SUFFICES ASSUME NEW i \in DOMAIN front, NEW j \in DOMAIN back
               PROVE  front[i].n < back[j].n
    BY Zenon DEF Before
  <2>1. i \in DOMAIN in /\ k + j \in DOMAIN in /\ front[i] = in[i] /\ back[j] = in[k + j]
    BY <1>2, <1>3
  <2>2. i < k + j
    <3>1. i \in 1 .. Len(in) /\ i <= k
      BY <1>1, <1>2
    <3>2. j \in Nat /\ j >= 1
      BY <1>3
    <3> QED
      BY <1>1, <3>1, <3>2
  <2>3. Rising(in)
    BY DEF Chain
  <2> QED
    BY <2>1, <2>2, <2>3, Zenon DEF Rising
<1>7. /\ Changed(front) \in Seq(LoopMsgs) /\ Len(Changed(front)) = k
      /\ Own(Changed(front), c, TRUE) /\ Rising(Changed(front))
      /\ Before(Changed(front), back) /\ Before(out, Changed(front)) /\ Upto(Changed(front), come)
  <2>1. /\ Changed(front) \in Seq(LoopMsgs) /\ Len(Changed(front)) = Len(front)
        /\ Own(Changed(front), c, TRUE)
        /\ Rising(front) => Rising(Changed(front))
        /\ \A r : Before(front, r) => Before(Changed(front), r)
        /\ \A r : Before(r, front) => Before(r, Changed(front))
        /\ \A m : Upto(front, m) => Upto(Changed(front), m)
    BY <1>2, <1>4, ChangedRight
  <2> QED
    BY <1>2, <1>4, <1>6, <2>1, Zenon
<1>8. front = SubSeq(in, 1, k)
  OBVIOUS
<1> HIDE DEF front, back
<1>9. Chain(out, Changed(front), back, come, c)
  BY <1>3, <1>5, <1>7, Zenon DEF Chain
<1> QED
  BY <1>3, <1>7, <1>8, <1>9, Zenon DEF back

LEMMA ChainSent ==
  ASSUME NEW out, NEW mid, NEW in, NEW c, NEW come, Chain(out, mid, in, come, c), NEW k \in 0 .. Len(mid)
  PROVE  /\ Chain(out \o SubSeq(mid, 1, k), <<>>, in, come, c)
         /\ SubSeq(mid, 1, k) \in Seq(LoopMsgs) /\ Len(SubSeq(mid, 1, k)) = k
<1> DEFINE front == SubSeq(mid, 0 + 1, k)
<1>1. /\ out \in Seq(LoopMsgs) /\ mid \in Seq(LoopMsgs) /\ in \in Seq(LoopMsgs)
      /\ Len(mid) \in Nat /\ k \in Nat /\ k <= Len(mid)
  <2>1. out \in Seq(LoopMsgs) /\ mid \in Seq(LoopMsgs) /\ in \in Seq(LoopMsgs)
    BY DEF Chain
  <2> QED
    BY <2>1, OfSeq
<1>2. front \in Seq(LoopMsgs) /\ Len(front) = k
  <2>1. /\ front \in Seq(LoopMsgs) /\ Len(front) = (IF 0 <= k THEN k - 0 ELSE 0)
    BY <1>1, CutOut
  <2> QED
    BY <1>1, <2>1
<1>3. /\ Own(front, c, TRUE) /\ Rising(front) /\ Before(out, front) /\ Before(front, in) /\ Upto(front, come)
  <2>1. /\ \A cc, ch : Own(mid, cc, ch) => Own(front, cc, ch)
        /\ Rising(mid) => Rising(front)
        /\ \A r : Before(r, mid) => Before(r, front)
        /\ \A r : Before(mid, r) => Before(front, r)
        /\ \A m : Upto(mid, m) => Upto(front, m)
    BY <1>1, CutRight
  <2> QED
    BY <2>1, Zenon DEF Chain
<1>4. front = SubSeq(mid, 1, k)
  OBVIOUS
<1> HIDE DEF front
<1>5. /\ out \o front \in Seq(LoopMsgs)
      /\ Own(out \o front, c, TRUE) /\ Rising(out \o front) /\ Upto(out \o front, come)
      /\ Before(out \o front, in)
  <2>1. /\ \A cc, b : Own(out, cc, b) /\ Own(front, cc, b) => Own(out \o front, cc, b)
        /\ Rising(out) /\ Rising(front) /\ Before(out, front) => Rising(out \o front)
        /\ \A r : Before(out, r) /\ Before(front, r) => Before(out \o front, r)
        /\ \A m : Upto(out, m) /\ Upto(front, m) => Upto(out \o front, m)
        /\ out \o front \in Seq(LoopMsgs)
    BY <1>1, <1>2, Joined, JoinedRight
  <2> QED
    BY <1>3, <2>1, Zenon DEF Chain
<1>6. Chain(out \o front, <<>>, in, come, c)
  BY <1>5, Nothing, Zenon DEF Chain
<1> QED
  BY <1>2, <1>4, <1>6, Zenon

LEMMA Regroup ==
  ASSUME NEW M, NEW p \in Seq(M), NEW e \in M, NEW q \in Seq(M)
  PROVE  Append(p, e) \o q = p \o (<<e>> \o q)
<1> DEFINE one == <<e>>
<1>1. one \in Seq(M)
  OBVIOUS
<1>2. Append(p, e) = p \o one
  BY AppendIsConcat
<1> HIDE DEF one
<1>3. (p \o one) \o q = p \o (one \o q)
  BY <1>1, ConcatAssociative
<1> QED
  BY <1>2, <1>3, Zenon DEF one

LEMMA ChainLeaves ==
  ASSUME NEW M, NEW bus \in Seq(M), NEW txq \in Seq(M), txq # <<>>
  PROVE  /\ Append(bus, Head(txq)) \o Tail(txq) = bus \o txq
         /\ Append(bus, Head(txq)) \in Seq(M) /\ Tail(txq) \in Seq(M)
         /\ Len(Tail(txq)) = Len(txq) - 1 /\ Len(Append(bus, Head(txq))) = Len(bus) + 1
<1>1. Head(txq) \in M /\ Tail(txq) \in Seq(M) /\ Len(Tail(txq)) = Len(txq) - 1
  BY HeadTailProperties
<1>2. Append(bus, Head(txq)) \in Seq(M) /\ Len(Append(bus, Head(txq))) = Len(bus) + 1
  BY <1>1, AppendProperties
<1>3. txq = <<Head(txq)>> \o Tail(txq)
  BY <1>1
<1>4. Append(bus, Head(txq)) \o Tail(txq) = bus \o (<<Head(txq)>> \o Tail(txq))
  BY <1>1, Regroup
<1> QED
  BY <1>1, <1>2, <1>3, <1>4, Zenon

-----------------------------------------------------------------------------
(* The invariant of the loop-back.                                         *)

(* What a channel is set up to: it waits for messages, not for room.       *)
Running ==
  [started |-> TRUE, busoff |-> FALSE, txlen |-> CANTSK_RX_LEN, rxlen |-> CANTSK_TX_LEN,
   filter |-> "all", d_txblk |-> FALSE, d_rxblk |-> TRUE, txblk |-> FALSE, rxblk |-> TRUE]

(* The messages a task has in the buffer canmsgs.                          *)
Held(c) == IF lb_pc[c] = "send" THEN lb_canmsgs ELSE <<>>

Echoes(c) ==
  /\ Chain(lb_bus[c] \o lb_txq[c], Held(c), lb_rxq[c], lb_come[c], c)
  /\ lb_bus[c] \in Seq(LoopMsgs) /\ lb_txq[c] \in Seq(LoopMsgs)
  /\ lb_ch[c] = (IF lb_pc[c] = "speed" THEN Opened(0) ELSE Running)
  /\ Len(lb_rxq[c]) <= lb_ch[c].rxlen /\ Len(lb_txq[c]) <= lb_ch[c].txlen
  /\ lb_pc[c] = "send" => lb_cpu = c /\ lb_left[c] = Len(lb_canmsgs)
  /\ lb_sent[c] = Len(lb_bus[c]) + Len(lb_txq[c])
  /\ lb_sent[c] + Len(Held(c)) <= lb_received[c]
  /\ lb_received[c] + Len(lb_rxq[c]) <= lb_come[c]

LoopTypes ==
  /\ lb_ch \in [LoopChans -> Channels({0, CANTSK_RX_LEN, CANTSK_TX_LEN})]
  /\ lb_pc \in [LoopChans -> {"speed", "recv", "send"}]
  /\ lb_cpu \in LoopChans \cup {"none"} /\ lb_canmsgs \in Seq(LoopMsgs)
  /\ lb_left \in [LoopChans -> 0 .. ReadMax]
  /\ lb_come \in [LoopChans -> 0 .. MaxCome]
  /\ lb_received \in [LoopChans -> 0 .. MaxCome]
  /\ lb_sent \in [LoopChans -> 0 .. MaxCome]
  /\ DOMAIN lb_rxq = LoopChans /\ DOMAIN lb_txq = LoopChans /\ DOMAIN lb_bus = LoopChans

LoopInv == LoopTypes /\ \A c \in LoopChans : Echoes(c)

LEMMA LoopTyped == LoopInv => LoopTypeOK
<1> SUFFICES ASSUME LoopInv
             PROVE  LoopTypeOK
  OBVIOUS
<1>1. LoopTypes
  BY DEF LoopInv
<1>2. \A c \in LoopChans :
        /\ lb_rxq[c] \in Seq(LoopMsgs) /\ Len(lb_rxq[c]) <= lb_ch[c].rxlen
        /\ lb_txq[c] \in Seq(LoopMsgs) /\ Len(lb_txq[c]) <= lb_ch[c].txlen
        /\ lb_bus[c] \in Seq(LoopMsgs)
  BY Zenon DEF LoopInv, Echoes, Chain
<1>3. {lb_come, lb_received, lb_sent} \subseteq [LoopChans -> 0 .. MaxCome]
  BY <1>1 DEF LoopTypes
<1> QED
  BY <1>1, <1>2, <1>3, Zenon DEF LoopTypeOK, LoopTypes

LEMMA LoopInitInv == LoopInit => LoopInv
<1> SUFFICES ASSUME LoopInit
             PROVE  LoopInv
  OBVIOUS
<1>1. LoopTypes
  BY LoopLengths DEF LoopInit, LoopTypes, Opened, Channels, Filters
<1>2. ASSUME NEW c \in LoopChans
      PROVE  Echoes(c)
  <2>1. /\ lb_ch[c] = Opened(0) /\ lb_pc[c] = "speed" /\ lb_left[c] = 0 /\ lb_come[c] = 0
        /\ lb_rxq[c] = <<>> /\ lb_txq[c] = <<>> /\ lb_bus[c] = <<>>
        /\ lb_received[c] = 0 /\ lb_sent[c] = 0
    BY DEF LoopInit
  <2>2. Held(c) = <<>>
    BY <2>1 DEF Held
  <2>3. <<>> \o <<>> = <<>>
    BY ConcatEmptySeq, EmptySeq
  <2>4. Chain(<<>>, <<>>, <<>>, 0, c)
    BY Nothing, Zenon DEF Chain
  <2>5. Len(<<>>) = 0 /\ Opened(0).rxlen = 0 /\ Opened(0).txlen = 0 /\ <<>> \in Seq(LoopMsgs)
    BY DEF Opened
  <2> QED
    BY <2>1, <2>2, <2>3, <2>4, <2>5 DEF Echoes
<1> QED
  BY <1>1, <1>2 DEF LoopInv

(* A channel nothing happens to.                                           *)
LEMMA Unmoved ==
  ASSUME NEW d \in LoopChans, Echoes(d),
         lb_ch'[d] = lb_ch[d], lb_pc'[d] = lb_pc[d], lb_left'[d] = lb_left[d],
         lb_come'[d] = lb_come[d], lb_rxq'[d] = lb_rxq[d], lb_txq'[d] = lb_txq[d],
         lb_received'[d] = lb_received[d], lb_sent'[d] = lb_sent[d], lb_bus'[d] = lb_bus[d],
         lb_pc[d] = "send" => lb_cpu' = lb_cpu /\ lb_canmsgs' = lb_canmsgs
  PROVE  Echoes(d)'
<1>1. Held(d)' = Held(d)
  BY DEF Held
<1> QED
  BY <1>1 DEF Echoes

(* Whoever may run finds no other task with messages in canmsgs.           *)
LEMMA Alone ==
  ASSUME LoopInv, NEW c \in LoopChans, Runs(c), NEW d \in LoopChans, d # c
  PROVE  lb_pc[d] # "send"
BY LoopNames DEF LoopInv, Echoes, Runs

LEMMA SetUpEchoes ==
  ASSUME LoopInv, NEW c \in LoopChans, LoopSetUp(c)
  PROVE  LoopInv'
<1>0. LoopTypes /\ Echoes(c)
  BY DEF LoopInv
<1>1. /\ lb_pc[c] = "speed" /\ lb_pc' = [lb_pc EXCEPT ![c] = "recv"]
      /\ UNCHANGED <<lb_cpu, lb_canmsgs, lb_left, lb_come, lb_rxq, lb_txq, lb_received, lb_sent, lb_bus>>
  BY DEF LoopSetUp
<1>2. lb_ch[c] = Opened(0)
  BY <1>0, <1>1 DEF Echoes
<1>3. lb_ch' = [lb_ch EXCEPT ![c] = Running]
  <2>1. SetBtrs(Opened(0)).chan = Opened(0)
    BY DEF SetBtrs, WhenStopped, Returns, Opened
  <2>2. SetBufLength(Opened(0), CANTSK_RX_LEN, CANTSK_TX_LEN).chan
        = [Opened(0) EXCEPT !.txlen = CANTSK_RX_LEN, !.rxlen = CANTSK_TX_LEN]
    BY DEF SetBufLength, WhenStopped, Returns, Opened
  <2> DEFINE buf == [Opened(0) EXCEPT !.txlen = CANTSK_RX_LEN, !.rxlen = CANTSK_TX_LEN]
  <2>3. Start(SetBlockingMode(buf, FALSE, TRUE).chan).chan = Running
    BY DEF SetBlockingMode, Start, WhenStopped, Returns, Opened, Running
  <2> HIDE DEF buf
  <2> QED
    BY <1>2, <2>1, <2>2, <2>3 DEF LoopSetUp, buf
<1>4. lb_pc'[c] = "recv" /\ lb_ch'[c] = Running
  BY <1>0, <1>1, <1>3 DEF LoopTypes
<1>5. LoopTypes'
  <2>1. Running \in Channels({0, CANTSK_RX_LEN, CANTSK_TX_LEN})
    BY DEF Running, Channels, Filters
  <2> QED
    BY <1>0, <1>1, <1>3, <2>1 DEF LoopTypes
<1>6. Echoes(c)'
  <2>1. Held(c) = <<>> /\ Held(c)' = <<>>
    BY <1>1, <1>4 DEF Held
  <2>2. /\ Len(lb_rxq[c]) <= 0 /\ Len(lb_txq[c]) <= 0
        /\ Len(lb_rxq[c]) \in Nat /\ Len(lb_txq[c]) \in Nat
    <3>1. lb_rxq[c] \in Seq(LoopMsgs) /\ lb_txq[c] \in Seq(LoopMsgs)
      BY <1>0 DEF Echoes, Chain
    <3>2. Opened(0).rxlen = 0 /\ Opened(0).txlen = 0
      BY DEF Opened
    <3> QED
      BY <1>0, <1>2, <3>1, <3>2, OfSeq DEF Echoes
  <2>3. Len(lb_rxq[c]) <= Running.rxlen /\ Len(lb_txq[c]) <= Running.txlen
    BY <2>2, LoopLengths DEF Running
  <2> QED
    BY <1>0, <1>1, <1>4, <2>1, <2>3 DEF Echoes
<1>7. ASSUME NEW d \in LoopChans, d # c
      PROVE  Echoes(d)'
  <2>1. lb_ch'[d] = lb_ch[d] /\ lb_pc'[d] = lb_pc[d] /\ Echoes(d)
    BY <1>0, <1>1, <1>3, <1>7 DEF LoopTypes, LoopInv
  <2> QED
    BY <1>1, <2>1, Unmoved
<1> QED
  BY <1>5, <1>6, <1>7 DEF LoopInv

LEMMA RecvEchoes ==
  ASSUME LoopInv, NEW c \in LoopChans, LoopRecv(c)
  PROVE  LoopInv'
<1>0. LoopTypes /\ Echoes(c)
  BY DEF LoopInv
<1>1. /\ Runs(c) /\ lb_pc[c] = "recv"
      /\ UNCHANGED <<lb_ch, lb_come, lb_txq, lb_sent, lb_bus>>
  BY DEF LoopRecv
<1>2. lb_ch[c] = Running /\ lb_rxq[c] \in Seq(LoopMsgs)
  BY <1>0, <1>1 DEF Echoes, Chain
<1>3. ReadMax \in Nat /\ ReadMax > 0 /\ Len(lb_rxq[c]) \in Nat
  BY <1>2, LoopLengths, OfSeq
<1>4. \/ /\ lb_cpu' \in {"none", lb_cpu}
         /\ UNCHANGED <<lb_pc, lb_canmsgs, lb_left, lb_rxq, lb_received>>
      \/ \E k \in 1 .. Len(lb_rxq[c]) :
           /\ k <= ReadMax
           /\ lb_canmsgs' = Changed(SubSeq(lb_rxq[c], 1, k))
           /\ lb_rxq' = [lb_rxq EXCEPT ![c] = SubSeq(@, k + 1, Len(@))]
           /\ lb_received' = [lb_received EXCEPT ![c] = @ + k]
           /\ lb_left' = [lb_left EXCEPT ![c] = k]
           /\ lb_cpu' = c /\ lb_pc' = [lb_pc EXCEPT ![c] = "send"]
  <2> DEFINE answer == Read(lb_ch[c], ReadMax, Len(lb_rxq[c]))
             cnt == Got(lb_ch[c], answer)
  <2>1. IF answer.errno = "blocks"
          THEN lb_cpu = c /\ lb_cpu' = "none" /\ UNCHANGED <<lb_pc, lb_canmsgs, lb_left, lb_rxq, lb_received>>
          ELSE IF cnt > 0
            THEN /\ lb_canmsgs' = Changed(SubSeq(lb_rxq[c], 1, cnt))
                 /\ lb_rxq' = [lb_rxq EXCEPT ![c] = SubSeq(@, cnt + 1, Len(@))]
                 /\ lb_received' = [lb_received EXCEPT ![c] = @ + cnt]
                 /\ lb_left' = [lb_left EXCEPT ![c] = cnt]
                 /\ lb_cpu' = c /\ lb_pc' = [lb_pc EXCEPT ![c] = "send"]
            ELSE lb_cpu' = "none" /\ UNCHANGED <<lb_pc, lb_canmsgs, lb_left, lb_rxq, lb_received>>
    BY Zenon DEF LoopRecv
  <2>2. Len(lb_rxq[c]) > 0 =>
          answer = [ret |-> IF ReadMax < Len(lb_rxq[c]) THEN ReadMax ELSE Len(lb_rxq[c]), errno |-> "0"]
    BY <1>2 DEF Read, Running
  <2>3. ~(Len(lb_rxq[c]) > 0) => answer.errno = "blocks"
    BY <1>2 DEF Read, Running
  <2>4. Len(lb_rxq[c]) > 0 => cnt \in 1 .. Len(lb_rxq[c]) /\ cnt <= ReadMax /\ answer.errno # "blocks"
    BY <1>3, <2>2 DEF Got
  <2>5. cnt \in 1 .. Len(lb_rxq[c]) => cnt > 0
    BY <1>3
  <2> HIDE DEF answer, cnt
  <2> QED
    BY <2>1, <2>3, <2>4, <2>5, Zenon
<1>5. CASE lb_cpu' \in {"none", lb_cpu} /\ UNCHANGED <<lb_pc, lb_canmsgs, lb_left, lb_rxq, lb_received>>
  <2>1. LoopTypes'
    BY <1>0, <1>1, <1>5 DEF LoopTypes
  <2>2. ASSUME NEW d \in LoopChans
        PROVE  Echoes(d)'
    <3>1. lb_pc[d] # "send"
      BY <1>1, Alone
    <3>2. Echoes(d)
      BY DEF LoopInv
    <3> QED
      BY <1>1, <1>5, <3>1, <3>2, Unmoved
  <2> QED
    BY <2>1, <2>2 DEF LoopInv
<1>6. CASE \E k \in 1 .. Len(lb_rxq[c]) :
             /\ k <= ReadMax
             /\ lb_canmsgs' = Changed(SubSeq(lb_rxq[c], 1, k))
             /\ lb_rxq' = [lb_rxq EXCEPT ![c] = SubSeq(@, k + 1, Len(@))]
             /\ lb_received' = [lb_received EXCEPT ![c] = @ + k]
             /\ lb_left' = [lb_left EXCEPT ![c] = k]
             /\ lb_cpu' = c /\ lb_pc' = [lb_pc EXCEPT ![c] = "send"]
  <2>1. PICK k \in 1 .. Len(lb_rxq[c]) :
             /\ k <= ReadMax
             /\ lb_canmsgs' = Changed(SubSeq(lb_rxq[c], 1, k))
             /\ lb_rxq' = [lb_rxq EXCEPT ![c] = SubSeq(@, k + 1, Len(@))]
             /\ lb_received' = [lb_received EXCEPT ![c] = @ + k]
             /\ lb_left' = [lb_left EXCEPT ![c] = k]
             /\ lb_cpu' = c /\ lb_pc' = [lb_pc EXCEPT ![c] = "send"]
    BY <1>6, Zenon
  <2>2. /\ lb_rxq'[c] = SubSeq(lb_rxq[c], k + 1, Len(lb_rxq[c]))
        /\ lb_received'[c] = lb_received[c] + k /\ lb_left'[c] = k /\ lb_pc'[c] = "send"
        /\ lb_received[c] \in Nat /\ lb_sent[c] \in Nat /\ lb_come[c] \in 0 .. MaxCome
    BY <1>0, <2>1, LoopLengths DEF LoopTypes
  <2>3. Held(c) = <<>> /\ Held(c)' = Changed(SubSeq(lb_rxq[c], 1, k))
    BY <1>1, <2>1, <2>2 DEF Held
  <2>4. /\ Chain(lb_bus[c] \o lb_txq[c], Changed(SubSeq(lb_rxq[c], 1, k)),
                 SubSeq(lb_rxq[c], k + 1, Len(lb_rxq[c])), lb_come[c], c)
        /\ Len(Changed(SubSeq(lb_rxq[c], 1, k))) = k
        /\ Len(SubSeq(lb_rxq[c], k + 1, Len(lb_rxq[c]))) = Len(lb_rxq[c]) - k
    <3>1. Chain(lb_bus[c] \o lb_txq[c], <<>>, lb_rxq[c], lb_come[c], c)
      BY <1>0, <2>3 DEF Echoes
    <3> QED
      BY <3>1, ChainReceived
  <2>5. /\ lb_bus[c] \in Seq(LoopMsgs) /\ lb_txq[c] \in Seq(LoopMsgs)
        /\ Len(lb_rxq[c]) <= Running.rxlen /\ Len(lb_txq[c]) <= Running.txlen
        /\ lb_sent[c] = Len(lb_bus[c]) + Len(lb_txq[c])
        /\ lb_sent[c] + Len(<<>>) <= lb_received[c]
        /\ lb_received[c] + Len(lb_rxq[c]) <= lb_come[c]
    BY <1>0, <1>2, <2>3 DEF Echoes
  <2>6. /\ lb_sent[c] + k <= lb_received[c] + k
        /\ (lb_received[c] + k) + (Len(lb_rxq[c]) - k) <= lb_come[c]
        /\ Len(lb_rxq[c]) - k <= Running.rxlen
        /\ lb_received[c] + k \in 0 .. MaxCome
    <3>1. lb_sent[c] <= lb_received[c]
      <4>1. Len(<<>>) = 0
        OBVIOUS
      <4>2. lb_sent[c] + 0 <= lb_received[c]
        BY <2>5, <4>1, Zenon
      <4> QED
        BY <2>2, <4>2
    <3>2. Running.rxlen \in Nat
      BY LoopLengths DEF Running
    <3>3. lb_sent[c] + k <= lb_received[c] + k
      BY <2>2, <3>1
    <3>4. (lb_received[c] + k) + (Len(lb_rxq[c]) - k) = lb_received[c] + Len(lb_rxq[c])
      BY <1>3, <2>2
    <3>5. Len(lb_rxq[c]) <= Running.rxlen /\ lb_received[c] + Len(lb_rxq[c]) <= lb_come[c]
      BY <2>5, Zenon
    <3> HIDE DEF Running
    <3>6. /\ (lb_received[c] + k) + (Len(lb_rxq[c]) - k) <= lb_come[c]
          /\ Len(lb_rxq[c]) - k <= Running.rxlen
          /\ lb_received[c] + k \in 0 .. MaxCome
      BY <1>3, <2>2, <3>2, <3>4, <3>5, LoopLengths, SMTT(30)
    <3> QED
      BY <3>3, <3>6, Zenon
  <2>7. Echoes(c)'
    <3>1. Chain(lb_bus[c] \o lb_txq[c], Held(c), lb_rxq[c], lb_come[c], c)'
      BY <1>1, <2>2, <2>3, <2>4
    <3>2. (lb_sent[c] + Len(Held(c)) <= lb_received[c])'
      BY <1>1, <2>2, <2>3, <2>4, <2>6
    <3>3. (lb_received[c] + Len(lb_rxq[c]) <= lb_come[c])'
      BY <1>1, <2>2, <2>4, <2>6
    <3> QED
      BY <1>1, <1>2, <2>1, <2>2, <2>4, <2>5, <2>6, <3>1, <3>2, <3>3 DEF Echoes
  <2>8. LoopTypes'
    <3>1. k \in 0 .. ReadMax
      BY <1>3, <2>1
    <3>2. lb_canmsgs' \in Seq(LoopMsgs)
      BY <2>1, <2>4 DEF Chain
    <3> QED
      BY <1>0, <1>1, <2>1, <2>6, <3>1, <3>2 DEF LoopTypes
  <2>9. ASSUME NEW d \in LoopChans, d # c
        PROVE  Echoes(d)'
    <3>1. lb_pc[d] # "send"
      BY <1>1, <2>9, Alone
    <3>2. Echoes(d)
      BY DEF LoopInv
    <3>3. /\ lb_rxq'[d] = lb_rxq[d] /\ lb_received'[d] = lb_received[d]
          /\ lb_left'[d] = lb_left[d] /\ lb_pc'[d] = lb_pc[d]
      BY <1>0, <2>1, <2>9 DEF LoopTypes
    <3> QED
      BY <1>1, <3>1, <3>2, <3>3, Unmoved
  <2> QED
    BY <2>7, <2>8, <2>9 DEF LoopInv
<1> QED
  BY <1>4, <1>5, <1>6

LEMMA SendEchoes ==
  ASSUME LoopInv, NEW c \in LoopChans, LoopSend(c)
  PROVE  LoopInv'
<1>0. LoopTypes /\ Echoes(c)
  BY DEF LoopInv
<1>1. /\ Runs(c) /\ lb_pc[c] = "send"
      /\ UNCHANGED <<lb_ch, lb_canmsgs, lb_come, lb_rxq, lb_received, lb_bus>>
  BY DEF LoopSend
<1>2. /\ lb_ch[c] = Running /\ lb_cpu = c /\ lb_left[c] = Len(lb_canmsgs)
      /\ Held(c) = lb_canmsgs /\ lb_canmsgs \in Seq(LoopMsgs)
      /\ lb_bus[c] \in Seq(LoopMsgs) /\ lb_txq[c] \in Seq(LoopMsgs)
      /\ Chain(lb_bus[c] \o lb_txq[c], lb_canmsgs, lb_rxq[c], lb_come[c], c)
  BY <1>0, <1>1 DEF Echoes, Chain, Held
<1>3. /\ Len(lb_canmsgs) \in Nat /\ Len(lb_txq[c]) \in Nat /\ Len(lb_bus[c]) \in Nat
      /\ Len(lb_txq[c]) <= Running.txlen /\ Running.txlen \in Nat
  <2>1. Running.txlen \in Nat
    BY LoopLengths DEF Running
  <2> QED
    BY <1>0, <1>2, <2>1, OfSeq DEF Echoes
<1>4. PICK k \in 0 .. Len(lb_canmsgs) :
        /\ Len(lb_txq[c]) + k <= Running.txlen
        /\ lb_txq' = [lb_txq EXCEPT ![c] = @ \o SubSeq(lb_canmsgs, 1, k)]
        /\ lb_sent' = [lb_sent EXCEPT ![c] = @ + k]
        /\ lb_left' = [lb_left EXCEPT ![c] = 0]
        /\ lb_pc' = [lb_pc EXCEPT ![c] = "recv"]
        /\ lb_cpu' = c
  <2> DEFINE left == lb_left[c]
             room == lb_ch[c].txlen - Len(lb_txq[c])
             answer == Write(lb_ch[c], left, room)
             sent == Sent(lb_ch[c], answer)
             n == IF sent > 0 THEN sent ELSE 0
             from == Len(lb_canmsgs) - left
             waits == lb_ch[c].d_txblk /\ lb_ch[c].started /\ n < left
  <2>1. /\ lb_txq' = [lb_txq EXCEPT ![c] = @ \o SubSeq(lb_canmsgs, from + 1, from + n)]
        /\ lb_sent' = [lb_sent EXCEPT ![c] = @ + n]
        /\ lb_left' = [lb_left EXCEPT ![c] = IF waits THEN @ - n ELSE 0]
        /\ lb_pc' = [lb_pc EXCEPT ![c] = IF waits THEN "send" ELSE "recv"]
        /\ lb_cpu' = IF waits THEN "none" ELSE c
    BY Zenon DEF LoopSend
  <2>2. ~waits
    BY <1>2 DEF Running
  <2>3. room \in Nat /\ room = Running.txlen - Len(lb_txq[c]) /\ left \in Nat
    BY <1>2, <1>3
  <2>4. sent = (IF room > 0 THEN IF left < room THEN left ELSE room ELSE 0)
    <3>1. answer = IF room > 0 THEN [ret |-> IF left < room THEN left ELSE room, errno |-> "0"]
                               ELSE [ret |-> -1, errno |-> "ETIMEDOUT"]
      BY <1>2 DEF Write, Running
    <3> HIDE DEF room, left, answer
    <3>2. CASE room > 0
      BY <2>3, <3>1, <3>2 DEF Sent
    <3>3. CASE ~(room > 0)
      BY <1>2, <3>1, <3>3 DEF Sent, Running
    <3> QED
      BY <3>2, <3>3
  <2>5. n \in 0 .. left /\ n <= room
    <3> HIDE DEF room, left, sent
    <3> QED
      BY <2>3, <2>4
  <2>6. from = 0 /\ left = Len(lb_canmsgs)
    BY <1>2, <1>3
  <2> HIDE DEF left, room, answer, sent, n, from, waits
  <2>7. n \in 0 .. Len(lb_canmsgs) /\ Len(lb_txq[c]) + n <= Running.txlen /\ from + 1 = 1 /\ from + n = n
    BY <1>3, <2>3, <2>5, <2>6
  <2>8. /\ lb_txq' = [lb_txq EXCEPT ![c] = @ \o SubSeq(lb_canmsgs, 1, n)]
        /\ lb_sent' = [lb_sent EXCEPT ![c] = @ + n]
        /\ lb_left' = [lb_left EXCEPT ![c] = 0]
        /\ lb_pc' = [lb_pc EXCEPT ![c] = "recv"]
        /\ lb_cpu' = c
    BY <2>1, <2>2, <2>7
  <2> QED
    BY <2>7, <2>8
<1>5. /\ Chain((lb_bus[c] \o lb_txq[c]) \o SubSeq(lb_canmsgs, 1, k), <<>>, lb_rxq[c], lb_come[c], c)
      /\ SubSeq(lb_canmsgs, 1, k) \in Seq(LoopMsgs) /\ Len(SubSeq(lb_canmsgs, 1, k)) = k
  BY <1>2, ChainSent
<1> DEFINE piece == SubSeq(lb_canmsgs, 1, k)
<1> HIDE DEF piece
<1>6. /\ lb_txq'[c] = lb_txq[c] \o piece /\ lb_sent'[c] = lb_sent[c] + k
      /\ lb_left'[c] = 0 /\ lb_pc'[c] = "recv" /\ Held(c)' = <<>>
      /\ lb_sent[c] \in Nat /\ lb_received[c] \in 0 .. MaxCome /\ lb_come[c] \in 0 .. MaxCome
  BY <1>0, <1>4, LoopLengths DEF LoopTypes, Held, piece
<1>7. /\ lb_bus'[c] \o lb_txq'[c] = (lb_bus[c] \o lb_txq[c]) \o piece
      /\ lb_txq'[c] \in Seq(LoopMsgs) /\ Len(lb_txq'[c]) = Len(lb_txq[c]) + k
  <2>1. piece \in Seq(LoopMsgs) /\ Len(piece) = k
    BY <1>5 DEF piece
  <2>2. \A p, q, r \in Seq(LoopMsgs) : (p \o q) \o r = p \o (q \o r)
    <3> HIDE DEF LoopMsgs
    <3> SUFFICES ASSUME NEW p \in Seq(LoopMsgs), NEW q \in Seq(LoopMsgs), NEW r \in Seq(LoopMsgs)
                 PROVE  (p \o q) \o r = p \o (q \o r)
      OBVIOUS
    <3> QED
      BY ConcatAssociative
  <2>3. lb_txq[c] \o piece \in Seq(LoopMsgs) /\ Len(lb_txq[c] \o piece) = Len(lb_txq[c]) + Len(piece)
    <3> HIDE DEF LoopMsgs
    <3> QED
      BY <1>2, <2>1, ConcatProperties
  <2>4. (lb_bus[c] \o lb_txq[c]) \o piece = lb_bus[c] \o (lb_txq[c] \o piece)
    BY <1>2, <2>1, <2>2, ZenonT(60)
  <2> QED
    BY <1>1, <1>6, <2>1, <2>3, <2>4
<1>8. /\ lb_sent'[c] = Len(lb_bus'[c]) + Len(lb_txq'[c])
      /\ lb_sent[c] + k <= lb_received[c]
  <2>1. /\ lb_sent[c] = Len(lb_bus[c]) + Len(lb_txq[c])
        /\ lb_sent[c] + Len(lb_canmsgs) <= lb_received[c]
    BY <1>0, <1>2 DEF Echoes
  <2>2. \A a, b \in Nat : (a + b) + k = a + (b + k)
    BY <1>3
  <2>3. lb_sent[c] + k = Len(lb_bus[c]) + (Len(lb_txq[c]) + k)
    BY <1>3, <2>1, <2>2, Zenon
  <2>4. lb_sent[c] + k <= lb_received[c]
    <3> DEFINE held == Len(lb_canmsgs)
    <3>1. k <= held /\ held \in Nat /\ k \in Nat /\ lb_sent[c] + held <= lb_received[c]
      <4>1. held \in Nat /\ k \in 0 .. held /\ lb_sent[c] + held <= lb_received[c]
        BY <1>3, <2>1, Zenon
      <4> HIDE DEF held
      <4>2. k <= held /\ k \in Nat
        BY <4>1
      <4> QED
        BY <4>1, <4>2, Zenon
    <3> HIDE DEF held
    <3> QED
      BY <1>6, <3>1
  <2> QED
    BY <1>1, <1>6, <1>7, <2>3, <2>4, Zenon
<1>9. Echoes(c)'
  <2>1. Chain(lb_bus[c] \o lb_txq[c], Held(c), lb_rxq[c], lb_come[c], c)'
    <3>1. Chain((lb_bus[c] \o lb_txq[c]) \o piece, <<>>, lb_rxq[c], lb_come[c], c)
      BY <1>5 DEF piece
    <3> QED
      BY <1>1, <1>6, <1>7, <3>1
  <2>2. (lb_sent[c] + Len(Held(c)) <= lb_received[c])'
    <3>1. Len(<<>>) = 0 /\ (lb_sent[c] + k) + 0 = lb_sent[c] + k
      BY <1>6
    <3>2. lb_received'[c] = lb_received[c]
      BY <1>1
    <3> QED
      BY <1>6, <1>8, <3>1, <3>2, Zenon
  <2>3. lb_ch'[c] = Running /\ lb_pc'[c] = "recv" /\ Len(lb_txq'[c]) <= Running.txlen
    BY <1>1, <1>2, <1>4, <1>6, <1>7
  <2> QED
    BY <1>0, <1>1, <1>2, <1>6, <1>7, <1>8, <2>1, <2>2, <2>3 DEF Echoes
<1>10. LoopTypes'
  <2>1. lb_sent[c] + k \in 0 .. MaxCome
    BY <1>6, <1>8, LoopLengths
  <2>2. 0 \in 0 .. ReadMax
    BY LoopLengths
  <2> QED
    BY <1>0, <1>1, <1>4, <2>1, <2>2 DEF LoopTypes
<1>11. ASSUME NEW d \in LoopChans, d # c
       PROVE  Echoes(d)'
  <2>1. lb_pc[d] # "send"
    BY <1>1, <1>11, Alone
  <2>2. Echoes(d)
    BY DEF LoopInv
  <2>3. /\ lb_txq'[d] = lb_txq[d] /\ lb_sent'[d] = lb_sent[d]
        /\ lb_left'[d] = lb_left[d] /\ lb_pc'[d] = lb_pc[d]
    BY <1>0, <1>4, <1>11 DEF LoopTypes
  <2> QED
    BY <1>1, <2>1, <2>2, <2>3, Unmoved
<1> QED
  BY <1>9, <1>10, <1>11 DEF LoopInv

LEMMA ComesEchoes ==
  ASSUME LoopInv, NEW c \in LoopChans, MessageComes(c)
  PROVE  LoopInv'
<1>0. LoopTypes /\ Echoes(c)
  BY DEF LoopInv
<1>1. /\ lb_ch[c].started /\ lb_come[c] < MaxCome
      /\ lb_come' = [lb_come EXCEPT ![c] = @ + 1]
      /\ lb_rxq' = IF Len(lb_rxq[c]) < lb_ch[c].rxlen
                     THEN [lb_rxq EXCEPT ![c] = Append(@, Come(c, lb_come'[c]))] ELSE lb_rxq
      /\ UNCHANGED <<lb_ch, lb_pc, lb_cpu, lb_canmsgs, lb_left, lb_txq, lb_received, lb_sent, lb_bus>>
  BY Zenon DEF MessageComes
<1>2. /\ lb_pc[c] # "speed" /\ lb_ch[c] = Running
      /\ lb_come[c] \in Nat /\ lb_come'[c] = lb_come[c] + 1 /\ lb_received[c] \in Nat
      /\ lb_rxq[c] \in Seq(LoopMsgs) /\ Held(c)' = Held(c)
  <2>1. lb_pc[c] # "speed"
    BY <1>0, <1>1 DEF Echoes, Opened
  <2>2. lb_come[c] \in Nat /\ lb_come'[c] = lb_come[c] + 1 /\ lb_received[c] \in Nat
    BY <1>0, <1>1, LoopLengths DEF LoopTypes
  <2>3. Held(c)' = Held(c)
    BY <1>1 DEF Held
  <2> QED
    BY <1>0, <2>1, <2>2, <2>3 DEF Echoes, Chain
<1>3. /\ Chain(lb_bus[c] \o lb_txq[c], Held(c), lb_rxq'[c], lb_come[c] + 1, c)
      /\ Len(lb_rxq'[c]) <= Running.rxlen
      /\ lb_received[c] + Len(lb_rxq'[c]) <= lb_come[c] + 1
  <2>1. /\ Chain(lb_bus[c] \o lb_txq[c], Held(c), lb_rxq[c], lb_come[c], c)
        /\ Len(lb_rxq[c]) <= Running.rxlen /\ lb_received[c] + Len(lb_rxq[c]) <= lb_come[c]
    BY <1>0, <1>2 DEF Echoes
  <2>2. Len(lb_rxq[c]) \in Nat /\ Running.rxlen \in Nat
    BY <1>2, OfSeq, LoopLengths DEF Running
  <2>3. CASE Len(lb_rxq[c]) < lb_ch[c].rxlen
    <3> DEFINE m == Come(c, lb_come[c] + 1)
    <3>1. lb_rxq'[c] = Append(lb_rxq[c], m)
      BY <1>0, <1>1, <1>2, <2>3 DEF LoopTypes
    <3>2. m \in LoopMsgs
      BY <1>1, <1>2, LoopLengths DEF Come, LoopMsgs
    <3>3. Chain(lb_bus[c] \o lb_txq[c], Held(c), Append(lb_rxq[c], m), lb_come[c] + 1, c)
      BY <1>1, <1>2, <2>1, ChainComes
    <3> HIDE DEF m
    <3>4. Len(Append(lb_rxq[c], m)) = Len(lb_rxq[c]) + 1
      BY <1>2, <3>2, AppendProperties
    <3>5. Len(lb_rxq[c]) + 1 <= Running.rxlen /\ lb_received[c] + (Len(lb_rxq[c]) + 1) <= lb_come[c] + 1
      BY <1>2, <2>1, <2>2, <2>3
    <3> QED
      BY <3>1, <3>3, <3>4, <3>5, Zenon
  <2>4. CASE ~(Len(lb_rxq[c]) < lb_ch[c].rxlen)
    <3>1. lb_rxq'[c] = lb_rxq[c]
      BY <1>1, <2>4
    <3>2. Chain(lb_bus[c] \o lb_txq[c], Held(c), lb_rxq[c], lb_come[c] + 1, c)
      BY <1>2, <2>1, ChainLater
    <3>3. lb_received[c] + Len(lb_rxq[c]) <= lb_come[c] + 1
      BY <1>2, <2>1, <2>2
    <3> QED
      BY <2>1, <3>1, <3>2, <3>3, Zenon
  <2> QED
    BY <2>3, <2>4
<1>4. Echoes(c)'
  BY <1>0, <1>1, <1>2, <1>3 DEF Echoes
<1>5. LoopTypes'
  <2>1. lb_come[c] + 1 \in 0 .. MaxCome
    BY <1>1, <1>2, LoopLengths
  <2>2. DOMAIN lb_rxq' = LoopChans
    BY <1>0, <1>1 DEF LoopTypes
  <2> QED
    BY <1>0, <1>1, <2>1, <2>2 DEF LoopTypes
<1>6. ASSUME NEW d \in LoopChans, d # c
      PROVE  Echoes(d)'
  <2>1. lb_rxq'[d] = lb_rxq[d] /\ lb_come'[d] = lb_come[d]
    BY <1>0, <1>1, <1>6 DEF LoopTypes
  <2>2. Echoes(d)
    BY DEF LoopInv
  <2> QED
    BY <1>1, <2>1, <2>2, Unmoved
<1> QED
  BY <1>4, <1>5, <1>6 DEF LoopInv

LEMMA LeavesEchoes ==
  ASSUME LoopInv, NEW c \in LoopChans, MessageLeaves(c)
  PROVE  LoopInv'
<1>0. LoopTypes /\ Echoes(c)
  BY DEF LoopInv
<1>1. /\ lb_txq[c] # <<>>
      /\ lb_txq' = [lb_txq EXCEPT ![c] = Tail(@)]
      /\ lb_bus' = [lb_bus EXCEPT ![c] = Append(@, Head(lb_txq[c]))]
      /\ UNCHANGED <<lb_ch, lb_pc, lb_cpu, lb_canmsgs, lb_left, lb_come, lb_rxq, lb_received, lb_sent>>
  BY DEF MessageLeaves
<1>2. /\ lb_txq'[c] = Tail(lb_txq[c]) /\ lb_bus'[c] = Append(lb_bus[c], Head(lb_txq[c]))
      /\ Held(c)' = Held(c)
  BY <1>0, <1>1 DEF LoopTypes, Held
<1>3. lb_bus[c] \in Seq(LoopMsgs) /\ lb_txq[c] \in Seq(LoopMsgs)
  BY <1>0 DEF Echoes
<1>4. /\ lb_bus'[c] \o lb_txq'[c] = lb_bus[c] \o lb_txq[c]
      /\ lb_bus'[c] \in Seq(LoopMsgs) /\ lb_txq'[c] \in Seq(LoopMsgs)
      /\ Len(lb_txq'[c]) = Len(lb_txq[c]) - 1 /\ Len(lb_bus'[c]) = Len(lb_bus[c]) + 1
  <2> HIDE DEF LoopMsgs
  <2>1. ASSUME NEW b \in Seq(LoopMsgs), NEW t \in Seq(LoopMsgs), t # <<>>
        PROVE  /\ Append(b, Head(t)) \o Tail(t) = b \o t
               /\ Append(b, Head(t)) \in Seq(LoopMsgs) /\ Tail(t) \in Seq(LoopMsgs)
               /\ Len(Tail(t)) = Len(t) - 1 /\ Len(Append(b, Head(t))) = Len(b) + 1
    BY <2>1, ChainLeaves
  <2> QED
    BY <1>1, <1>2, <1>3, <2>1, ZenonT(60)
<1>5. /\ Len(lb_txq'[c]) <= lb_ch[c].txlen
      /\ Len(lb_bus'[c]) + Len(lb_txq'[c]) = Len(lb_bus[c]) + Len(lb_txq[c])
  <2>1. Len(lb_txq[c]) \in Nat /\ Len(lb_bus[c]) \in Nat /\ Len(lb_txq[c]) <= lb_ch[c].txlen
    BY <1>0, <1>3, OfSeq DEF Echoes
  <2>2. lb_ch[c].txlen \in Nat
    BY <1>0, LoopLengths DEF LoopTypes, Channels
  <2>3. \A a, b, l \in Nat : a <= l => a - 1 <= l /\ (b + 1) + (a - 1) = b + a
    OBVIOUS
  <2> QED
    BY <1>4, <2>1, <2>2, <2>3, Zenon
<1>6. Echoes(c)'
  BY <1>0, <1>1, <1>2, <1>4, <1>5 DEF Echoes
<1>7. LoopTypes'
  BY <1>0, <1>1 DEF LoopTypes
<1>8. ASSUME NEW d \in LoopChans, d # c
      PROVE  Echoes(d)'
  <2>1. lb_txq'[d] = lb_txq[d] /\ lb_bus'[d] = lb_bus[d]
    BY <1>0, <1>1, <1>8 DEF LoopTypes
  <2>2. Echoes(d)
    BY DEF LoopInv
  <2> QED
    BY <1>1, <2>1, <2>2, Unmoved
<1> QED
  BY <1>6, <1>7, <1>8 DEF LoopInv

LEMMA LoopStepKeeps == LoopInv /\ [LoopNext]_loop_vars => LoopInv'
<1> SUFFICES ASSUME LoopInv, [LoopNext]_loop_vars
             PROVE  LoopInv'
  OBVIOUS
<1>1. CASE UNCHANGED loop_vars
  BY <1>1 DEF loop_vars, LoopInv, LoopTypes, Echoes, Held
<1> QED
  BY <1>1, SetUpEchoes, RecvEchoes, SendEchoes, ComesEchoes, LeavesEchoes DEF LoopNext

LEMMA LoopInvariant == LoopSpec => []LoopInv
  BY LoopInitInv, LoopStepKeeps, PTL DEF LoopSpec

(* Every queue keeps to its length and every count to its bound, for any   *)
(* channels and lengths.                                                   *)
THEOREM LoopTyping == LoopSpec => []LoopTypeOK
BY LoopInvariant, LoopTyped, PTL

(* For any number of channels, what leaves a channel are messages that     *)
(* came on it, changed, each at most once and in their order, although     *)
(* all tasks work in one buffer.                                           *)
THEOREM EchoedOnce == LoopSpec => []EchoesOwn
<1>1. LoopInv => EchoesOwn
  <2> SUFFICES ASSUME LoopInv, NEW c \in LoopChans
               PROVE  LET out == lb_bus[c] \o lb_txq[c] IN
                        /\ \A i \in DOMAIN out : out[i].chan = c /\ out[i].changed
                        /\ \A i \in 2 .. Len(out) : out[i - 1].n < out[i].n
                        /\ lb_sent[c] = Len(out) /\ lb_sent[c] <= lb_received[c]
    BY Zenon DEF EchoesOwn
  <2> DEFINE out == lb_bus[c] \o lb_txq[c]
  <2>0. LoopTypes /\ Echoes(c)
    BY DEF LoopInv
  <2>1. /\ Own(out, c, TRUE) /\ Rising(out) /\ out \in Seq(LoopMsgs)
        /\ Held(c) \in Seq(LoopMsgs)
    BY <2>0 DEF Echoes, Chain
  <2>2. Len(out) = Len(lb_bus[c]) + Len(lb_txq[c])
    <3>1. lb_bus[c] \in Seq(LoopMsgs) /\ lb_txq[c] \in Seq(LoopMsgs)
      BY <2>0 DEF Echoes
    <3> HIDE DEF LoopMsgs
    <3> QED
      BY <3>1, ConcatProperties
  <2>3. lb_sent[c] = Len(out) /\ lb_sent[c] <= lb_received[c]
    <3>1. lb_sent[c] = Len(out) /\ lb_sent[c] + Len(Held(c)) <= lb_received[c]
      BY <2>0, <2>2 DEF Echoes
    <3>2. Len(Held(c)) \in Nat
      BY <2>1, OfSeq
    <3>3. lb_sent[c] \in Nat /\ lb_received[c] \in Nat
      BY <2>0, LoopLengths DEF LoopTypes
    <3>4. \A a, b, r \in Nat : a + b <= r => a <= r
      OBVIOUS
    <3> QED
      BY <3>1, <3>2, <3>3, <3>4, Zenon
  <2>4. DOMAIN out = 1 .. Len(out) /\ Len(out) \in Nat
    BY <2>1, OfSeq
  <2> HIDE DEF out
  <2>5. \A i \in 2 .. Len(out) : out[i - 1].n < out[i].n
    <3> TAKE i \in 2 .. Len(out)
    <3>1. i - 1 \in DOMAIN out /\ i \in DOMAIN out /\ i - 1 < i
      BY <2>4
    <3> QED
      BY <2>1, <3>1, Zenon DEF Rising
  <2>6. \A i \in DOMAIN out : out[i].chan = c /\ out[i].changed
    BY <2>1 DEF Own
  <2> QED
    BY <2>3, <2>5, <2>6, Zenon DEF out
<1> QED
  BY LoopInvariant, <1>1, PTL

-----------------------------------------------------------------------------
(* The OCCAN demo.  What a call of the library leaves of a channel.        *)
Lengths == {0, RX_LEN, TX_LEN}
Chan == Channels(Lengths)

Is(d, started, filter, txlen, rxlen) ==
  d \in Chan /\ d.started = started /\ d.filter = filter /\ d.txlen = txlen /\ d.rxlen = rxlen

LEMMA ChannelFields ==
  ASSUME NEW c \in Chan
  PROVE  /\ c.started \in BOOLEAN /\ c.busoff \in BOOLEAN /\ c.d_txblk \in BOOLEAN /\ c.d_rxblk \in BOOLEAN
         /\ c.txlen \in Lengths /\ c.rxlen \in Lengths /\ c.filter \in Filters
  BY DEF Chan, Channels

LEMMA LengthsChange ==
  ASSUME NEW c \in Chan, NEW a \in Lengths, NEW b \in Lengths
  PROVE  Is([c EXCEPT !.txlen = a, !.rxlen = b], c.started, c.filter, a, b)
<1> HIDE DEF Lengths, Filters
<1> QED
  BY DEF Channels, Chan, Is

LEMMA FilterChanges ==
  ASSUME NEW c \in Chan, NEW f \in Filters
  PROVE  Is([c EXCEPT !.filter = f], c.started, f, c.txlen, c.rxlen)
<1> HIDE DEF Lengths, Filters
<1> QED
  BY DEF Channels, Chan, Is

LEMMA Restarts ==
  ASSUME NEW c \in Chan, NEW s \in BOOLEAN, NEW b \in BOOLEAN
  PROVE  Is([c EXCEPT !.started = s, !.busoff = b], s, c.filter, c.txlen, c.rxlen)
<1> HIDE DEF Lengths, Filters
<1> QED
  BY DEF Channels, Chan, Is

LEMMA Stops ==
  ASSUME NEW c \in Chan, NEW s \in BOOLEAN
  PROVE  Is([c EXCEPT !.started = s], s, c.filter, c.txlen, c.rxlen)
<1> HIDE DEF Lengths, Filters
<1> QED
  BY DEF Channels, Chan, Is

LEMMA BlockingChanges ==
  ASSUME NEW c \in Chan, NEW t \in BOOLEAN, NEW r \in BOOLEAN
  PROVE  Is([c EXCEPT !.d_txblk = t, !.d_rxblk = r, !.txblk = t, !.rxblk = r],
            c.started, c.filter, c.txlen, c.rxlen)
<1> HIDE DEF Lengths, Filters
<1> QED
  BY DEF Channels, Chan, Is

(* What was asked of a channel was done, and what of it changed.           *)
SetUpTo(result, started, filter, txlen, rxlen) ==
  result.ret = 0 /\ Is(result.chan, started, filter, txlen, rxlen)

LEMMA ReturnIs == \A r, d : Returns(r, d).ret = r /\ Returns(r, d).chan = d
  BY DEF Returns

LEMMA StoppedCalls ==
  ASSUME NEW c \in Chan, ~c.started
  PROVE  /\ SetUpTo(SetUp("speed", c), FALSE, c.filter, c.txlen, c.rxlen)
         /\ SetUpTo(SetUp("btrs", c), FALSE, c.filter, c.txlen, c.rxlen)
         /\ SetUpTo(SetUp("buf", c), FALSE, c.filter, RX_LEN, TX_LEN)
         /\ SetUpTo(SetUp("filter_even", c), FALSE, "even", c.txlen, c.rxlen)
         /\ SetUpTo(SetUp("filter_all", c), FALSE, "all", c.txlen, c.rxlen)
         /\ SetUpTo(SetUp("start", c), TRUE, c.filter, c.txlen, c.rxlen)
<1>1. c.started = FALSE
  BY ChannelFields, Zenon
<1>2. RX_LEN \in Lengths /\ TX_LEN \in Lengths /\ "even" \in Filters /\ "all" \in Filters
  BY DEF Lengths, Filters
<1>3. \A d : WhenStopped(c, d) = Returns(0, d)
  BY Zenon DEF WhenStopped
<1>4. \A d : WhenStopped(c, d).ret = 0 /\ WhenStopped(c, d).chan = d
  BY <1>3 DEF Returns
<1>5. Is(c, FALSE, c.filter, c.txlen, c.rxlen)
  BY <1>1, Zenon DEF Is
<1>6. /\ SetUp("speed", c) = WhenStopped(c, c) /\ SetUp("btrs", c) = WhenStopped(c, c)
      /\ SetUp("buf", c) = WhenStopped(c, [c EXCEPT !.txlen = RX_LEN, !.rxlen = TX_LEN])
      /\ SetUp("filter_even", c) = WhenStopped(c, [c EXCEPT !.filter = "even"])
      /\ SetUp("filter_all", c) = WhenStopped(c, [c EXCEPT !.filter = "all"])
      /\ SetUp("start", c) = WhenStopped(c, [c EXCEPT !.started = TRUE, !.busoff = FALSE])
  BY DEF SetUp, SetSpeed, SetBtrs, SetBufLength, SetFilter, Start
<1>7. Is([c EXCEPT !.txlen = RX_LEN, !.rxlen = TX_LEN], FALSE, c.filter, RX_LEN, TX_LEN)
  BY <1>1, <1>2, LengthsChange, Zenon
<1>8. Is([c EXCEPT !.filter = "even"], FALSE, "even", c.txlen, c.rxlen)
  BY <1>1, <1>2, FilterChanges, Zenon
<1>9. Is([c EXCEPT !.filter = "all"], FALSE, "all", c.txlen, c.rxlen)
  BY <1>1, <1>2, FilterChanges, Zenon
<1>10. Is([c EXCEPT !.started = TRUE, !.busoff = FALSE], TRUE, c.filter, c.txlen, c.rxlen)
  <2>1. TRUE \in BOOLEAN /\ FALSE \in BOOLEAN
    OBVIOUS
  <2> QED
    BY <2>1, Restarts, Zenon
<1>11. SetUpTo(SetUp("speed", c), FALSE, c.filter, c.txlen, c.rxlen) /\ SetUpTo(SetUp("btrs", c), FALSE, c.filter, c.txlen, c.rxlen)
  BY <1>4, <1>5, <1>6, Zenon DEF SetUpTo
<1>12. SetUpTo(SetUp("buf", c), FALSE, c.filter, RX_LEN, TX_LEN)
  BY <1>4, <1>6, <1>7, Zenon DEF SetUpTo
<1>13. SetUpTo(SetUp("filter_even", c), FALSE, "even", c.txlen, c.rxlen)
  BY <1>4, <1>6, <1>8, Zenon DEF SetUpTo
<1>14. SetUpTo(SetUp("filter_all", c), FALSE, "all", c.txlen, c.rxlen)
  BY <1>4, <1>6, <1>9, Zenon DEF SetUpTo
<1>15. SetUpTo(SetUp("start", c), TRUE, c.filter, c.txlen, c.rxlen)
  BY <1>4, <1>6, <1>10, Zenon DEF SetUpTo
<1> QED
  BY <1>11, <1>12, <1>13, <1>14, <1>15, Zenon

LEMMA AnytimeCalls ==
  ASSUME NEW c \in Chan
  PROVE  /\ SetUpTo(SetUp("blk", c), c.started, c.filter, c.txlen, c.rxlen)
         /\ SetUpTo(SetUp("blk_none", c), c.started, c.filter, c.txlen, c.rxlen)
         /\ SetUpTo(SetUp("blk_rx", c), c.started, c.filter, c.txlen, c.rxlen)
         /\ SetUpTo(SetUp("stats", c), c.started, c.filter, c.txlen, c.rxlen)
         /\ SetUp("stop", c) = Stop(c) /\ Is(Stop(c).chan, FALSE, c.filter, c.txlen, c.rxlen)
<1>1. /\ SetUp("blk", c) = SetBlockingMode(c, TRUE, TRUE)
      /\ SetUp("blk_none", c) = SetBlockingMode(c, FALSE, FALSE)
      /\ SetUp("blk_rx", c) = SetBlockingMode(c, FALSE, TRUE)
      /\ SetUp("stats", c) = Returns(0, c) /\ SetUp("stop", c) = Stop(c)
  BY DEF SetUp
<1>2. ASSUME NEW t \in BOOLEAN, NEW r \in BOOLEAN
      PROVE  SetUpTo(SetBlockingMode(c, t, r), c.started, c.filter, c.txlen, c.rxlen)
  <2>1. Is([c EXCEPT !.d_txblk = t, !.d_rxblk = r, !.txblk = t, !.rxblk = r],
            c.started, c.filter, c.txlen, c.rxlen)
    BY BlockingChanges
  <2> QED
    BY <2>1, ReturnIs, Zenon DEF SetUpTo, SetBlockingMode
<1>3. TRUE \in BOOLEAN /\ FALSE \in BOOLEAN
  OBVIOUS
<1>4. c.started \in BOOLEAN
  BY ChannelFields, Zenon
<1>5. Is(Stop(c).chan, FALSE, c.filter, c.txlen, c.rxlen)
  <2>1. CASE c.started
    <3>1. Stop(c).chan = [c EXCEPT !.started = FALSE]
      BY <2>1, ReturnIs, Zenon DEF Stop
    <3> QED
      BY <1>3, <3>1, Stops, Zenon
  <2>2. CASE ~c.started
    <3>1. Stop(c).chan = c
      BY <2>2, ReturnIs, Zenon DEF Stop
    <3> QED
      BY <1>4, <2>2, <3>1, Zenon DEF Is
  <2> QED
    BY <2>1, <2>2
<1>6. SetUpTo(SetUp("stats", c), c.started, c.filter, c.txlen, c.rxlen)
  BY <1>1, ReturnIs, Zenon DEF SetUpTo, Is
<1> QED
  BY <1>1, <1>2, <1>3, <1>5, <1>6, Zenon

LEMMA OccanConstants ==
  /\ RX_LEN \in Nat \ {0} /\ TX_LEN \in Nat \ {0} /\ TestMsgs \in Nat \ {0}
  /\ StopRound \in Nat \ {0} /\ MaxRound \in Nat \ {0} /\ Lengths \subseteq Nat /\ TestMsgs <= 29
  BY OccanLengths DEF Lengths

(* A write takes no more than it is given and no more than there is room   *)
(* for, a read gives no more than was asked for and than has come.         *)
LEMMA WriteAnswers ==
  ASSUME NEW c \in Chan, NEW m \in Nat, NEW room \in Int, Write(c, m, room).errno # "blocks"
  PROVE  /\ Write(c, m, room).ret \in -1 .. m
         /\ Write(c, m, room).ret > 0 => Write(c, m, room).ret <= room
         /\ Sent(c, Write(c, m, room)) \in -2 .. m
         /\ Sent(c, Write(c, m, room)) > 0 => Sent(c, Write(c, m, room)) <= room
<1> DEFINE w == Write(c, m, room)
<1>1. w.ret \in -1 .. m /\ (w.ret > 0 => w.ret <= room)
  <2>1. \/ w = [ret |-> -1, errno |-> "EIO"] \/ w = [ret |-> -1, errno |-> "EBUSY"]
        \/ room > 0 /\ w = [ret |-> IF m < room THEN m ELSE room, errno |-> "0"]
        \/ w = [ret |-> 0, errno |-> "blocks"] \/ w = [ret |-> -1, errno |-> "ETIMEDOUT"]
    BY Zenon DEF Write
  <2> HIDE DEF w
  <2>2. CASE room > 0 /\ w = [ret |-> IF m < room THEN m ELSE room, errno |-> "0"]
    <3>1. w.ret = IF m < room THEN m ELSE room
      BY <2>2
    <3> QED
      BY <2>2, <3>1
  <2>3. CASE w.ret = -1
    BY <2>3
  <2>4. w.errno # "blocks"
    BY DEF w
  <2> QED
    BY <2>1, <2>2, <2>3, <2>4
<1>2. Sent(c, w) \in {w.ret, 0, -1, -2}
  <2> HIDE DEF w
  <2> QED
    BY DEF Sent
<1> HIDE DEF w
<1>3. \A s \in {w.ret, 0, -1, -2} : s \in -2 .. m /\ (s > 0 => s <= room)
  BY <1>1
<1> QED
  BY <1>1, <1>2, <1>3, Zenon DEF w

LEMMA ReadAnswers ==
  ASSUME NEW c \in Chan, NEW m \in Nat, NEW come \in Nat
  PROVE  /\ Read(c, m, come).ret \in Int
         /\ Read(c, m, come).ret > 0 => Read(c, m, come).ret <= come
         /\ Got(c, Read(c, m, come)) \in Int
         /\ Got(c, Read(c, m, come)) > 0 => Got(c, Read(c, m, come)) <= come
<1> DEFINE w == Read(c, m, come)
<1>1. w.ret \in Int /\ (w.ret > 0 => w.ret <= come)
  <2>1. \/ w = [ret |-> -1, errno |-> "EIO"] \/ w = [ret |-> -1, errno |-> "EBUSY"]
        \/ come > 0 /\ w = [ret |-> IF m < come THEN m ELSE come, errno |-> "0"]
        \/ w = [ret |-> 0, errno |-> "blocks"] \/ w = [ret |-> -1, errno |-> "ETIMEDOUT"]
    BY Zenon DEF Read
  <2> HIDE DEF w
  <2>2. CASE come > 0 /\ w = [ret |-> IF m < come THEN m ELSE come, errno |-> "0"]
    <3>1. w.ret = IF m < come THEN m ELSE come
      BY <2>2
    <3> QED
      BY <2>2, <3>1
  <2>3. CASE w.ret = -1 \/ w.ret = 0
    BY <2>3
  <2> QED
    BY <2>1, <2>2, <2>3
<1>2. Got(c, w) \in {w.ret, 0, -1, -2, -3}
  <2> HIDE DEF w
  <2> QED
    BY DEF Got
<1> HIDE DEF w
<1>3. \A s \in {w.ret, 0, -1, -2, -3} : s \in Int /\ (s > 0 => s <= come)
  BY <1>1
<1> QED
  BY <1>1, <1>2, <1>3, Zenon DEF w

(* The even filter: a message with an odd number has a bit that is         *)
(* compared and should not be there.  Identifiers have 29 bits.            *)
LEMMA OddFails ==
  ASSUME NEW n \in 0 .. 28, n % 2 = 1
  PROVE  ~Passes({n})
<1>1. n + 3 \in {4, 6, 8, 10, 12, 14, 16, 18, 20, 22, 24, 26, 28, 30}
  OBVIOUS
<1>2. \A r \in {4, 6} : 4 - r \div 8 = 4 /\ r % 8 \in {4, 6}
  OBVIOUS
<1>3. \A r \in {8, 10, 12, 14} : 4 - r \div 8 = 3 /\ r % 8 \in {0, 2, 4, 6}
  OBVIOUS
<1>4. \A r \in {16, 18, 20, 22} : 4 - r \div 8 = 2 /\ r % 8 \in {0, 2, 4, 6}
  OBVIOUS
<1>5. \A r \in {24, 26, 28, 30} : 4 - r \div 8 = 1 /\ r % 8 \in {0, 2, 4, 6}
  OBVIOUS
<1>6. /\ Mask[1] = {1, 3, 5, 7} /\ Mask[2] = {1, 3, 5, 7} /\ Mask[3] = {1, 3, 5, 7}
      /\ Mask[4] = {0, 1, 2, 3, 5, 7}
      /\ Code[1] = {} /\ Code[2] = {} /\ Code[3] = {} /\ Code[4] = {}
  BY DEF Mask, Code
<1>7. ~RegisterBit(Mask, n + 3) /\ ~RegisterBit(Code, n + 3)
  <2>1. CASE n + 3 \in {4, 6}
    BY <1>2, <1>6, <2>1 DEF RegisterBit
  <2>2. CASE n + 3 \in {8, 10, 12, 14}
    BY <1>3, <1>6, <2>2 DEF RegisterBit
  <2>3. CASE n + 3 \in {16, 18, 20, 22}
    BY <1>4, <1>6, <2>3 DEF RegisterBit
  <2>4. CASE n + 3 \in {24, 26, 28, 30}
    BY <1>5, <1>6, <2>4 DEF RegisterBit
  <2> QED
    BY <1>1, <2>1, <2>2, <2>3, <2>4
<1>8. n + 3 \in 3 .. 31 /\ n + 3 - 3 = n
  OBVIOUS
<1>9. n + 3 - 3 \in {n}
  BY <1>8
<1> SUFFICES ASSUME Passes({n}) PROVE FALSE
  OBVIOUS
<1>10. RegisterBit(Mask, n + 3) \/ (RegisterBit(Code, n + 3) <=> n + 3 - 3 \in {n})
  <2>1. \A r \in 3 .. 31 : RegisterBit(Mask, r) \/ (RegisterBit(Code, r) <=> r - 3 \in {n})
    BY Zenon DEF Passes
  <2> QED
    BY <1>8, <2>1
<1> QED
  BY <1>7, <1>9, <1>10, Zenon

-----------------------------------------------------------------------------
(* While a task sets its channel up the channel is stopped.                *)
OccanShape ==
  /\ oc_ch \in [1 .. 2 -> Chan] /\ oc_pc \in [1 .. 2 -> 1 .. 14]
  /\ oc_pc[1] \in 1 .. 4 \cup 8 .. 11 => ~oc_ch[1].started
  /\ oc_pc[2] \in 1 .. 5 \cup 9 .. 13 => ~oc_ch[2].started
  /\ IF oc_pc[1] <= 3 THEN oc_txq = <<>> ELSE oc_ch[1].txlen = RX_LEN
  /\ IF oc_pc[2] <= 3 THEN oc_rxq = <<>> ELSE oc_ch[2].rxlen = TX_LEN
  /\ oc_pc[2] <= 5 => oc_rxq = <<>>
  /\ oc_pc[2] \in {5, 6} => oc_ch[2].filter = "even"

OccanCounts ==
  /\ oc_left \in 0 .. TestMsgs + 3 /\ oc_round \in 0 .. MaxRound /\ oc_tries \in 0 .. 5
  /\ oc_pc[1] = 5 => oc_left \in 1 .. TestMsgs
  /\ oc_pc[1] = 13 => oc_left \in 1 .. 3
  /\ oc_pc[1] \in {13, 14} => oc_round < MaxRound
  /\ oc_pc[2] <= 6 => oc_tries < 5

Numbered(q) == \A i \in DOMAIN q : q[i].kind = "test" => q[i].n < TestMsgs
Even(q) == \A i \in DOMAIN q : q[i].kind = "test" => q[i].n % 2 # 1

OccanQueues ==
  /\ oc_txq \in Seq(Msgs) /\ Len(oc_txq) <= RX_LEN /\ Numbered(oc_txq)
  /\ oc_rxq \in Seq(Msgs) /\ Len(oc_rxq) <= TX_LEN
  /\ oc_pc[2] = 6 => Even(oc_rxq)

OccanInv == OccanShape /\ OccanCounts /\ OccanQueues /\ oc_refused = FALSE /\ oc_odd = FALSE

LEMMA CallsAre ==
  /\ Calls1[1] = "speed" /\ Calls1[2] = "blk" /\ Calls1[3] = "buf" /\ Calls1[4] = "start"
  /\ Calls1[5] = "test" /\ Calls1[6] = "stats" /\ Calls1[7] = "stop" /\ Calls1[8] = "btrs"
  /\ Calls1[9] = "buf" /\ Calls1[10] = "blk" /\ Calls1[11] = "start" /\ Calls1[12] = "std"
  /\ Calls1[13] = "ext" /\ Calls1[14] = "round"
  /\ Calls2[1] = "speed" /\ Calls2[2] = "blk_none" /\ Calls2[3] = "buf" /\ Calls2[4] = "filter_even"
  /\ Calls2[5] = "start" /\ Calls2[6] = "test" /\ Calls2[7] = "stats" /\ Calls2[8] = "stop"
  /\ Calls2[9] = "btrs" /\ Calls2[10] = "buf" /\ Calls2[11] = "blk_rx" /\ Calls2[12] = "filter_all"
  /\ Calls2[13] = "start" /\ Calls2[14] = "recv"
  BY DEF Calls1, Calls2

LEMMA AtCall ==
  ASSUME oc_pc \in [1 .. 2 -> 1 .. 14]
  PROVE  /\ Call(1) = "test" => oc_pc[1] = 5
         /\ Call(1) = "std" => oc_pc[1] = 12
         /\ Call(1) = "ext" => oc_pc[1] = 13
         /\ Call(1) = "round" => oc_pc[1] = 14
         /\ Call(2) = "test" => oc_pc[2] = 6
         /\ Call(2) = "recv" => oc_pc[2] = 14
         /\ Call(1) \in SetUpCalls => oc_pc[1] \in {1, 2, 3, 4, 6, 7, 8, 9, 10, 11}
         /\ Call(2) \in SetUpCalls => oc_pc[2] \in {1, 2, 3, 4, 5, 7, 8, 9, 10, 11, 12, 13}
<1>1. oc_pc[1] \in {1, 2, 3, 4, 5, 6, 7, 8, 9, 10, 11, 12, 13, 14}
      /\ oc_pc[2] \in {1, 2, 3, 4, 5, 6, 7, 8, 9, 10, 11, 12, 13, 14}
  OBVIOUS
<1>2. Call(1) = Calls1[oc_pc[1]] /\ Call(2) = Calls2[oc_pc[2]]
  BY DEF Call
<1>3. /\ Call(1) = "test" => oc_pc[1] = 5
      /\ Call(1) = "std" => oc_pc[1] = 12
      /\ Call(1) = "ext" => oc_pc[1] = 13
      /\ Call(1) = "round" => oc_pc[1] = 14
      /\ Call(1) \in SetUpCalls => oc_pc[1] \in {1, 2, 3, 4, 6, 7, 8, 9, 10, 11}
  BY <1>1, <1>2, CallsAre DEF SetUpCalls
<1>4. /\ Call(2) = "test" => oc_pc[2] = 6
      /\ Call(2) = "recv" => oc_pc[2] = 14
      /\ Call(2) \in SetUpCalls => oc_pc[2] \in {1, 2, 3, 4, 5, 7, 8, 9, 10, 11, 12, 13}
  BY <1>1, <1>2, CallsAre DEF SetUpCalls
<1> QED
  BY <1>3, <1>4, Zenon

LEMMA OccanTyped == OccanInv => OccanTypeOK /\ OccanSetUp
<1> SUFFICES ASSUME OccanInv PROVE OccanTypeOK /\ OccanSetUp
  OBVIOUS
<1>1. oc_ch \in [1 .. 2 -> Channels({0, RX_LEN, TX_LEN})] /\ oc_pc \in [1 .. 2 -> 1 .. 14]
  BY DEF OccanInv, OccanShape, Chan, Lengths
<1>2. oc_ch[1] \in Chan /\ oc_ch[2] \in Chan
  BY <1>1 DEF Chan, Lengths
<1>3. oc_ch[1].txlen \in Nat /\ oc_ch[2].rxlen \in Nat
  BY <1>2, ChannelFields, OccanConstants
<1>4. oc_txq \in Seq(Msgs) /\ oc_rxq \in Seq(Msgs) /\ Len(oc_txq) <= RX_LEN /\ Len(oc_rxq) <= TX_LEN
  BY DEF OccanInv, OccanQueues
<1>5. Len(oc_txq) <= oc_ch[1].txlen
  <2>1. CASE oc_pc[1] <= 3
    <3>1. oc_txq = <<>>
      BY <2>1 DEF OccanInv, OccanShape
    <3> QED
      BY <1>3, <3>1
  <2>2. CASE ~(oc_pc[1] <= 3)
    BY <1>4, <2>2 DEF OccanInv, OccanShape
  <2> QED
    BY <2>1, <2>2
<1>6. Len(oc_rxq) <= oc_ch[2].rxlen
  <2>1. CASE oc_pc[2] <= 3
    <3>1. oc_rxq = <<>>
      BY <2>1 DEF OccanInv, OccanShape
    <3> QED
      BY <1>3, <3>1
  <2>2. CASE ~(oc_pc[2] <= 3)
    BY <1>4, <2>2 DEF OccanInv, OccanShape
  <2> QED
    BY <2>1, <2>2
<1>7. {oc_refused, oc_odd} \subseteq BOOLEAN /\ ~oc_refused /\ ~oc_odd
  BY DEF OccanInv
<1> QED
  BY <1>1, <1>4, <1>5, <1>6, <1>7 DEF OccanInv, OccanCounts, OccanTypeOK, OccanSetUp

LEMMA OccanInvInit == OccanInit => OccanInv
<1> SUFFICES ASSUME OccanInit PROVE OccanInv
  OBVIOUS
<1>1. Opened(0) \in Chan /\ Opened(0).started = FALSE
  BY DEF Opened, Chan, Channels, Lengths, Filters
<1>2. oc_ch = [t \in 1 .. 2 |-> Opened(0)] /\ oc_pc = [t \in 1 .. 2 |-> 1]
  BY DEF OccanInit
<1>3. oc_ch \in [1 .. 2 -> Chan] /\ oc_pc \in [1 .. 2 -> 1 .. 14] /\ oc_pc[1] = 1 /\ oc_pc[2] = 1
      /\ oc_ch[1] = Opened(0) /\ oc_ch[2] = Opened(0)
  BY <1>1, <1>2
<1>4. OccanShape
  BY <1>1, <1>3 DEF OccanInit, OccanShape
<1>5. OccanCounts
  <2>1. 0 \in 0 .. TestMsgs + 3 /\ 0 \in 0 .. MaxRound
    BY OccanConstants
  <2> QED
    BY <1>3, <2>1 DEF OccanInit, OccanCounts
<1>6. OccanQueues
  <2>1. <<>> \in Seq(Msgs) /\ Len(<<>>) = 0 /\ DOMAIN <<>> = {}
    OBVIOUS
  <2>2. 0 <= RX_LEN /\ 0 <= TX_LEN
    BY OccanConstants
  <2> QED
    BY <2>1, <2>2, Zenon DEF OccanInit, OccanQueues, Numbered, Even
<1> QED
  BY <1>4, <1>5, <1>6 DEF OccanInit, OccanInv

-----------------------------------------------------------------------------
LEMMA SetUpFirst ==
  ASSUME OccanShape, Call(1) \in SetUpCalls
  PROVE  LET r == SetUp(Call(1), oc_ch[1]) IN
           /\ r.chan \in Chan /\ (r.ret = 0 \/ Call(1) = "stop")
           /\ oc_pc[1] \in {1, 2, 3, 7, 8, 9, 10} => r.chan.started = FALSE
           /\ r.chan.txlen = (IF oc_pc[1] \in {3, 9} THEN RX_LEN ELSE oc_ch[1].txlen)
           /\ Call(1) = "start" <=> oc_pc[1] \in {4, 11}
<1> DEFINE c == oc_ch[1]
           pc == oc_pc[1]
<1>1. c \in Chan /\ pc \in {1, 2, 3, 4, 6, 7, 8, 9, 10, 11}
  BY AtCall DEF OccanShape
<1>2. pc \in {1, 2, 3, 4, 8, 9, 10, 11} => ~c.started
  BY DEF OccanShape
<1>3. Call(1) = Calls1[pc]
  BY DEF Call
<1>4. c.started \in BOOLEAN
  BY <1>1, ChannelFields, Zenon
<1> HIDE DEF c, pc
<1>5. CASE pc \in {1, 2, 3, 4, 8, 9, 10, 11}
  <2>1. /\ SetUpTo(SetUp("speed", c), FALSE, c.filter, c.txlen, c.rxlen)
        /\ SetUpTo(SetUp("btrs", c), FALSE, c.filter, c.txlen, c.rxlen)
        /\ SetUpTo(SetUp("buf", c), FALSE, c.filter, RX_LEN, TX_LEN)
        /\ SetUpTo(SetUp("start", c), TRUE, c.filter, c.txlen, c.rxlen)
    BY <1>1, <1>2, <1>5, StoppedCalls, Zenon
  <2>2. SetUpTo(SetUp("blk", c), FALSE, c.filter, c.txlen, c.rxlen)
    BY <1>1, <1>2, <1>4, <1>5, AnytimeCalls, Zenon
  <2>3. \/ (pc = 1 /\ Call(1) = "speed")
        \/ (pc = 2 /\ Call(1) = "blk")
        \/ (pc = 3 /\ Call(1) = "buf")
        \/ (pc = 4 /\ Call(1) = "start")
        \/ (pc = 8 /\ Call(1) = "btrs")
        \/ (pc = 9 /\ Call(1) = "buf")
        \/ (pc = 10 /\ Call(1) = "blk")
        \/ (pc = 11 /\ Call(1) = "start")
    <3>1. pc = 1 \/ pc = 2 \/ pc = 3 \/ pc = 4 \/ pc = 8 \/ pc = 9 \/ pc = 10 \/ pc = 11
      BY <1>5
    <3>2. /\ (pc = 1 => Call(1) = "speed")
          /\ (pc = 2 => Call(1) = "blk")
          /\ (pc = 3 => Call(1) = "buf")
          /\ (pc = 4 => Call(1) = "start")
          /\ (pc = 8 => Call(1) = "btrs")
          /\ (pc = 9 => Call(1) = "buf")
          /\ (pc = 10 => Call(1) = "blk")
          /\ (pc = 11 => Call(1) = "start")
      BY <1>3, CallsAre, ZenonT(60)
    <3> QED
      BY <3>1, <3>2, Zenon
  <2> QED
    BY <2>1, <2>2, <2>3 DEF SetUpTo, Is, c, pc
<1>6. CASE pc = 6
  <2>1. Call(1) = "stats"
    BY <1>3, <1>6, CallsAre
  <2>2. SetUpTo(SetUp("stats", c), c.started, c.filter, c.txlen, c.rxlen)
    BY <1>1, AnytimeCalls, Zenon
  <2> QED
    BY <1>6, <2>1, <2>2 DEF SetUpTo, Is, c, pc
<1>7. CASE pc = 7
  <2>1. Call(1) = "stop"
    BY <1>3, <1>7, CallsAre
  <2>2. Is(SetUp("stop", c).chan, FALSE, c.filter, c.txlen, c.rxlen)
    BY <1>1, AnytimeCalls, Zenon
  <2> QED
    BY <1>7, <2>1, <2>2 DEF Is, c, pc
<1> QED
  BY <1>1, <1>5, <1>6, <1>7, Zenon

LEMMA SetUpSecond ==
  ASSUME OccanShape, Call(2) \in SetUpCalls
  PROVE  LET r == SetUp(Call(2), oc_ch[2]) IN
           /\ r.chan \in Chan /\ (r.ret = 0 \/ Call(2) = "stop")
           /\ oc_pc[2] \in {1, 2, 3, 4, 8, 9, 10, 11, 12} => r.chan.started = FALSE
           /\ r.chan.rxlen = (IF oc_pc[2] \in {3, 10} THEN TX_LEN ELSE oc_ch[2].rxlen)
           /\ oc_pc[2] \in {4, 5} => r.chan.filter = "even"
           /\ Call(2) = "start" <=> oc_pc[2] \in {5, 13}
<1> DEFINE c == oc_ch[2]
           pc == oc_pc[2]
<1>1. c \in Chan /\ pc \in {1, 2, 3, 4, 5, 7, 8, 9, 10, 11, 12, 13}
  BY AtCall DEF OccanShape
<1>2. (pc \in {1, 2, 3, 4, 5, 9, 10, 11, 12, 13} => ~c.started) /\ (pc = 5 => c.filter = "even")
  BY DEF OccanShape
<1>3. Call(2) = Calls2[pc]
  BY DEF Call
<1>4. c.started \in BOOLEAN
  BY <1>1, ChannelFields, Zenon
<1> HIDE DEF c, pc
<1>5. CASE pc \in {1, 2, 3, 4, 5, 9, 10, 11, 12, 13}
  <2>1. /\ SetUpTo(SetUp("speed", c), FALSE, c.filter, c.txlen, c.rxlen)
        /\ SetUpTo(SetUp("btrs", c), FALSE, c.filter, c.txlen, c.rxlen)
        /\ SetUpTo(SetUp("buf", c), FALSE, c.filter, RX_LEN, TX_LEN)
        /\ SetUpTo(SetUp("filter_even", c), FALSE, "even", c.txlen, c.rxlen)
        /\ SetUpTo(SetUp("filter_all", c), FALSE, "all", c.txlen, c.rxlen)
        /\ SetUpTo(SetUp("start", c), TRUE, c.filter, c.txlen, c.rxlen)
    BY <1>1, <1>2, <1>5, StoppedCalls, Zenon
  <2>2. SetUpTo(SetUp("blk_none", c), FALSE, c.filter, c.txlen, c.rxlen)
        /\ SetUpTo(SetUp("blk_rx", c), FALSE, c.filter, c.txlen, c.rxlen)
    BY <1>1, <1>2, <1>4, <1>5, AnytimeCalls, Zenon
  <2>3. \/ (pc = 1 /\ Call(2) = "speed")
        \/ (pc = 2 /\ Call(2) = "blk_none")
        \/ (pc = 3 /\ Call(2) = "buf")
        \/ (pc = 4 /\ Call(2) = "filter_even")
        \/ (pc = 5 /\ Call(2) = "start")
        \/ (pc = 9 /\ Call(2) = "btrs")
        \/ (pc = 10 /\ Call(2) = "buf")
        \/ (pc = 11 /\ Call(2) = "blk_rx")
        \/ (pc = 12 /\ Call(2) = "filter_all")
        \/ (pc = 13 /\ Call(2) = "start")
    <3>1. pc = 1 \/ pc = 2 \/ pc = 3 \/ pc = 4 \/ pc = 5 \/ pc = 9 \/ pc = 10 \/ pc = 11 \/ pc = 12 \/ pc = 13
      BY <1>5
    <3>2. /\ (pc = 1 => Call(2) = "speed")
          /\ (pc = 2 => Call(2) = "blk_none")
          /\ (pc = 3 => Call(2) = "buf")
          /\ (pc = 4 => Call(2) = "filter_even")
          /\ (pc = 5 => Call(2) = "start")
          /\ (pc = 9 => Call(2) = "btrs")
          /\ (pc = 10 => Call(2) = "buf")
          /\ (pc = 11 => Call(2) = "blk_rx")
          /\ (pc = 12 => Call(2) = "filter_all")
          /\ (pc = 13 => Call(2) = "start")
      BY <1>3, CallsAre, ZenonT(60)
    <3> QED
      BY <3>1, <3>2, Zenon
  <2> QED
    BY <1>2, <2>1, <2>2, <2>3 DEF SetUpTo, Is, c, pc
<1>6. CASE pc = 7
  <2>1. Call(2) = "stats"
    BY <1>3, <1>6, CallsAre
  <2>2. SetUpTo(SetUp("stats", c), c.started, c.filter, c.txlen, c.rxlen)
    BY <1>1, AnytimeCalls, Zenon
  <2> QED
    BY <1>6, <2>1, <2>2 DEF SetUpTo, Is, c, pc
<1>7. CASE pc = 8
  <2>1. Call(2) = "stop"
    BY <1>3, <1>7, CallsAre
  <2>2. Is(SetUp("stop", c).chan, FALSE, c.filter, c.txlen, c.rxlen)
    BY <1>1, AnytimeCalls, Zenon
  <2> QED
    BY <1>7, <2>1, <2>2 DEF Is, c, pc
<1> QED
  BY <1>1, <1>5, <1>6, <1>7, Zenon

LEMMA NoMessages == <<>> \in Seq(Msgs) /\ Len(<<>>) = 0 /\ Numbered(<<>>) /\ Even(<<>>)
<1>1. <<>> \in Seq(Msgs) /\ Len(<<>>) = 0 /\ DOMAIN <<>> = {}
  OBVIOUS
<1> QED
  BY <1>1, Zenon DEF Numbered, Even

LEMMA SetUpFirstKeeps == OccanInv /\ SetUpChannel(1) => OccanInv'
<1> SUFFICES ASSUME OccanInv, SetUpChannel(1) PROVE OccanInv'
  OBVIOUS
<1> DEFINE r == SetUp(Call(1), oc_ch[1])
<1>1. OccanShape /\ OccanCounts /\ OccanQueues /\ Call(1) \in SetUpCalls
  BY DEF OccanInv, SetUpChannel
<1>2. /\ oc_ch' = [oc_ch EXCEPT ![1] = r.chan] /\ oc_pc' = [oc_pc EXCEPT ![1] = oc_pc[1] + 1]
      /\ oc_refused' = (oc_refused \/ (r.ret # 0 /\ Call(1) # "stop"))
      /\ oc_txq' = (IF Call(1) = "start" THEN <<>> ELSE oc_txq)
      /\ oc_rxq' = oc_rxq
      /\ oc_left' = (IF Call(1) = "start" /\ oc_pc[1] = 4 THEN TestMsgs ELSE oc_left)
      /\ oc_round' = oc_round /\ oc_tries' = oc_tries /\ oc_odd' = oc_odd
  BY DEF SetUpChannel, Past
<1>3. /\ r.chan \in Chan /\ (r.ret = 0 \/ Call(1) = "stop")
      /\ oc_pc[1] \in {1, 2, 3, 7, 8, 9, 10} => r.chan.started = FALSE
      /\ r.chan.txlen = (IF oc_pc[1] \in {3, 9} THEN RX_LEN ELSE oc_ch[1].txlen)
      /\ Call(1) = "start" <=> oc_pc[1] \in {4, 11}
  BY <1>1, SetUpFirst, Zenon
<1>4. oc_pc[1] \in {1, 2, 3, 4, 6, 7, 8, 9, 10, 11} /\ oc_pc \in [1 .. 2 -> 1 .. 14] /\ oc_ch \in [1 .. 2 -> Chan]
  BY <1>1, AtCall DEF OccanShape
<1> HIDE DEF r
<1>5. /\ oc_pc' \in [1 .. 2 -> 1 .. 14] /\ oc_pc'[1] = oc_pc[1] + 1 /\ oc_pc'[2] = oc_pc[2]
      /\ oc_ch' \in [1 .. 2 -> Chan] /\ oc_ch'[1] = r.chan /\ oc_ch'[2] = oc_ch[2]
  BY <1>2, <1>3, <1>4
<1>6. oc_refused' = FALSE /\ oc_odd' = FALSE
  BY <1>2, <1>3, Zenon DEF OccanInv
<1>7. oc_txq' = (IF oc_pc[1] \in {4, 11} THEN <<>> ELSE oc_txq)
  BY <1>2, <1>3, Zenon
<1>8. OccanShape'
  <2>1. oc_pc'[1] \in 1 .. 4 \cup 8 .. 11 => ~oc_ch'[1].started
    BY <1>3, <1>4, <1>5
  <2>2. IF oc_pc'[1] <= 3 THEN oc_txq' = <<>> ELSE oc_ch'[1].txlen = RX_LEN
    BY <1>1, <1>3, <1>4, <1>5, <1>7 DEF OccanShape
  <2> QED
    BY <1>1, <1>2, <1>5, <2>1, <2>2 DEF OccanShape
<1>9. OccanCounts'
  <2>1. oc_left' \in 0 .. TestMsgs + 3 /\ (oc_pc'[1] = 5 => oc_left' \in 1 .. TestMsgs) /\ oc_pc'[1] \notin {13, 14}
    BY <1>1, <1>2, <1>3, <1>4, <1>5, OccanConstants DEF OccanCounts
  <2> QED
    BY <1>1, <1>2, <1>5, <2>1 DEF OccanCounts
<1>10. OccanQueues'
  <2>1. 0 <= RX_LEN
    BY OccanConstants
  <2> QED
    BY <1>1, <1>2, <1>5, <1>7, <2>1, NoMessages, Zenon DEF OccanQueues, Numbered, Even
<1> QED
  BY <1>6, <1>8, <1>9, <1>10 DEF OccanInv

LEMMA SetUpSecondKeeps == OccanInv /\ SetUpChannel(2) => OccanInv'
<1> SUFFICES ASSUME OccanInv, SetUpChannel(2) PROVE OccanInv'
  OBVIOUS
<1> DEFINE r == SetUp(Call(2), oc_ch[2])
<1>1. OccanShape /\ OccanCounts /\ OccanQueues /\ Call(2) \in SetUpCalls
  BY DEF OccanInv, SetUpChannel
<1>2. /\ oc_ch' = [oc_ch EXCEPT ![2] = r.chan] /\ oc_pc' = [oc_pc EXCEPT ![2] = oc_pc[2] + 1]
      /\ oc_refused' = (oc_refused \/ (r.ret # 0 /\ Call(2) # "stop"))
      /\ oc_txq' = oc_txq
      /\ oc_rxq' = (IF Call(2) = "start" THEN <<>> ELSE oc_rxq)
      /\ oc_left' = oc_left
      /\ oc_round' = oc_round /\ oc_tries' = oc_tries /\ oc_odd' = oc_odd
  BY DEF SetUpChannel, Past
<1>3. /\ r.chan \in Chan /\ (r.ret = 0 \/ Call(2) = "stop")
      /\ oc_pc[2] \in {1, 2, 3, 4, 8, 9, 10, 11, 12} => r.chan.started = FALSE
      /\ r.chan.rxlen = (IF oc_pc[2] \in {3, 10} THEN TX_LEN ELSE oc_ch[2].rxlen)
      /\ oc_pc[2] \in {4, 5} => r.chan.filter = "even"
      /\ Call(2) = "start" <=> oc_pc[2] \in {5, 13}
  BY <1>1, SetUpSecond, Zenon
<1>4. oc_pc[2] \in {1, 2, 3, 4, 5, 7, 8, 9, 10, 11, 12, 13} /\ oc_pc \in [1 .. 2 -> 1 .. 14] /\ oc_ch \in [1 .. 2 -> Chan]
  BY <1>1, AtCall DEF OccanShape
<1> HIDE DEF r
<1>5. /\ oc_pc' \in [1 .. 2 -> 1 .. 14] /\ oc_pc'[2] = oc_pc[2] + 1 /\ oc_pc'[1] = oc_pc[1]
      /\ oc_ch' \in [1 .. 2 -> Chan] /\ oc_ch'[2] = r.chan /\ oc_ch'[1] = oc_ch[1]
  BY <1>2, <1>3, <1>4
<1>6. oc_refused' = FALSE /\ oc_odd' = FALSE
  BY <1>2, <1>3, Zenon DEF OccanInv
<1>7. oc_rxq' = (IF oc_pc[2] \in {5, 13} THEN <<>> ELSE oc_rxq)
  BY <1>2, <1>3, Zenon
<1>8. OccanShape'
  <2>1. oc_pc'[2] \in 1 .. 5 \cup 9 .. 13 => ~oc_ch'[2].started
    BY <1>3, <1>4, <1>5
  <2>2. IF oc_pc'[2] <= 3 THEN oc_rxq' = <<>> ELSE oc_ch'[2].rxlen = TX_LEN
    BY <1>1, <1>3, <1>4, <1>5, <1>7 DEF OccanShape
  <2>3. (oc_pc'[2] <= 5 => oc_rxq' = <<>>) /\ (oc_pc'[2] \in {5, 6} => oc_ch'[2].filter = "even")
    BY <1>1, <1>3, <1>4, <1>5, <1>7 DEF OccanShape
  <2> QED
    BY <1>1, <1>2, <1>5, <2>1, <2>2, <2>3 DEF OccanShape
<1>9. OccanCounts'
  <2>1. oc_pc'[2] <= 6 => oc_tries < 5
    BY <1>1, <1>4, <1>5 DEF OccanCounts
  <2> QED
    BY <1>1, <1>2, <1>5, <2>1 DEF OccanCounts
<1>10. OccanQueues'
  <2>1. 0 <= TX_LEN
    BY OccanConstants
  <2>2. oc_pc'[2] = 6 => oc_rxq' = <<>>
    BY <1>4, <1>5, <1>7
  <2>3. /\ oc_txq' \in Seq(Msgs) /\ Len(oc_txq') <= RX_LEN /\ Numbered(oc_txq')
        /\ oc_rxq' \in Seq(Msgs) /\ Len(oc_rxq') <= TX_LEN
    BY <1>1, <1>2, <1>7, <2>1, NoMessages, Zenon DEF OccanQueues
  <2>4. oc_pc'[2] = 6 => Even(oc_rxq')
    BY <2>2, NoMessages, Zenon
  <2> QED
    BY <2>3, <2>4, Zenon DEF OccanQueues, Numbered, Even
<1> QED
  BY <1>6, <1>8, <1>9, <1>10 DEF OccanInv

(* A task that writes m messages of ms.                                    *)
LEMMA QueuedKeeps ==
  ASSUME OccanQueues, NEW m \in Nat, NEW ms \in Seq(Msgs), Len(ms) = m, Numbered(ms),
         NEW n \in 0 .. m, n > 0 => n <= RX_LEN - Len(oc_txq), Queued(ms, n)
  PROVE  oc_txq' \in Seq(Msgs) /\ Len(oc_txq') <= RX_LEN /\ Numbered(oc_txq')
<1> DEFINE s == SubSeq(ms, 1, n)
<1>1. oc_txq \in Seq(Msgs) /\ Len(oc_txq) <= RX_LEN /\ Numbered(oc_txq)
  BY DEF OccanQueues
<1>2. s \in Seq(Msgs) /\ Len(s) = n /\ (\A i \in 1 .. n : s[i] = ms[i])
  OBVIOUS
<1>3. oc_txq' = oc_txq \o s
  BY DEF Queued
<1>4. \A i \in 1 .. n : s[i].kind = "test" => s[i].n < TestMsgs
  <2>1. \A i \in 1 .. n : i \in DOMAIN ms
    OBVIOUS
  <2> QED
    BY <1>2, <2>1, Zenon DEF Numbered
<1> HIDE DEF s
<1>5. /\ oc_txq' \in Seq(Msgs) /\ Len(oc_txq') = Len(oc_txq) + n
      /\ \A i \in 1 .. Len(oc_txq) + n :
           oc_txq'[i] = IF i <= Len(oc_txq) THEN oc_txq[i] ELSE s[i - Len(oc_txq)]
  BY <1>1, <1>2, <1>3, ConcatProperties, Zenon
<1>6. Len(oc_txq') <= RX_LEN
  BY <1>1, <1>5, OccanConstants
<1>7. ASSUME NEW i \in DOMAIN oc_txq', oc_txq'[i].kind = "test"
      PROVE  oc_txq'[i].n < TestMsgs
  <2>1. i \in 1 .. Len(oc_txq) + n /\ Len(oc_txq) \in Nat
    BY <1>1, <1>5
  <2>2. CASE i <= Len(oc_txq)
    <3>1. i \in DOMAIN oc_txq /\ oc_txq'[i] = oc_txq[i]
      BY <1>1, <1>5, <2>1, <2>2
    <3> QED
      BY <1>1, <1>7, <3>1 DEF Numbered
  <2>3. CASE ~(i <= Len(oc_txq))
    <3>1. i - Len(oc_txq) \in 1 .. n /\ oc_txq'[i] = s[i - Len(oc_txq)]
      BY <1>5, <2>1, <2>3
    <3> QED
      BY <1>4, <1>7, <3>1
  <2> QED
    BY <2>2, <2>3
<1> QED
  BY <1>5, <1>6, <1>7 DEF Numbered

LEMMA FirstWrites ==
  ASSUME OccanShape, OccanQueues, oc_pc[1] > 4, NEW m \in Nat, Wr(m).errno # "blocks"
  PROVE  /\ Wr(m).ret \in -1 .. m /\ (Wr(m).ret > 0 => Wr(m).ret <= RX_LEN - Len(oc_txq))
         /\ Sent(oc_ch[1], Wr(m)) \in -2 .. m
         /\ (Sent(oc_ch[1], Wr(m)) > 0 => Sent(oc_ch[1], Wr(m)) <= RX_LEN - Len(oc_txq))
<1>1. oc_ch[1] \in Chan /\ oc_ch[1].txlen = RX_LEN /\ Len(oc_txq) \in Nat
  BY SMTT(30) DEF OccanShape, OccanQueues
<1>2. RX_LEN - Len(oc_txq) \in Int
  BY <1>1, OccanConstants
<1> QED
  BY <1>1, <1>2, WriteAnswers DEF Wr

LEMMA TestMessages ==
  ASSUME NEW left \in 1 .. TestMsgs
  PROVE  LET ms == [i \in 1 .. left |-> [kind |-> "test", n |-> TestMsgs - left + i - 1]]
         IN  ms \in Seq(Msgs) /\ Len(ms) = left /\ Numbered(ms)
<1> DEFINE e(i) == [kind |-> "test", n |-> TestMsgs - left + i - 1]
           ms == [i \in 1 .. left |-> e(i)]
<1>1. left \in Nat /\ TestMsgs \in Nat
  BY OccanConstants
<1>2. \A i \in 1 .. left : TestMsgs - left + i - 1 \in Nat /\ TestMsgs - left + i - 1 < TestMsgs
  BY <1>1
<1>3. \A i \in 1 .. left : e(i) \in Msgs /\ e(i).n = TestMsgs - left + i - 1
  BY <1>2 DEF Msgs
<1> HIDE DEF e
<1>4. ms \in Seq(Msgs) /\ Len(ms) = left /\ DOMAIN ms = 1 .. left
  BY <1>1, <1>3
<1>5. \A i \in 1 .. left : ms[i].n < TestMsgs
  BY <1>2, <1>3
<1> QED
  BY <1>4, <1>5 DEF Numbered, e

LEMMA OtherMessages ==
  ASSUME NEW left \in 1 .. 3
  PROVE  LET ms == [i \in 1 .. left |-> [kind |-> "ext", n |-> 3 - left + i - 1]]
         IN  ms \in Seq(Msgs) /\ Len(ms) = left /\ Numbered(ms)
<1> DEFINE e(i) == [kind |-> "ext", n |-> 3 - left + i - 1]
           ms == [i \in 1 .. left |-> e(i)]
<1>1. left \in Nat
  OBVIOUS
<1>2. \A i \in 1 .. left : 3 - left + i - 1 \in Nat
  BY <1>1
<1>3. \A i \in 1 .. left : e(i) \in Msgs /\ e(i).kind = "ext"
  BY <1>2 DEF Msgs
<1> HIDE DEF e
<1>4. ms \in Seq(Msgs) /\ Len(ms) = left /\ DOMAIN ms = 1 .. left
  BY <1>1, <1>3
<1>5. \A i \in 1 .. left : ms[i].kind # "test"
  BY <1>3
<1> QED
  BY <1>4, <1>5 DEF Numbered, e

(* What task 1 does after it has started its channel.                      *)
LEMMA FirstMoves ==
  ASSUME OccanInv, oc_pc[1] \in 5 .. 14, NEW p \in 1 .. 14, p > 4, p \notin 8 .. 11,
         oc_pc' = [oc_pc EXCEPT ![1] = p], oc_ch' = oc_ch, oc_rxq' = oc_rxq,
         oc_tries' = oc_tries, oc_refused' = oc_refused, oc_odd' = oc_odd,
         oc_txq' \in Seq(Msgs) /\ Len(oc_txq') <= RX_LEN /\ Numbered(oc_txq'),
         oc_left' \in 0 .. TestMsgs + 3 /\ oc_round' \in 0 .. MaxRound,
         p = 5 => oc_left' \in 1 .. TestMsgs, p = 13 => oc_left' \in 1 .. 3,
         p \in {13, 14} => oc_round' < MaxRound
  PROVE  OccanInv'
<1>1. OccanShape /\ OccanCounts /\ OccanQueues
  BY DEF OccanInv
<1>2. oc_pc' \in [1 .. 2 -> 1 .. 14] /\ oc_pc'[1] = p /\ oc_pc'[2] = oc_pc[2]
  BY <1>1 DEF OccanShape
<1>3. oc_ch[1].txlen = RX_LEN
  BY <1>1, SMTT(30) DEF OccanShape
<1>4. p \notin 1 .. 4 \cup 8 .. 11 /\ ~(p <= 3)
  OBVIOUS
<1>5. OccanShape'
  BY <1>1, <1>2, <1>3, <1>4 DEF OccanShape
<1>6. OccanCounts'
  BY <1>1, <1>2 DEF OccanCounts
<1>7. OccanQueues'
  BY <1>1, <1>2 DEF OccanQueues, Even
<1> QED
  BY <1>5, <1>6, <1>7 DEF OccanInv

LEMMA SendTestKeeps == OccanInv /\ SendTest => OccanInv'
<1> SUFFICES ASSUME OccanInv, SendTest PROVE OccanInv'
  OBVIOUS
<1> DEFINE answer == Wr(oc_left)
           sent   == Sent(oc_ch[1], answer)
           msgs   == [i \in 1 .. oc_left |-> [kind |-> "test", n |-> TestMsgs - oc_left + i - 1]]
<1>1. OccanShape /\ OccanCounts /\ OccanQueues /\ oc_pc \in [1 .. 2 -> 1 .. 14] /\ oc_pc[1] = 5
  BY AtCall DEF OccanInv, OccanShape, SendTest
<1>2. /\ answer.errno # "blocks"
      /\ IF sent < 0 THEN Past(1) /\ UNCHANGED <<oc_txq, oc_left>>
         ELSE /\ Queued(msgs, sent)
              /\ oc_left' = oc_left - sent
              /\ IF oc_left' = 0 THEN Past(1) ELSE UNCHANGED oc_pc
      /\ UNCHANGED <<oc_ch, oc_round, oc_tries, oc_rxq, oc_refused, oc_odd>>
  BY Zenon DEF SendTest
<1>3. oc_left \in 1 .. TestMsgs /\ oc_left \in Nat /\ oc_round \in 0 .. MaxRound
  BY <1>1, OccanConstants DEF OccanCounts
<1>4. sent \in -2 .. oc_left /\ (sent > 0 => sent <= RX_LEN - Len(oc_txq))
  BY <1>1, <1>2, <1>3, FirstWrites
<1>5. msgs \in Seq(Msgs) /\ Len(msgs) = oc_left /\ Numbered(msgs)
  BY <1>3, TestMessages, Zenon
<1>6. oc_txq \in Seq(Msgs) /\ Len(oc_txq) <= RX_LEN /\ Numbered(oc_txq)
  BY <1>1 DEF OccanQueues
<1> HIDE DEF answer, sent, msgs
<1>7. CASE sent < 0
  <2>1. oc_pc' = [oc_pc EXCEPT ![1] = 6] /\ oc_txq' = oc_txq /\ oc_left' = oc_left
    BY <1>1, <1>2, <1>7 DEF Past
  <2>2. oc_left' \in 0 .. TestMsgs + 3
    BY <1>3, <2>1, OccanConstants
  <2> QED
    BY <1>1, <1>2, <1>3, <1>6, <2>1, <2>2, FirstMoves
<1>8. CASE ~(sent < 0)
  <2>1. sent \in 0 .. oc_left
    BY <1>4, <1>8
  <2>2. Queued(msgs, sent) /\ oc_left' = oc_left - sent
    BY <1>2, <1>8, Zenon
  <2>3. oc_txq' \in Seq(Msgs) /\ Len(oc_txq') <= RX_LEN /\ Numbered(oc_txq')
    BY <1>1, <1>3, <1>4, <1>5, <2>1, <2>2, QueuedKeeps, Zenon
  <2>4. oc_left - sent \in 0 .. TestMsgs /\ oc_left - sent \in 0 .. TestMsgs + 3
        /\ (oc_left - sent # 0 => oc_left - sent \in 1 .. TestMsgs)
    BY <1>3, <2>1, OccanConstants
  <2>5. oc_pc' = [oc_pc EXCEPT ![1] = IF oc_left - sent = 0 THEN 6 ELSE 5]
    BY <1>1, <1>2, <1>8, <2>2 DEF Past
  <2>6. oc_round' \in 0 .. MaxRound
    BY <1>2, <1>3
  <2>7. CASE oc_left - sent = 0
    <3>1. oc_pc' = [oc_pc EXCEPT ![1] = 6]
      BY <2>5, <2>7
    <3> QED
      BY <1>1, <1>2, <2>2, <2>3, <2>4, <2>6, <3>1, FirstMoves
  <2>8. CASE oc_left - sent # 0
    <3>1. oc_pc' = [oc_pc EXCEPT ![1] = 5]
      BY <2>5, <2>8
    <3> QED
      BY <1>1, <1>2, <2>2, <2>3, <2>4, <2>6, <2>8, <3>1, FirstMoves
  <2> QED
    BY <2>7, <2>8
<1> QED
  BY <1>7, <1>8

LEMMA SendExtKeeps == OccanInv /\ SendExt => OccanInv'
<1> SUFFICES ASSUME OccanInv, SendExt PROVE OccanInv'
  OBVIOUS
<1> DEFINE answer == Wr(oc_left)
           sent   == Sent(oc_ch[1], answer)
           msgs   == [i \in 1 .. oc_left |-> [kind |-> "ext", n |-> 3 - oc_left + i - 1]]
<1>1. OccanShape /\ OccanCounts /\ OccanQueues /\ oc_pc \in [1 .. 2 -> 1 .. 14] /\ oc_pc[1] = 13
  BY AtCall DEF OccanInv, OccanShape, SendExt
<1>2. /\ answer.errno # "blocks"
      /\ IF sent < 0 THEN UNCHANGED <<oc_txq, oc_left, oc_pc>>
         ELSE /\ Queued(msgs, sent)
              /\ oc_left' = oc_left - sent
              /\ IF oc_left' = 0 THEN Past(1) ELSE UNCHANGED oc_pc
      /\ UNCHANGED <<oc_ch, oc_round, oc_tries, oc_rxq, oc_refused, oc_odd>>
  BY Zenon DEF SendExt
<1>3. oc_left \in 1 .. 3 /\ oc_left \in Nat /\ oc_round \in 0 .. MaxRound /\ oc_round < MaxRound
  BY <1>1 DEF OccanCounts
<1>4. sent \in -2 .. oc_left /\ (sent > 0 => sent <= RX_LEN - Len(oc_txq))
  BY <1>1, <1>2, <1>3, FirstWrites
<1>5. msgs \in Seq(Msgs) /\ Len(msgs) = oc_left /\ Numbered(msgs)
  BY <1>3, OtherMessages, Zenon
<1>6. oc_txq \in Seq(Msgs) /\ Len(oc_txq) <= RX_LEN /\ Numbered(oc_txq)
  BY <1>1 DEF OccanQueues
<1>9. \A k \in 0 .. 3 : k \in 0 .. TestMsgs + 3
  BY OccanConstants
<1> HIDE DEF answer, sent, msgs
<1>7. CASE sent < 0
  <2>1. oc_pc' = oc_pc /\ oc_txq' = oc_txq /\ oc_left' = oc_left
    BY <1>2, <1>7
  <2>2. oc_left' \in 0 .. TestMsgs + 3 /\ oc_pc' = [oc_pc EXCEPT ![1] = 13]
    BY <1>1, <1>3, <1>9, <2>1
  <2> QED
    BY <1>1, <1>2, <1>3, <1>6, <2>1, <2>2, FirstMoves
<1>8. CASE ~(sent < 0)
  <2>1. sent \in 0 .. oc_left
    BY <1>4, <1>8
  <2>2. Queued(msgs, sent) /\ oc_left' = oc_left - sent
    BY <1>2, <1>8, Zenon
  <2>3. oc_txq' \in Seq(Msgs) /\ Len(oc_txq') <= RX_LEN /\ Numbered(oc_txq')
    BY <1>1, <1>3, <1>4, <1>5, <2>1, <2>2, QueuedKeeps, Zenon
  <2>4. oc_left - sent \in 0 .. 3 /\ oc_left - sent \in 0 .. TestMsgs + 3
        /\ (oc_left - sent # 0 => oc_left - sent \in 1 .. 3)
    BY <1>3, <1>9, <2>1
  <2>5. oc_pc' = [oc_pc EXCEPT ![1] = IF oc_left - sent = 0 THEN 14 ELSE 13]
    BY <1>1, <1>2, <1>8, <2>2 DEF Past
  <2>6. oc_round' \in 0 .. MaxRound /\ oc_round' < MaxRound
    BY <1>2, <1>3
  <2>7. CASE oc_left - sent = 0
    <3>1. oc_pc' = [oc_pc EXCEPT ![1] = 14]
      BY <2>5, <2>7
    <3> QED
      BY <1>1, <1>2, <2>2, <2>3, <2>4, <2>6, <3>1, FirstMoves
  <2>8. CASE oc_left - sent # 0
    <3>1. oc_pc' = [oc_pc EXCEPT ![1] = 13]
      BY <2>5, <2>8
    <3> QED
      BY <1>1, <1>2, <2>2, <2>3, <2>4, <2>6, <2>8, <3>1, FirstMoves
  <2> QED
    BY <2>7, <2>8
<1> QED
  BY <1>7, <1>8

LEMMA SendStdKeeps == OccanInv /\ SendStd => OccanInv'
<1> SUFFICES ASSUME OccanInv, SendStd PROVE OccanInv'
  OBVIOUS
<1> DEFINE ms == <<[kind |-> "std", n |-> oc_round]>>
           n == IF Wr(1).ret > 0 THEN 1 ELSE 0
<1>1. OccanShape /\ OccanCounts /\ OccanQueues /\ oc_pc \in [1 .. 2 -> 1 .. 14] /\ oc_pc[1] = 12
  BY AtCall DEF OccanInv, OccanShape, SendStd
<1>2. /\ Wr(1).errno # "blocks" /\ Queued(ms, n) /\ oc_round < MaxRound
      /\ oc_left' = 3 /\ Past(1)
      /\ UNCHANGED <<oc_ch, oc_round, oc_tries, oc_rxq, oc_refused, oc_odd>>
  BY Zenon DEF SendStd
<1>3. oc_round \in 0 .. MaxRound /\ oc_round \in Nat
  BY <1>1, OccanConstants DEF OccanCounts
<1>4. Wr(1).ret \in -1 .. 1 /\ (Wr(1).ret > 0 => Wr(1).ret <= RX_LEN - Len(oc_txq))
  BY <1>1, <1>2, FirstWrites
<1>5. n \in 0 .. 1 /\ (n > 0 => n <= RX_LEN - Len(oc_txq))
  <2> HIDE DEF ms
  <2>1. CASE Wr(1).ret > 0
    <3>1. Wr(1).ret = 1
      BY <1>4, <2>1
    <3> QED
      BY <1>4, <2>1, <3>1
  <2>2. CASE ~(Wr(1).ret > 0)
    BY <2>2
  <2> QED
    BY <2>1, <2>2
<1>6. ms \in Seq(Msgs) /\ Len(ms) = 1 /\ Numbered(ms)
  <2>1. [kind |-> "std", n |-> oc_round] \in Msgs
    BY <1>3 DEF Msgs
  <2>2. ms \in Seq(Msgs) /\ Len(ms) = 1 /\ DOMAIN ms = 1 .. 1
    BY <2>1
  <2>3. \A i \in 1 .. 1 : ms[i].kind # "test"
    OBVIOUS
  <2> QED
    BY <2>2, <2>3, Zenon DEF Numbered
<1> HIDE DEF ms, n
<1>7. oc_txq' \in Seq(Msgs) /\ Len(oc_txq') <= RX_LEN /\ Numbered(oc_txq')
  <2>1. 1 \in Nat
    OBVIOUS
  <2> QED
    BY <1>1, <1>2, <1>5, <1>6, <2>1, QueuedKeeps, Zenon
<1>8. oc_pc' = [oc_pc EXCEPT ![1] = 13] /\ 3 \in 0 .. TestMsgs + 3 /\ 3 \in 1 .. 3
  BY <1>1, <1>2, OccanConstants DEF Past
<1> QED
  BY <1>1, <1>2, <1>3, <1>7, <1>8, FirstMoves

LEMMA RoundKeeps == OccanInv /\ Round => OccanInv'
<1> SUFFICES ASSUME OccanInv, Round PROVE OccanInv'
  OBVIOUS
<1> DEFINE c == oc_ch[1]
           started == Start(Stop(c).chan)
<1>1. OccanShape /\ OccanCounts /\ OccanQueues /\ oc_pc \in [1 .. 2 -> 1 .. 14] /\ oc_pc[1] = 14
      /\ oc_refused = FALSE
  BY AtCall DEF OccanInv, OccanShape, Round
<1>2. /\ oc_round' = oc_round + 1 /\ oc_pc' = [oc_pc EXCEPT ![1] = 12]
      /\ oc_left' = oc_left /\ oc_tries' = oc_tries /\ oc_rxq' = oc_rxq /\ oc_odd' = oc_odd
      /\ IF oc_round' = StopRound
           THEN /\ oc_ch' = [oc_ch EXCEPT ![1] = started.chan]
                /\ oc_refused' = (oc_refused \/ started.ret # 0)
                /\ oc_txq' = <<>>
           ELSE UNCHANGED <<oc_ch, oc_refused, oc_txq>>
  BY Zenon DEF Round
<1>3. c \in Chan /\ oc_ch \in [1 .. 2 -> Chan] /\ c.txlen = RX_LEN
  BY <1>1 DEF OccanShape
<1>4. started.ret = 0 /\ started.chan \in Chan /\ started.chan.txlen = RX_LEN
  <2> HIDE DEF c
  <2>1. Is(Stop(c).chan, FALSE, c.filter, c.txlen, c.rxlen)
    BY <1>3, AnytimeCalls, Zenon
  <2>2. Stop(c).chan \in Chan /\ ~Stop(c).chan.started /\ Stop(c).chan.txlen = RX_LEN
    BY <1>3, <2>1 DEF Is
  <2>3. SetUpTo(SetUp("start", Stop(c).chan), TRUE, Stop(c).chan.filter, Stop(c).chan.txlen, Stop(c).chan.rxlen)
    BY <2>2, StoppedCalls, Zenon
  <2>4. SetUp("start", Stop(c).chan) = started
    BY DEF SetUp
  <2> QED
    BY <2>2, <2>3, <2>4, Zenon DEF SetUpTo, Is
<1> HIDE DEF started, c
<1>5. /\ oc_pc' \in [1 .. 2 -> 1 .. 14] /\ oc_pc'[1] = 12 /\ oc_pc'[2] = oc_pc[2]
      /\ oc_round < MaxRound /\ oc_round \in 0 .. MaxRound
  BY <1>1, <1>2 DEF OccanCounts
<1>6. oc_refused' = FALSE
  BY <1>1, <1>2, <1>4, Zenon
<1>7. oc_ch' \in [1 .. 2 -> Chan] /\ oc_ch'[1].txlen = RX_LEN /\ oc_ch'[2] = oc_ch[2]
  <2>1. CASE oc_round' = StopRound
    BY <1>2, <1>3, <1>4, <2>1
  <2>2. CASE oc_round' # StopRound
    BY <1>2, <1>3, <2>2 DEF c
  <2> QED
    BY <2>1, <2>2
<1>8. oc_txq' = <<>> \/ oc_txq' = oc_txq
  BY <1>2, Zenon
<1>9. OccanShape'
  BY <1>1, <1>2, <1>5, <1>7 DEF OccanShape
<1>10. OccanCounts'
  <2>1. oc_round + 1 \in 0 .. MaxRound
    BY <1>5, OccanConstants
  <2> QED
    BY <1>1, <1>2, <1>5, <2>1 DEF OccanCounts
<1>11. OccanQueues'
  <2>1. 0 <= RX_LEN
    BY OccanConstants
  <2>2. oc_txq' \in Seq(Msgs) /\ Len(oc_txq') <= RX_LEN /\ Numbered(oc_txq')
    BY <1>1, <1>8, <2>1, NoMessages, Zenon DEF OccanQueues
  <2>3. oc_rxq' \in Seq(Msgs) /\ Len(oc_rxq') <= TX_LEN /\ (oc_pc'[2] = 6 => Even(oc_rxq'))
    BY <1>1, <1>2, <1>5, Zenon DEF OccanQueues
  <2> QED
    BY <2>2, <2>3, Zenon DEF OccanQueues, Numbered, Even
<1> QED
  BY <1>2, <1>6, <1>9, <1>10, <1>11 DEF OccanInv

LEMMA RestIn ==
  ASSUME NEW q \in Seq(Msgs), NEW n \in 0 .. Len(q)
  PROVE  /\ SubSeq(q, n + 1, Len(q)) \in Seq(Msgs) /\ Len(SubSeq(q, n + 1, Len(q))) = Len(q) - n
         /\ Even(q) => Even(SubSeq(q, n + 1, Len(q)))
<1> DEFINE s == SubSeq(q, n + 1, Len(q))
<1>1. s \in Seq(Msgs) /\ Len(s) = Len(q) - n /\ \A i \in 1 .. Len(q) - n : s[i] = q[n + i]
  OBVIOUS
<1> HIDE DEF s
<1>2. ASSUME Even(q) PROVE Even(s)
  <2>1. \A i \in DOMAIN s : s[i] = q[n + i] /\ n + i \in DOMAIN q
    BY <1>1
  <2> QED
    BY <1>2, <2>1, Zenon DEF Even
<1> QED
  BY <1>1, <1>2 DEF s

LEMMA RecvTestKeeps == OccanInv /\ RecvTest => OccanInv'
<1> SUFFICES ASSUME OccanInv, RecvTest PROVE OccanInv'
  OBVIOUS
<1> DEFINE got == Got(oc_ch[2], Read(oc_ch[2], TestMsgs, Len(oc_rxq)))
           n   == IF got > 0 THEN got ELSE 0
           odd == \E i \in 1 .. n : oc_rxq[i].kind = "test" /\ oc_rxq[i].n % 2 = 1
<1>1. OccanShape /\ OccanCounts /\ OccanQueues /\ oc_pc \in [1 .. 2 -> 1 .. 14] /\ oc_pc[2] = 6
      /\ oc_odd = FALSE
  BY AtCall DEF OccanInv, OccanShape, RecvTest
<1>2. /\ oc_rxq' = SubSeq(oc_rxq, n + 1, Len(oc_rxq))
      /\ oc_odd' = (oc_odd \/ odd)
      /\ oc_tries' = oc_tries + 1
      /\ IF oc_tries' = 5 THEN Past(2) ELSE UNCHANGED oc_pc
      /\ UNCHANGED <<oc_ch, oc_left, oc_round, oc_txq, oc_refused>>
  BY Zenon DEF RecvTest
<1>3. oc_rxq \in Seq(Msgs) /\ Len(oc_rxq) \in Nat /\ Len(oc_rxq) <= TX_LEN /\ Even(oc_rxq)
  BY <1>1 DEF OccanQueues
<1>4. got \in Int /\ (got > 0 => got <= Len(oc_rxq))
  <2>1. oc_ch[2] \in Chan /\ TestMsgs \in Nat
    BY <1>1, OccanConstants DEF OccanShape
  <2> QED
    BY <1>3, <2>1, ReadAnswers, Zenon
<1>5. n \in 0 .. Len(oc_rxq)
  <2> HIDE DEF got
  <2> QED
    BY <1>3, <1>4
<1>6. ~odd
  <2> HIDE DEF n
  <2>1. \A i \in 1 .. n : i \in DOMAIN oc_rxq
    BY <1>3, <1>5
  <2> QED
    BY <1>3, <2>1, Zenon DEF Even
<1> HIDE DEF got, n, odd
<1>7. oc_rxq' \in Seq(Msgs) /\ Len(oc_rxq') <= TX_LEN /\ Even(oc_rxq')
  <2>1. oc_rxq' \in Seq(Msgs) /\ Len(oc_rxq') = Len(oc_rxq) - n /\ Even(oc_rxq')
    BY <1>2, <1>3, <1>5, RestIn, Zenon
  <2>2. Len(oc_rxq) - n <= TX_LEN
    BY <1>3, <1>5, OccanConstants
  <2> QED
    BY <2>1, <2>2
<1>8. oc_odd' = FALSE
  BY <1>1, <1>2, <1>6, Zenon
<1>9. oc_tries \in 0 .. 4
  BY <1>1 DEF OccanCounts
<1>10. oc_pc' \in [1 .. 2 -> 1 .. 14] /\ oc_pc'[1] = oc_pc[1] /\ oc_pc'[2] \in {6, 7}
       /\ (oc_pc'[2] = 6 => oc_tries' < 5)
  <2>1. CASE oc_tries' = 5
    <3>1. oc_pc' = [oc_pc EXCEPT ![2] = oc_pc[2] + 1]
      BY <1>2, <2>1 DEF Past
    <3> QED
      BY <1>1, <3>1
  <2>2. CASE oc_tries' # 5
    BY <1>1, <1>2, <1>9, <2>2
  <2> QED
    BY <2>1, <2>2
<1>11. OccanShape'
  BY <1>1, <1>2, <1>10 DEF OccanShape
<1>12. OccanCounts'
  BY <1>1, <1>2, <1>9, <1>10 DEF OccanCounts
<1>13. OccanQueues'
  BY <1>1, <1>2, <1>7, Zenon DEF OccanQueues, Numbered, Even
<1> QED
  BY <1>2, <1>8, <1>11, <1>12, <1>13 DEF OccanInv

LEMMA RecvKeeps == OccanInv /\ Recv => OccanInv'
<1> SUFFICES ASSUME OccanInv, Recv PROVE OccanInv'
  OBVIOUS
<1> DEFINE answer == Read(oc_ch[2], 3, Len(oc_rxq))
           n == IF answer.ret > 0 THEN answer.ret ELSE 0
<1>1. OccanShape /\ OccanCounts /\ OccanQueues /\ oc_pc \in [1 .. 2 -> 1 .. 14] /\ oc_pc[2] = 14
  BY AtCall DEF OccanInv, OccanShape, Recv
<1>2. /\ oc_rxq' = SubSeq(oc_rxq, n + 1, Len(oc_rxq))
      /\ UNCHANGED <<oc_ch, oc_pc, oc_left, oc_round, oc_tries, oc_txq, oc_refused, oc_odd>>
  BY Zenon DEF Recv
<1>3. oc_rxq \in Seq(Msgs) /\ Len(oc_rxq) \in Nat /\ Len(oc_rxq) <= TX_LEN
  BY <1>1 DEF OccanQueues
<1>4. answer.ret \in Int /\ (answer.ret > 0 => answer.ret <= Len(oc_rxq))
  BY <1>1, <1>3, ReadAnswers DEF OccanShape
<1>5. n \in 0 .. Len(oc_rxq)
  <2> HIDE DEF answer
  <2> QED
    BY <1>3, <1>4
<1> HIDE DEF answer, n
<1>6. oc_rxq' \in Seq(Msgs) /\ Len(oc_rxq') <= TX_LEN
  <2>1. oc_rxq' \in Seq(Msgs) /\ Len(oc_rxq') = Len(oc_rxq) - n
    BY <1>2, <1>3, <1>5, RestIn, Zenon
  <2>2. Len(oc_rxq) - n <= TX_LEN
    BY <1>3, <1>5, OccanConstants
  <2> QED
    BY <2>1, <2>2
<1>7. OccanShape'
  BY <1>1, <1>2 DEF OccanShape
<1>8. OccanCounts'
  BY <1>1, <1>2 DEF OccanCounts
<1>9. OccanQueues'
  <2>1. oc_pc'[2] # 6
    BY <1>1, <1>2
  <2> QED
    BY <1>1, <1>2, <1>6, <2>1, Zenon DEF OccanQueues, Numbered
<1> QED
  BY <1>2, <1>7, <1>8, <1>9 DEF OccanInv

LEMMA OccanTransferKeeps == OccanInv /\ Transfer => OccanInv'
<1> SUFFICES ASSUME OccanInv, Transfer PROVE OccanInv'
  OBVIOUS
<1>1. OccanShape /\ OccanCounts /\ OccanQueues
  BY DEF OccanInv
<1>2. /\ oc_txq # <<>> /\ oc_ch[2].started /\ oc_txq' = Tail(oc_txq)
      /\ UNCHANGED <<oc_ch, oc_pc, oc_left, oc_round, oc_tries, oc_refused, oc_odd>>
  BY DEF Transfer
<1>3. PICK accepted \in Accepted(Head(oc_txq)) :
        oc_rxq' = IF accepted /\ Len(oc_rxq) < oc_ch[2].rxlen
                   THEN Append(oc_rxq, Head(oc_txq)) ELSE oc_rxq
  BY DEF Transfer
<1> DEFINE m == Head(oc_txq)
<1>4. /\ oc_txq \in Seq(Msgs) /\ Len(oc_txq) <= RX_LEN /\ Numbered(oc_txq)
      /\ oc_rxq \in Seq(Msgs) /\ Len(oc_rxq) <= TX_LEN /\ (oc_pc[2] = 6 => Even(oc_rxq))
  BY <1>1 DEF OccanQueues
<1>5. 1 \in DOMAIN oc_txq /\ oc_txq[1] = m /\ m \in Msgs
  BY <1>2, <1>4
<1>6. oc_txq' \in Seq(Msgs) /\ Len(oc_txq') = Len(oc_txq) - 1
      /\ \A i \in 1 .. Len(oc_txq) - 1 : oc_txq'[i] = oc_txq[i + 1]
  BY <1>2, <1>4
<1>7. Len(oc_txq') <= RX_LEN
  BY <1>4, <1>6, OccanConstants
<1>8. Numbered(oc_txq')
  <2>1. \A i \in DOMAIN oc_txq' : oc_txq'[i] = oc_txq[i + 1] /\ i + 1 \in DOMAIN oc_txq
    BY <1>4, <1>6
  <2> QED
    BY <1>4, <2>1, Zenon DEF Numbered
<1>9. oc_pc[2] >= 6 /\ oc_ch[2].rxlen = TX_LEN /\ (oc_pc[2] = 6 => oc_ch[2].filter = "even")
  BY <1>1, <1>2 DEF OccanShape
<1>10. Append(oc_rxq, m) \in Seq(Msgs) /\ Len(Append(oc_rxq, m)) = Len(oc_rxq) + 1
       /\ (Len(oc_rxq) < TX_LEN => Len(Append(oc_rxq, m)) <= TX_LEN)
  BY <1>4, <1>5, OccanConstants
<1>11. ASSUME oc_pc[2] = 6, accepted PROVE Even(Append(oc_rxq, m))
  <2>1. ASSUME m.kind = "test" PROVE m.n % 2 # 1
    <3>1. accepted = Passes({m.n})
      BY <1>3, <1>9, <1>11, <2>1 DEF Accepted
    <3>2. m.n \in Nat /\ m.n < TestMsgs
      BY <1>4, <1>5, <2>1 DEF Msgs, Numbered
    <3>3. m.n \in 0 .. 28
      BY <3>2, OccanConstants
    <3> QED
      BY <1>11, <3>1, <3>3, OddFails
  <2>2. \A i \in DOMAIN Append(oc_rxq, m) :
          (i \in DOMAIN oc_rxq /\ Append(oc_rxq, m)[i] = oc_rxq[i]) \/ Append(oc_rxq, m)[i] = m
    BY <1>4, <1>5
  <2> QED
    BY <1>4, <1>11, <2>1, <2>2, Zenon DEF Even
<1> HIDE DEF m
<1>12. oc_rxq' \in Seq(Msgs) /\ Len(oc_rxq') <= TX_LEN /\ (oc_pc[2] = 6 => Even(oc_rxq'))
  <2>1. CASE accepted /\ Len(oc_rxq) < oc_ch[2].rxlen
    <3>1. oc_rxq' = Append(oc_rxq, m)
      BY <1>3, <2>1 DEF m
    <3>2. Len(oc_rxq) < TX_LEN
      BY <1>9, <2>1, Zenon
    <3> QED
      BY <1>10, <1>11, <2>1, <3>1, <3>2, Zenon
  <2>2. CASE ~(accepted /\ Len(oc_rxq) < oc_ch[2].rxlen)
    <3>1. oc_rxq' = oc_rxq
      BY <1>3, <2>2
    <3> QED
      BY <1>4, <3>1, Zenon
  <2> QED
    BY <2>1, <2>2
<1>13. OccanShape'
  <2>1. oc_pc[1] <= 3 => FALSE
    BY <1>1, <1>2 DEF OccanShape
  <2>2. ~(oc_pc[2] <= 5) /\ ~(oc_pc[2] <= 3)
    BY <1>1, <1>9 DEF OccanShape
  <2> QED
    BY <1>1, <1>2, <2>1, <2>2, Zenon DEF OccanShape
<1>14. OccanCounts'
  BY <1>1, <1>2 DEF OccanCounts
<1>15. OccanQueues'
  BY <1>2, <1>6, <1>7, <1>8, <1>12, Zenon DEF OccanQueues, Numbered, Even
<1> QED
  BY <1>2, <1>13, <1>14, <1>15 DEF OccanInv

LEMMA BusOffKeeps == OccanInv /\ BusOff => OccanInv'
<1> SUFFICES ASSUME OccanInv, BusOff PROVE OccanInv'
  OBVIOUS
<1>1. OccanShape /\ OccanCounts /\ OccanQueues
  BY DEF OccanInv
<1>2. PICK t \in 1 .. 2 :
        /\ oc_ch[t].started
        /\ oc_ch' = [oc_ch EXCEPT ![t].started = FALSE, ![t].busoff = TRUE]
  BY DEF BusOff
<1>3. UNCHANGED <<oc_pc, oc_left, oc_round, oc_tries, oc_txq, oc_rxq, oc_refused, oc_odd>>
  BY DEF BusOff
<1> DEFINE d == [oc_ch[t] EXCEPT !.started = FALSE, !.busoff = TRUE]
<1>4. oc_ch \in [1 .. 2 -> Chan] /\ oc_ch[t] \in Chan
  BY <1>1 DEF OccanShape
<1>5. Is(d, FALSE, oc_ch[t].filter, oc_ch[t].txlen, oc_ch[t].rxlen)
  <2>1. TRUE \in BOOLEAN /\ FALSE \in BOOLEAN
    OBVIOUS
  <2> QED
    BY <1>4, <2>1, Restarts, Zenon
<1>6. oc_ch' = [oc_ch EXCEPT ![t] = d]
  BY <1>2, <1>4
<1> HIDE DEF d
<1>7. /\ oc_ch' \in [1 .. 2 -> Chan]
      /\ \A u \in 1 .. 2 : /\ ~oc_ch[u].started => ~oc_ch'[u].started
                           /\ oc_ch'[u].txlen = oc_ch[u].txlen /\ oc_ch'[u].rxlen = oc_ch[u].rxlen
                           /\ oc_ch'[u].filter = oc_ch[u].filter
  BY <1>4, <1>5, <1>6 DEF Is
<1>8. 1 \in 1 .. 2 /\ 2 \in 1 .. 2
  OBVIOUS
<1>9. OccanShape'
  BY <1>1, <1>3, <1>7, <1>8 DEF OccanShape
<1>10. OccanCounts'
  BY <1>1, <1>3 DEF OccanCounts
<1>11. OccanQueues'
  BY <1>1, <1>3, Zenon DEF OccanQueues, Numbered, Even
<1> QED
  BY <1>3, <1>9, <1>10, <1>11 DEF OccanInv

LEMMA OccanStill == OccanInv /\ UNCHANGED occan_vars => OccanInv'
<1> SUFFICES ASSUME OccanInv, UNCHANGED occan_vars PROVE OccanInv'
  OBVIOUS
<1>1. OccanShape'
  BY DEF OccanInv, OccanShape, occan_vars
<1>2. OccanCounts'
  BY DEF OccanInv, OccanCounts, occan_vars
<1>3. OccanQueues'
  BY DEF OccanInv, OccanQueues, Numbered, Even, occan_vars
<1> QED
  BY <1>1, <1>2, <1>3 DEF OccanInv, occan_vars

LEMMA OccanStepKeeps == OccanInv /\ [OccanNext]_occan_vars => OccanInv'
<1> SUFFICES ASSUME OccanInv, [OccanNext]_occan_vars PROVE OccanInv'
  OBVIOUS
<1>1. CASE Task1
  BY <1>1, SetUpFirstKeeps, SendTestKeeps, SendStdKeeps, SendExtKeeps, RoundKeeps, Zenon DEF Task1
<1>2. CASE Task2
  BY <1>2, SetUpSecondKeeps, RecvTestKeeps, RecvKeeps, Zenon DEF Task2
<1>3. CASE Transfer
  BY <1>3, OccanTransferKeeps, Zenon
<1> QED
  BY <1>1, <1>2, <1>3, BusOffKeeps, OccanStill, Zenon DEF OccanNext

(* The types of the OCCAN sample (rtems-occan.c) and the lengths of its    *)
(* queues hold for every length of a buffer and every number of messages   *)
(* an identifier has a bit for.                                            *)
THEOREM OccanTyping == OccanSpec => []OccanTypeOK
<1>1. OccanInit => OccanInv
  BY OccanInvInit
<1>2. OccanInv /\ [OccanNext]_occan_vars => OccanInv'
  BY OccanStepKeeps
<1>3. OccanInv => OccanTypeOK
  BY OccanTyped
<1> QED
  BY <1>1, <1>2, <1>3, PTL DEF OccanSpec

(* No set-up call of the two tasks is refused and the filter test reads no *)
(* odd message, whatever the other task and the bus do in between.         *)
THEOREM OccanSetUpInTime == OccanSpec => []OccanSetUp
<1>1. OccanInit => OccanInv
  BY OccanInvInit
<1>2. OccanInv /\ [OccanNext]_occan_vars => OccanInv'
  BY OccanStepKeeps
<1>3. OccanInv => OccanSetUp
  BY OccanTyped
<1> QED
  BY <1>1, <1>2, <1>3, PTL DEF OccanSpec

-----------------------------------------------------------------------------
(* The GRCAN demos: whatever is lost, the receiver finds its place again.  *)

(* The loop over the messages of a read is what it looks like: a run of    *)
(* states of the receiver, each from the one before and the next message.  *)
RunOf(after, rx, msgs, n) ==
  after = [k \in 0 .. n |-> IF k = 0 THEN rx ELSE Verified(after[k - 1], msgs[k])]

LEMMA VerifiedInTurn ==
  \A rx, msgs : \A N \in Nat : Len(msgs) = N =>
         \E after : /\ after[0] = rx /\ VerifiedAll(rx, msgs) = after[N]
                    /\ \A n \in 1 .. N : after[n] = Verified(after[n - 1], msgs[n])
<1> SUFFICES ASSUME NEW rx, NEW msgs, NEW N \in Nat, Len(msgs) = N
             PROVE  \E after : /\ after[0] = rx /\ VerifiedAll(rx, msgs) = after[N]
                              /\ \A n \in 1 .. N : after[n] = Verified(after[n - 1], msgs[n])
  OBVIOUS
<1> DEFINE S == {n \in Nat : \E after : RunOf(after, rx, msgs, n)}
<1>1. 0 \in S
  <2>1. [k \in 0 .. 0 |-> rx] = [k \in 0 .. 0 |-> IF k = 0 THEN rx ELSE Verified([i \in 0 .. 0 |-> rx][k - 1], msgs[k])]
    OBVIOUS
  <2>2. RunOf([k \in 0 .. 0 |-> rx], rx, msgs, 0)
    BY <2>1, Zenon DEF RunOf
  <2> QED
    BY <2>2
<1>2. ASSUME NEW n \in S PROVE n + 1 \in S
  <2>1. n \in Nat /\ n + 1 \in Nat
    OBVIOUS
  <2>2. PICK f : RunOf(f, rx, msgs, n)
    OBVIOUS
  <2> DEFINE g == [k \in 0 .. n + 1 |-> IF k = n + 1 THEN Verified(f[n], msgs[n + 1]) ELSE f[k]]
  <2>3. ASSUME NEW k \in 0 .. n + 1
        PROVE  g[k] = IF k = 0 THEN rx ELSE Verified(g[k - 1], msgs[k])
    <3>1. CASE k = n + 1
      <4>1. n \in 0 .. n + 1 /\ n # n + 1 /\ k # 0 /\ k - 1 = n
        BY <2>1, <3>1
      <4> QED
        BY <3>1, <4>1
    <3>2. CASE k # n + 1
      <4>1. k \in 0 .. n /\ (k # 0 => k - 1 \in 0 .. n + 1 /\ k - 1 # n + 1)
        BY <2>1, <3>2
      <4>2. f[k] = IF k = 0 THEN rx ELSE Verified(f[k - 1], msgs[k])
        BY <2>2, <4>1, Zenon DEF RunOf
      <4> QED
        BY <3>2, <4>1, <4>2, Zenon
    <3> QED
      BY <3>1, <3>2
  <2>4. RunOf(g, rx, msgs, n + 1)
    <3> HIDE DEF g
    <3>1. g = [k \in 0 .. n + 1 |-> g[k]]
      BY Zenon DEF g
    <3> QED
      BY <2>3, <3>1, Zenon DEF RunOf
  <2> QED
    BY <2>1, <2>4
<1>3. N \in S
  <2> HIDE DEF S
  <2>1. S \in SUBSET Nat
    BY DEF S
  <2> QED
    BY <1>1, <1>2, <2>1, Induction
<1> DEFINE after == CHOOSE f : RunOf(f, rx, msgs, N)
<1>4. RunOf(after, rx, msgs, N)
  BY <1>3
<1>5. VerifiedAll(rx, msgs) = after[N]
  BY Zenon DEF VerifiedAll, RunOf
<1> HIDE DEF after
<1>6. after[0] = rx /\ \A n \in 1 .. N : after[n] = Verified(after[n - 1], msgs[n])
  <2>1. 0 \in 0 .. N /\ \A n \in 1 .. N : n \in 0 .. N /\ n # 0
    OBVIOUS
  <2>2. after = [k \in 0 .. N |-> IF k = 0 THEN rx ELSE Verified(after[k - 1], msgs[k])]
    BY <1>4 DEF RunOf
  <2> QED
    BY <2>1, <2>2, Zenon
<1> QED
  BY <1>5, <1>6

-----------------------------------------------------------------------------
(* The GRCAN demos.  What the receiver expects after the first n messages  *)
(* of its queue, and how many were lost before that: d[n] at least, for    *)
(* each message that is not the expected one tells of a loss before it.    *)
RxStates == [index : 0 .. 3, syncs : Nat, errors : {0}]

Expected(rx, q, n) == IF n = 0 THEN rx.index ELSE (q[n] + 1) % 4
GrSkipped(msg, expected) == IF msg = expected THEN 0 ELSE 1

Accounts(d, rx, q, bus, drops) ==
  /\ rx.syncs <= d[0]
  /\ \A n \in 1 .. Len(q) : d[n - 1] + GrSkipped(q[n], Expected(rx, q, n - 1)) <= d[n]
  /\ d[Len(q)] + GrSkipped(bus, Expected(rx, q, Len(q))) <= drops

Accounted(rx, q, bus, drops) == \E d \in [0 .. Len(q) -> 0 .. drops] : Accounts(d, rx, q, bus, drops)

LEMMA VerifiedOne ==
  ASSUME NEW rx \in RxStates, NEW msg \in 0 .. 3, gr_inited
  PROVE  /\ Verified(rx, msg) \in RxStates
         /\ Verified(rx, msg).index = (msg + 1) % 4
         /\ Verified(rx, msg).syncs = rx.syncs + GrSkipped(msg, rx.index)
<1>1. rx.index \in 0 .. 3 /\ rx.syncs \in Nat /\ rx.errors = 0
  BY DEF RxStates
<1>2. \A j \in 0 .. 3 : Slot(j) = j
  BY DEF Slot
<1> DEFINE same == {j \in 0 .. 3 : msg = Slot(j)}
<1>3. same = {msg}
  BY <1>2
<1>4. First(same) = msg
  <2>1. \A k \in same : msg <= k
    BY <1>3
  <2>2. \E j \in same : \A k \in same : j <= k
    BY <1>3, <2>1
  <2>3. First(same) \in same
    BY <2>2, Zenon DEF First
  <2> QED
    BY <1>3, <2>3
<1> DEFINE i == (msg + 1) % 4
<1>5. i \in 0 .. 3
  OBVIOUS
<1>6. CASE msg = rx.index
  <2>1. Verified(rx, msg) = [rx EXCEPT !.index = i]
    BY <1>1, <1>2, <1>6 DEF Verified
  <2> HIDE DEF i
  <2>2. [rx EXCEPT !.index = i] \in RxStates
        /\ [rx EXCEPT !.index = i].index = i /\ [rx EXCEPT !.index = i].syncs = rx.syncs
    BY <1>5 DEF RxStates
  <2> QED
    BY <1>1, <1>6, <2>1, <2>2 DEF GrSkipped, i
<1>7. CASE msg # rx.index
  <2> DEFINE s == rx.syncs + 1
  <2>1. Verified(rx, msg) = [rx EXCEPT !.index = i, !.syncs = s]
    BY <1>1, <1>2, <1>3, <1>4, <1>7, Zenon DEF Verified
  <2>2. s \in Nat
    BY <1>1
  <2> HIDE DEF i, s
  <2>3. [rx EXCEPT !.index = i, !.syncs = s] \in RxStates
        /\ [rx EXCEPT !.index = i, !.syncs = s].index = i
        /\ [rx EXCEPT !.index = i, !.syncs = s].syncs = s
    BY <1>5, <2>2 DEF RxStates
  <2> QED
    BY <1>7, <2>1, <2>3 DEF GrSkipped, i, s
<1> QED
  BY <1>6, <1>7

(* A read, of any number of messages.                                      *)
LEMMA ReadAccounted ==
  ASSUME NEW rx \in RxStates, NEW q \in Seq(0 .. 3), NEW bus \in 0 .. 3, NEW drops \in Nat,
         NEW cnt \in 0 .. Len(q), gr_inited, Accounted(rx, q, bus, drops)
  PROVE  /\ VerifiedAll(rx, SubSeq(q, 1, cnt)) \in RxStates
         /\ SubSeq(q, cnt + 1, Len(q)) \in Seq(0 .. 3)
         /\ Accounted(VerifiedAll(rx, SubSeq(q, 1, cnt)), SubSeq(q, cnt + 1, Len(q)), bus, drops)
<1> DEFINE L == Len(q)
           msgs == SubSeq(q, 1, cnt)
           rest == SubSeq(q, cnt + 1, L)
<1>1. L \in Nat /\ cnt \in Nat /\ cnt <= L /\ \A n \in 1 .. L : q[n] \in 0 .. 3
  <2>1. L \in Nat
    OBVIOUS
  <2> QED
    BY <2>1
<1>2. Len(msgs) = cnt /\ \A n \in 1 .. cnt : msgs[n] = q[n]
  BY <1>1
<1>3. rest \in Seq(0 .. 3) /\ Len(rest) = L - cnt /\ \A n \in 1 .. L - cnt : rest[n] = q[cnt + n]
  BY <1>1
<1> HIDE DEF msgs
<1>4. PICK after : /\ after[0] = rx /\ VerifiedAll(rx, msgs) = after[cnt]
                   /\ \A n \in 1 .. cnt : after[n] = Verified(after[n - 1], msgs[n])
  <2>1. cnt \in Nat /\ Len(msgs) = cnt
    BY <1>1, <1>2, Zenon
  <2> QED
    BY <2>1, VerifiedInTurn
<1>5. PICK d \in [0 .. L -> 0 .. drops] : Accounts(d, rx, q, bus, drops)
  BY DEF Accounted
<1> DEFINE Good(n) == after[n] \in RxStates /\ after[n].index = Expected(rx, q, n) /\ after[n].syncs <= d[n]
           S == {n \in Nat : n <= cnt => Good(n)}
<1>6. 0 \in S
  BY <1>4, <1>5 DEF Expected, Accounts
<1>7. ASSUME NEW n \in S PROVE n + 1 \in S
  <2> SUFFICES ASSUME n + 1 <= cnt PROVE Good(n + 1)
    OBVIOUS
  <2>1. n \in Nat /\ n <= cnt /\ n + 1 \in 1 .. cnt /\ n + 1 \in 1 .. L /\ n + 1 - 1 = n /\ n + 1 # 0
        /\ n \in 0 .. L /\ n + 1 \in 0 .. L
    BY <1>1
  <2>2. Good(n)
    BY <2>1
  <2>3. after[n + 1] = Verified(after[n], q[n + 1]) /\ q[n + 1] \in 0 .. 3
    <3>1. after[n + 1] = Verified(after[n + 1 - 1], msgs[n + 1]) /\ msgs[n + 1] = q[n + 1]
      BY <1>2, <1>4, <2>1
    <3> QED
      BY <1>1, <2>1, <3>1, Zenon
  <2>4. /\ after[n + 1] \in RxStates /\ after[n + 1].index = (q[n + 1] + 1) % 4
        /\ after[n + 1].syncs = after[n].syncs + GrSkipped(q[n + 1], Expected(rx, q, n))
    <3>1. after[n] \in RxStates /\ after[n].index = Expected(rx, q, n)
      BY <2>2
    <3>2. /\ Verified(after[n], q[n + 1]) \in RxStates
          /\ Verified(after[n], q[n + 1]).index = (q[n + 1] + 1) % 4
          /\ Verified(after[n], q[n + 1]).syncs = after[n].syncs + GrSkipped(q[n + 1], after[n].index)
      BY <2>3, <3>1, VerifiedOne, Zenon
    <3> QED
      BY <2>3, <3>1, <3>2, Zenon
  <2>5. d[n] + GrSkipped(q[n + 1], Expected(rx, q, n)) <= d[n + 1]
    <3>1. \A k \in 1 .. L : d[k - 1] + GrSkipped(q[k], Expected(rx, q, k - 1)) <= d[k]
      BY <1>5, Zenon DEF Accounts
    <3>2. d[n + 1 - 1] + GrSkipped(q[n + 1], Expected(rx, q, n + 1 - 1)) <= d[n + 1]
      BY <2>1, <3>1
    <3> QED
      BY <2>1, <3>2, Zenon
  <2>6. d[n] \in Nat /\ d[n + 1] \in Nat /\ GrSkipped(q[n + 1], Expected(rx, q, n)) \in Nat /\ after[n].syncs \in Nat
    BY <2>1, <2>2 DEF GrSkipped, RxStates
  <2>7. after[n + 1].syncs <= d[n + 1]
    BY <2>2, <2>4, <2>5, <2>6
  <2> QED
    BY <2>1, <2>4, <2>7 DEF Expected
<1>8. Good(cnt)
  <2> HIDE DEF S, Good
  <2>1. S \in SUBSET Nat
    BY DEF S
  <2>2. cnt \in S
    BY <1>1, <1>6, <1>7, <2>1, Induction
  <2>3. cnt <= cnt
    BY <1>1
  <2> QED
    BY <2>2, <2>3 DEF S
<1> DEFINE r == after[cnt]
           e == [n \in 0 .. L - cnt |-> d[cnt + n]]
<1>9. e \in [0 .. L - cnt -> 0 .. drops]
  BY <1>1
<1>10. Expected(r, rest, 0) = Expected(rx, q, cnt)
  BY <1>8 DEF Expected
<1>11. \A n \in 1 .. L - cnt : Expected(r, rest, n) = Expected(rx, q, cnt + n)
  BY <1>1, <1>3 DEF Expected
<1>12. \A n \in 0 .. L - cnt : Expected(r, rest, n) = Expected(rx, q, cnt + n)
  BY <1>1, <1>10, <1>11
<1> HIDE DEF r, rest
<1>13. ASSUME NEW n \in 1 .. L - cnt
       PROVE  e[n - 1] + GrSkipped(rest[n], Expected(r, rest, n - 1)) <= e[n]
  <2>1. /\ cnt + n \in 1 .. L /\ cnt + n - 1 = cnt + (n - 1) /\ n - 1 \in 0 .. L - cnt
        /\ n \in 0 .. L - cnt
    BY <1>1
  <2>2. d[cnt + n - 1] + GrSkipped(q[cnt + n], Expected(rx, q, cnt + n - 1)) <= d[cnt + n]
    <3>1. \A k \in 1 .. L : d[k - 1] + GrSkipped(q[k], Expected(rx, q, k - 1)) <= d[k]
      BY <1>5, Zenon DEF Accounts
    <3> QED
      BY <2>1, <3>1
  <2>3. e[n] = d[cnt + n] /\ e[n - 1] = d[cnt + (n - 1)]
    BY <2>1
  <2>4. rest[n] = q[cnt + n] /\ Expected(r, rest, n - 1) = Expected(rx, q, cnt + (n - 1))
    BY <1>3, <1>12, <2>1, Zenon DEF rest
  <2> HIDE DEF e
  <2> QED
    BY <2>1, <2>2, <2>3, <2>4, Zenon
<1>14. e[0] = d[cnt] /\ e[L - cnt] = d[L] /\ Expected(r, rest, L - cnt) = Expected(rx, q, L)
  <2>1. cnt + 0 = cnt /\ cnt + (L - cnt) = L /\ 0 \in 0 .. L - cnt /\ L - cnt \in 0 .. L - cnt
    BY <1>1
  <2> QED
    BY <1>12, <2>1, Zenon
<1>15. Accounts(e, r, rest, bus, drops)
  <2> HIDE DEF e
  <2>1. d[L] + GrSkipped(bus, Expected(rx, q, L)) <= drops
    BY <1>5, Zenon DEF Accounts
  <2>2. r.syncs <= e[0]
    BY <1>8, <1>14, Zenon DEF r
  <2>3. Len(rest) = L - cnt
    BY <1>3 DEF rest
  <2> QED
    BY <1>13, <1>14, <2>1, <2>2, <2>3, Zenon DEF Accounts
<1>16. Accounted(r, rest, bus, drops)
  <2> HIDE DEF e
  <2>1. Len(rest) = L - cnt
    BY <1>3 DEF rest
  <2> QED
    BY <1>9, <1>15, <2>1, Zenon DEF Accounted
<1> QED
  BY <1>3, <1>4, <1>8, <1>16, Zenon DEF r, rest, msgs

(* A message that gets through, and one that is lost.                      *)
LEMMA ThroughAccounted ==
  ASSUME NEW rx \in RxStates, NEW q \in Seq(0 .. 3), NEW bus \in 0 .. 3, NEW drops \in Nat,
         Accounted(rx, q, bus, drops)
  PROVE  /\ Append(q, bus) \in Seq(0 .. 3) /\ Accounted(rx, Append(q, bus), (bus + 1) % 4, drops)
<1> DEFINE L == Len(q)
           qq == Append(q, bus)
<1>1. L \in Nat /\ qq \in Seq(0 .. 3) /\ Len(qq) = L + 1 /\ qq[L + 1] = bus /\ \A n \in 1 .. L : qq[n] = q[n]
  <2>1. L \in Nat
    OBVIOUS
  <2> QED
    BY <2>1
<1>2. PICK d \in [0 .. L -> 0 .. drops] : Accounts(d, rx, q, bus, drops)
  BY DEF Accounted
<1> DEFINE e == [n \in 0 .. L + 1 |-> IF n = L + 1 THEN drops ELSE d[n]]
<1>3. e \in [0 .. L + 1 -> 0 .. drops] /\ e[L + 1] = drops /\ \A n \in 0 .. L : e[n] = d[n]
  BY <1>1
<1> HIDE DEF e, qq
<1>4. \A n \in 0 .. L : Expected(rx, qq, n) = Expected(rx, q, n)
  BY <1>1 DEF Expected
<1>5. Expected(rx, qq, L + 1) = (bus + 1) % 4
  BY <1>1 DEF Expected
<1>6. ASSUME NEW n \in 1 .. L + 1
      PROVE  e[n - 1] + GrSkipped(qq[n], Expected(rx, qq, n - 1)) <= e[n]
  <2>1. n - 1 \in 0 .. L
    BY <1>1
  <2>2. e[n - 1] = d[n - 1] /\ Expected(rx, qq, n - 1) = Expected(rx, q, n - 1)
    BY <1>3, <1>4, <2>1, Zenon
  <2>3. CASE n = L + 1
    <3>1. n - 1 = L /\ qq[n] = bus /\ e[n] = drops
      BY <1>1, <1>3, <2>3
    <3> QED
      BY <1>2, <2>2, <3>1, Zenon DEF Accounts
  <2>4. CASE n # L + 1
    <3>1. n \in 1 .. L /\ n \in 0 .. L
      BY <1>1, <2>4
    <3> QED
      BY <1>1, <1>2, <1>3, <2>2, <3>1, Zenon DEF Accounts
  <2> QED
    BY <2>3, <2>4
<1>7. rx.syncs <= e[0]
  <2>1. 0 \in 0 .. L
    BY <1>1
  <2> QED
    BY <1>2, <1>3, <2>1, Zenon DEF Accounts
<1>8. e[L + 1] + GrSkipped((bus + 1) % 4, Expected(rx, qq, L + 1)) <= drops
  BY <1>3, <1>5 DEF GrSkipped
<1> QED
  BY <1>1, <1>3, <1>6, <1>7, <1>8, Zenon DEF Accounted, Accounts, qq

LEMMA LossAccounted ==
  ASSUME NEW rx \in RxStates, NEW q \in Seq(0 .. 3), NEW bus \in 0 .. 3, NEW drops \in Nat, NEW next,
         Accounted(rx, q, bus, drops)
  PROVE  Accounted(rx, q, next, drops + 1)
<1> DEFINE L == Len(q)
<1>1. L \in Nat
  OBVIOUS
<1>2. PICK d \in [0 .. L -> 0 .. drops] : Accounts(d, rx, q, bus, drops)
  BY DEF Accounted
<1>3. d[L] + GrSkipped(bus, Expected(rx, q, L)) <= drops /\ d[L] \in Nat
  BY <1>1, <1>2 DEF Accounts
<1>4. d[L] + GrSkipped(next, Expected(rx, q, L)) <= drops + 1
  BY <1>3 DEF GrSkipped
<1>5. d \in [0 .. L -> 0 .. drops + 1]
  <2>1. 0 .. drops \subseteq 0 .. drops + 1
    OBVIOUS
  <2> QED
    BY <2>1
<1> QED
  BY <1>2, <1>4, <1>5, Zenon DEF Accounted, Accounts

(* The message after those written, and the next one on the bus.           *)
Behind == (gr_ofs + (IF Writing THEN gr_wcnt ELSE 0)) % 4
OnTheBus == IF gr_mode = "rx" THEN gr_sent % 4 ELSE IF gr_txq = <<>> THEN Behind ELSE gr_txq[1]

GrTypes ==
  /\ gr_mode \in {"two", "one", "rx"}
  /\ gr_task1 \in {"start", "read", "write", "ended"} /\ gr_task2 \in {"start", "loop", "write"}
  /\ gr_inited \in BOOLEAN /\ gr_ofs \in 0 .. 3 /\ gr_wcnt \in 0 .. 4
  /\ gr_txq \in Seq(0 .. 3) /\ gr_rxq \in Seq(0 .. 3)
  /\ gr_sent \in 0 .. MaxGrSent /\ gr_drops \in 0 .. MaxDrops /\ gr_drops <= gr_sent
  /\ gr_rx \in RxStates

(* Messages are filled in before one is read or written.                   *)
GrRoles ==
  /\ gr_task2 # "start" => gr_mode = "two" /\ gr_task1 # "start" /\ gr_inited
  /\ gr_task1 = "write" => gr_mode = "one"
  /\ gr_task1 # "start" /\ gr_mode # "two" => gr_inited
  /\ (gr_mode = "two" /\ gr_task2 = "start") \/ (gr_mode = "one" /\ gr_task1 = "start")
       => gr_txq = <<>> /\ gr_rxq = <<>>
  /\ gr_mode = "rx" => gr_txq = <<>>

(* What is written follows on in its queue.                                *)
InOrder(q, next) ==
  \A n \in 1 .. Len(q) : (q[n] + 1) % 4 = (IF n = Len(q) THEN next ELSE q[n + 1])

GrInv ==
  /\ GrTypes /\ GrRoles /\ InOrder(gr_txq, Behind)
  /\ Accounted(gr_rx, gr_rxq, OnTheBus, gr_drops)

LEMMA GrConstants ==
  GrTxLen \in Nat /\ GrRxLen \in Nat /\ GrReadMax \in Nat /\ MaxGrSent \in Nat /\ MaxDrops \in Nat
  BY GrLengths

LEMMA BusTypes ==
  ASSUME GrTypes
  PROVE  Behind \in 0 .. 3 /\ OnTheBus \in 0 .. 3 /\ gr_drops \in Nat /\ gr_sent \in Nat
<1>1. gr_ofs \in Nat /\ gr_wcnt \in Nat /\ gr_sent \in Nat /\ gr_drops \in Nat
  BY GrConstants DEF GrTypes
<1>2. Behind \in 0 .. 3
  BY <1>1 DEF Behind
<1>3. gr_txq # <<>> => gr_txq[1] \in 0 .. 3
  BY DEF GrTypes
<1> QED
  BY <1>1, <1>2, <1>3 DEF OnTheBus

LEMMA GrSynced == GrInv => GrSyncs
<1> SUFFICES ASSUME GrInv PROVE GrSyncs
  OBVIOUS
<1>1. Len(gr_rxq) \in Nat /\ gr_drops \in Nat /\ gr_rx.errors = 0 /\ gr_rx.syncs \in Nat
  BY BusTypes DEF GrInv, GrTypes, RxStates
<1>2. PICK d \in [0 .. Len(gr_rxq) -> 0 .. gr_drops] : gr_rx.syncs <= d[0]
  BY Zenon DEF GrInv, Accounted, Accounts
<1>3. d[0] \in 0 .. gr_drops
  BY <1>1
<1> QED
  BY <1>1, <1>2, <1>3 DEF GrSyncs

LEMMA GrTyped == GrInv => GrTypeOK
<1> SUFFICES ASSUME GrInv PROVE GrTypeOK
  OBVIOUS
<1>1. gr_rx.errors = 0 /\ gr_rx.syncs <= gr_drops /\ GrTypes
  BY GrSynced DEF GrSyncs, GrInv
<1>2. gr_drops \in Nat /\ gr_sent \in Nat /\ gr_drops <= gr_sent /\ gr_sent <= MaxGrSent
  BY <1>1, GrConstants DEF GrTypes
<1>3. gr_rx \in [index : 0 .. 3, syncs : 0 .. MaxGrSent, errors : 0 .. MaxGrSent]
  <2>1. gr_rx.syncs \in Nat
    BY <1>1 DEF GrTypes, RxStates
  <2>2. gr_rx.syncs \in 0 .. MaxGrSent /\ 0 \in 0 .. MaxGrSent
    BY <1>1, <1>2, <2>1, GrConstants
  <2> QED
    BY <1>1, <2>2 DEF GrTypes, RxStates
<1> QED
  BY <1>1, <1>3 DEF GrTypes, GrTypeOK

LEMMA GrInvInit == GrInit => GrInv
<1> SUFFICES ASSUME GrInit PROVE GrInv
  OBVIOUS
<1>1. GrTypes /\ GrRoles
  <2>1. 0 \in 0 .. MaxGrSent /\ 0 \in 0 .. MaxDrops /\ 0 \in 0 .. 3 /\ 0 \in 0 .. 4 /\ 0 <= 0
    BY GrConstants
  <2>2. gr_rx \in RxStates
    BY DEF GrInit, RxStates
  <2>3. GrTypes
    <3>1. gr_txq \in Seq(0 .. 3) /\ gr_rxq \in Seq(0 .. 3)
      BY DEF GrInit
    <3> QED
      BY <2>1, <2>2, <3>1, Zenon DEF GrInit, GrTypes
  <2> QED
    BY <2>3 DEF GrInit, GrRoles
<1>2. InOrder(gr_txq, Behind)
  BY DEF GrInit, InOrder
<1>3. OnTheBus = 0
  BY DEF GrInit, OnTheBus, Behind
<1> DEFINE d == [n \in 0 .. 0 |-> 0]
<1>4. d \in [0 .. 0 -> 0 .. 0] /\ d[0] = 0
  OBVIOUS
<1>5. gr_rx.syncs = 0 /\ gr_rx.index = 0 /\ gr_rxq = <<>> /\ Len(<<>>) = 0 /\ gr_drops = 0
  BY DEF GrInit
<1> HIDE DEF d
<1>6. Accounts(d, gr_rx, gr_rxq, OnTheBus, gr_drops)
  BY <1>3, <1>4, <1>5 DEF Accounts, Expected, GrSkipped
<1>7. Accounted(gr_rx, gr_rxq, OnTheBus, gr_drops)
  BY <1>4, <1>5, <1>6, Zenon DEF Accounted
<1> QED
  BY <1>1, <1>2, <1>7 DEF GrInv

(* What neither moves messages nor reads them.                             *)
LEMMA NothingMoves ==
  ASSUME GrInv, Behind' = Behind, UNCHANGED <<gr_mode, gr_txq, gr_rxq, gr_sent, gr_rx, gr_drops>>
  PROVE  InOrder(gr_txq, Behind)' /\ Accounted(gr_rx, gr_rxq, OnTheBus, gr_drops)'
<1>1. OnTheBus' = OnTheBus
  BY DEF OnTheBus
<1> QED
  BY <1>1, Zenon DEF GrInv, InOrder, Accounted, Accounts, Expected

LEMMA StartRxKeeps == GrInv /\ GrStartRx => GrInv'
<1> SUFFICES ASSUME GrInv, GrStartRx PROVE GrInv'
  OBVIOUS
<1>1. GrTypes' /\ GrRoles'
  <2>1. gr_inited' \in BOOLEAN /\ (gr_inited' <=> gr_mode \in {"one", "rx"}) /\ gr_task2' = "start"
    <3> DEFINE fills == gr_mode \in {"one", "rx"}
    <3>1. fills \in BOOLEAN
      OBVIOUS
    <3>2. gr_inited' = fills
      BY Zenon DEF GrStartRx
    <3>3. gr_task2' = "start"
      BY Zenon DEF GrStartRx, GrInv, GrRoles
    <3> HIDE DEF fills
    <3>4. gr_inited' \in BOOLEAN /\ (gr_inited' <=> fills)
      BY <3>1, <3>2, Zenon
    <3> QED
      BY <3>3, <3>4, Zenon DEF fills
  <2>2. GrTypes'
    BY <2>1 DEF GrInv, GrTypes, GrStartRx
  <2>3. gr_mode # "two" => gr_inited'
    BY <2>1 DEF GrInv, GrTypes
  <2> QED
    BY <2>1, <2>2, <2>3 DEF GrInv, GrTypes, GrRoles, GrStartRx
<1>2. Behind' = Behind
  BY DEF GrInv, GrTypes, GrRoles, GrStartRx, Behind, Writing
<1> QED
  BY <1>1, <1>2, NothingMoves DEF GrStartRx, GrInv

LEMMA StartTxKeeps == GrInv /\ GrStartTx => GrInv'
<1> SUFFICES ASSUME GrInv, GrStartTx PROVE GrInv'
  OBVIOUS
<1>1. GrTypes' /\ GrRoles'
  BY DEF GrInv, GrTypes, GrRoles, GrStartTx
<1>2. Behind' = Behind
  BY DEF GrInv, GrTypes, GrRoles, GrStartTx, Behind, Writing
<1> QED
  BY <1>1, <1>2, NothingMoves DEF GrStartTx, GrInv

LEMMA ReadNothingKeeps == GrInv /\ GrReadNothing => GrInv'
<1> SUFFICES ASSUME GrInv, GrReadNothing PROVE GrInv'
  OBVIOUS
<1>1. GrTypes' /\ GrRoles'
  BY DEF GrInv, GrTypes, GrRoles, GrReadNothing
<1>2. Behind' = Behind
  BY DEF GrInv, GrTypes, GrRoles, GrReadNothing, Behind, Writing
<1> QED
  BY <1>1, <1>2, NothingMoves DEF GrReadNothing, GrInv

LEMMA GrWriteKeeps == GrInv /\ GrWrite => GrInv'
<1> SUFFICES ASSUME GrInv, GrWrite PROVE GrInv'
  OBVIOUS
<1>1. GrTypes' /\ GrRoles'
  BY DEF GrInv, GrTypes, GrRoles, GrWrite
<1>2. Behind' = Behind
  BY DEF GrInv, GrTypes, GrRoles, GrWrite, Behind, Writing
<1> QED
  BY <1>1, <1>2, NothingMoves DEF GrWrite, GrInv

(* A write that was cut short goes on where it stopped.                    *)
LEMMA WrittenKeeps == GrInv /\ GrWritten => GrInv'
<1> SUFFICES ASSUME GrInv, GrWritten PROVE GrInv'
  OBVIOUS
<1> DEFINE sum == gr_ofs + gr_wcnt
<1>1. gr_ofs \in 0 .. 3 /\ gr_wcnt \in 0 .. 4 /\ sum \in 0 .. 7
  BY DEF GrInv, GrTypes
<1>2. gr_ofs' = IF sum > 3 THEN sum - 4 ELSE sum
  <2>1. gr_ofs' = IF gr_ofs + gr_wcnt > 3 THEN gr_ofs + (gr_wcnt - 4) ELSE gr_ofs + gr_wcnt
    BY DEF GrWritten
  <2>2. gr_ofs + (gr_wcnt - 4) = sum - 4
    BY <1>1
  <2> QED
    BY <2>1, <2>2, Zenon
<1>3. gr_ofs' \in 0 .. 3 /\ gr_ofs' = sum % 4
  <2>1. \A k \in 0 .. 7 : (IF k > 3 THEN k - 4 ELSE k) \in 0 .. 3 /\ (IF k > 3 THEN k - 4 ELSE k) = k % 4
    OBVIOUS
  <2> QED
    BY <1>1, <1>2, <2>1
<1>4. GrTypes' /\ GrRoles'
  BY <1>3 DEF GrInv, GrTypes, GrRoles, GrWritten
<1>5. ~Writing'
  BY DEF GrInv, GrTypes, GrRoles, GrWritten, Writing
<1>6. Behind' = gr_ofs' % 4 /\ Behind = sum % 4
  <2>1. Behind' = (gr_ofs' + 0) % 4 /\ Behind = sum % 4
    BY <1>5 DEF Behind, GrWritten
  <2>2. gr_ofs' + 0 = gr_ofs'
    BY <1>3
  <2> QED
    BY <2>1, <2>2
<1>7. Behind' = Behind
  <2>1. \A k \in 0 .. 3 : k % 4 = k
    OBVIOUS
  <2> QED
    BY <1>3, <1>6, <2>1, Zenon
<1> QED
  BY <1>4, <1>7, NothingMoves DEF GrWritten, GrInv

LEMMA TakeKeeps == GrInv /\ GrTake => GrInv'
<1> SUFFICES ASSUME GrInv, GrTake PROVE GrInv'
  OBVIOUS
<1> DEFINE sum == gr_ofs + gr_wcnt
           L == Len(gr_txq)
<1>1. gr_ofs \in 0 .. 3 /\ gr_wcnt \in 0 .. 3 /\ L \in Nat /\ Writing /\ gr_inited /\ gr_mode # "rx"
  BY DEF GrInv, GrTypes, GrRoles, GrTake, Writing
<1>2. Slot(sum) = Behind /\ Behind \in 0 .. 3
  BY <1>1, BusTypes DEF Slot, Behind, GrInv
<1>3. gr_txq' = Append(gr_txq, Behind) /\ gr_wcnt' = gr_wcnt + 1
  BY <1>2 DEF GrTake
<1>4. GrTypes'
  <2>1. gr_txq' \in Seq(0 .. 3)
    BY <1>2, <1>3 DEF GrInv, GrTypes
  <2>2. gr_wcnt' \in 0 .. 4
    BY <1>1, <1>3
  <2> QED
    BY <2>1, <2>2 DEF GrInv, GrTypes, GrTake
<1>5. GrRoles'
  BY DEF GrInv, GrTypes, GrRoles, GrTake, Writing
<1>6. Behind' = (Behind + 1) % 4
  <2>1. Writing' /\ gr_ofs' = gr_ofs
    BY <1>1 DEF GrTake, Writing
  <2>2. Behind' = (gr_ofs + (gr_wcnt + 1)) % 4 /\ Behind = sum % 4
    BY <1>1, <1>3, <2>1 DEF Behind
  <2>3. (gr_ofs + (gr_wcnt + 1)) % 4 = ((sum % 4) + 1) % 4
    BY <1>1
  <2> QED
    BY <2>2, <2>3, Zenon
<1> DEFINE qq == Append(gr_txq, Behind)
<1>7. Len(qq) = L + 1 /\ qq[L + 1] = Behind /\ \A n \in 1 .. L : qq[n] = gr_txq[n]
  BY <1>1, <1>2 DEF GrInv, GrTypes
<1>8. InOrder(qq, (Behind + 1) % 4)
  <2> SUFFICES ASSUME NEW n \in 1 .. L + 1
               PROVE  (qq[n] + 1) % 4 = (IF n = L + 1 THEN (Behind + 1) % 4 ELSE qq[n + 1])
    BY <1>7 DEF InOrder
  <2> HIDE DEF qq
  <2>1. CASE n = L + 1
    BY <1>7, <2>1
  <2>2. CASE n # L + 1
    <3>1. n \in 1 .. L /\ n + 1 \in 1 .. L + 1 /\ (n # L => n + 1 \in 1 .. L) /\ (n = L => n + 1 = L + 1)
      BY <1>1, <2>2
    <3>2. (gr_txq[n] + 1) % 4 = (IF n = L THEN Behind ELSE gr_txq[n + 1])
      BY <3>1, Zenon DEF GrInv, InOrder
    <3>3. qq[n] = gr_txq[n] /\ qq[n + 1] = IF n = L THEN Behind ELSE gr_txq[n + 1]
      BY <1>7, <3>1
    <3> QED
      BY <2>2, <3>2, <3>3, Zenon
  <2> QED
    BY <2>1, <2>2
<1>9. InOrder(gr_txq, Behind)'
  BY <1>3, <1>6, <1>8, Zenon DEF InOrder
<1>10. OnTheBus' = OnTheBus
  <2>1. qq # <<>> /\ qq[1] = IF gr_txq = <<>> THEN Behind ELSE gr_txq[1]
    <3>1. CASE gr_txq = <<>>
      <4>1. L = 0
        BY <3>1
      <4> QED
        BY <1>7, <3>1, <4>1
    <3>2. CASE gr_txq # <<>>
      <4>1. L # 0 /\ 1 \in 1 .. L
        BY <1>1, <3>2 DEF GrInv, GrTypes
      <4> QED
        BY <1>1, <1>7, <3>2, <4>1
    <3> QED
      BY <3>1, <3>2
  <2> HIDE DEF qq
  <2>2. gr_txq' = qq /\ gr_mode' = gr_mode
    BY <1>3 DEF GrTake, qq
  <2> QED
    BY <1>1, <2>1, <2>2, Zenon DEF OnTheBus
<1>11. Accounted(gr_rx, gr_rxq, OnTheBus, gr_drops)'
  BY <1>10, Zenon DEF GrInv, GrTake, Accounted, Accounts, Expected
<1> QED
  BY <1>4, <1>5, <1>9, <1>11 DEF GrInv

LEMMA ReadKeepsSync == GrInv /\ GrRead => GrInv'
<1> SUFFICES ASSUME GrInv, GrRead PROVE GrInv'
  OBVIOUS
<1> DEFINE cnt == IF GrReadMax < Len(gr_rxq) THEN GrReadMax ELSE Len(gr_rxq)
           r == VerifiedAll(gr_rx, SubSeq(gr_rxq, 1, cnt))
           rest == SubSeq(gr_rxq, cnt + 1, Len(gr_rxq))
<1>1. gr_rx \in RxStates /\ gr_rxq \in Seq(0 .. 3) /\ OnTheBus \in 0 .. 3 /\ gr_drops \in Nat /\ Len(gr_rxq) \in Nat
  BY BusTypes DEF GrInv, GrTypes
<1>2. gr_inited
  BY DEF GrInv, GrTypes, GrRoles, GrRead
<1>3. cnt \in 0 .. Len(gr_rxq)
  BY <1>1, GrConstants
<1>4. gr_rx' = r /\ gr_rxq' = rest
  BY DEF GrRead
<1> HIDE DEF cnt
<1>5. r \in RxStates /\ rest \in Seq(0 .. 3) /\ Accounted(r, rest, OnTheBus, gr_drops)
  BY <1>1, <1>2, <1>3, ReadAccounted, Zenon DEF GrInv
<1> HIDE DEF r, rest
<1>6. GrTypes' /\ GrRoles'
  BY <1>4, <1>5 DEF GrInv, GrTypes, GrRoles, GrRead
<1>7. Behind' = Behind /\ OnTheBus' = OnTheBus
  BY DEF GrRead, Behind, OnTheBus, Writing
<1>8. InOrder(gr_txq, Behind)'
  BY <1>7, Zenon DEF GrInv, GrRead, InOrder
<1>9. Accounted(gr_rx, gr_rxq, OnTheBus, gr_drops)'
  BY <1>4, <1>5, <1>7, Zenon DEF GrRead, Accounted, Accounts, Expected
<1> QED
  BY <1>6, <1>8, <1>9 DEF GrInv

LEMMA BusKeepsSync == GrInv /\ GrBus => GrInv'
<1> SUFFICES ASSUME GrInv, GrBus PROVE GrInv'
  OBVIOUS
<1> DEFINE L == Len(gr_txq)
<1>1. /\ gr_rx \in RxStates /\ gr_rxq \in Seq(0 .. 3) /\ gr_txq \in Seq(0 .. 3) /\ L \in Nat /\ gr_sent \in Nat
      /\ OnTheBus \in 0 .. 3 /\ Behind \in 0 .. 3 /\ gr_drops \in Nat /\ gr_drops <= gr_sent
  BY BusTypes DEF GrInv, GrTypes
<1>2. gr_mode # "rx" => gr_txq # <<>>
  BY DEF GrBus
<1>3. \/ Len(gr_rxq) < GrRxLen /\ gr_rxq' = Append(gr_rxq, OnTheBus) /\ UNCHANGED gr_drops
      \/ gr_drops < MaxDrops /\ gr_drops' = gr_drops + 1 /\ UNCHANGED gr_rxq
  <2>1. CASE gr_mode = "rx"
    BY <2>1 DEF GrBus, OnTheBus
  <2>2. CASE gr_mode # "rx"
    <3>1. PICK msg \in {gr_txq[i] : i \in DOMAIN gr_txq \cap {1}} :
            \/ Len(gr_rxq) < GrRxLen /\ gr_rxq' = Append(gr_rxq, msg) /\ UNCHANGED gr_drops
            \/ gr_drops < MaxDrops /\ gr_drops' = gr_drops + 1 /\ UNCHANGED gr_rxq
      BY <2>2, Zenon DEF GrBus
    <3>2. msg = OnTheBus
      BY <1>2, <2>2 DEF OnTheBus
    <3> QED
      BY <3>1, <3>2
  <2> QED
    BY <2>1, <2>2
<1>4. gr_mode # "rx" => /\ L \in Nat \ {0} /\ Tail(gr_txq) \in Seq(0 .. 3) /\ Len(Tail(gr_txq)) = L - 1
                        /\ \A n \in 1 .. L - 1 : Tail(gr_txq)[n] = gr_txq[n + 1]
  BY <1>1, <1>2
<1>4a. gr_mode # "rx" => L \in Nat \ {0}
  BY <1>4, Zenon
<1>5. OnTheBus' = (OnTheBus + 1) % 4 /\ Behind' = Behind
  <2>1. Behind' = Behind /\ gr_mode' = gr_mode
    BY DEF GrBus, Behind, Writing
  <2>2. CASE gr_mode = "rx"
    <3>1. gr_sent' = gr_sent + 1 /\ (gr_sent + 1) % 4 = ((gr_sent % 4) + 1) % 4
      BY <1>1 DEF GrBus
    <3> QED
      BY <2>1, <2>2, <3>1 DEF OnTheBus
  <2>3. CASE gr_mode # "rx"
    <3>1. gr_txq' = Tail(gr_txq) /\ OnTheBus = gr_txq[1]
      BY <1>2, <2>3 DEF GrBus, OnTheBus
    <3>2. (gr_txq[1] + 1) % 4 = IF 1 = L THEN Behind ELSE gr_txq[1 + 1]
      <4>1. 1 \in 1 .. L
        BY <1>4a, <2>3
      <4> QED
        BY <4>1, Zenon DEF GrInv, InOrder
    <3>3. CASE L = 1
      <4>1. Tail(gr_txq) = <<>>
        <5>1. Tail(gr_txq) \in Seq(0 .. 3) /\ Len(Tail(gr_txq)) = 1 - 1
          BY <1>4, <2>3, <3>3, Zenon
        <5>2. \A q \in Seq(0 .. 3) : Len(q) = 0 => q = <<>>
          OBVIOUS
        <5>3. 1 - 1 = 0
          OBVIOUS
        <5> QED
          BY <5>1, <5>2, <5>3, Zenon
      <4> QED
        BY <2>1, <2>3, <3>1, <3>2, <3>3, <4>1 DEF OnTheBus
    <3>4. CASE L # 1
      <4>1. Tail(gr_txq) # <<>> /\ Tail(gr_txq)[1] = gr_txq[1 + 1]
        <5>1. 1 \in 1 .. L - 1 /\ L - 1 # 0
          BY <1>4a, <2>3, <3>4
        <5> QED
          BY <1>4, <2>3, <5>1
      <4> QED
        BY <2>1, <2>3, <3>1, <3>2, <3>4, <4>1 DEF OnTheBus
    <3> QED
      BY <3>3, <3>4
  <2> QED
    BY <2>1, <2>2, <2>3
<1>6. /\ gr_rxq' \in Seq(0 .. 3) /\ Accounted(gr_rx, gr_rxq', (OnTheBus + 1) % 4, gr_drops')
      /\ gr_drops' \in 0 .. MaxDrops /\ gr_drops' <= gr_sent + 1
  <2> DEFINE next == (OnTheBus + 1) % 4
  <2>1. Accounted(gr_rx, gr_rxq, OnTheBus, gr_drops) /\ gr_drops \in 0 .. MaxDrops
    BY DEF GrInv, GrTypes
  <2>2. CASE gr_rxq' = Append(gr_rxq, OnTheBus) /\ UNCHANGED gr_drops
    <3>1. gr_rxq' \in Seq(0 .. 3) /\ Accounted(gr_rx, gr_rxq', (OnTheBus + 1) % 4, gr_drops)
      BY <1>1, <2>1, <2>2, ThroughAccounted, Zenon
    <3>2. gr_drops <= gr_sent + 1
      BY <1>1
    <3> QED
      BY <2>1, <2>2, <3>1, <3>2, Zenon
  <2>3. CASE gr_drops < MaxDrops /\ gr_drops' = gr_drops + 1 /\ UNCHANGED gr_rxq
    <3>1. Accounted(gr_rx, gr_rxq, (OnTheBus + 1) % 4, gr_drops + 1)
      BY <1>1, <2>1, LossAccounted, Zenon
    <3>2. gr_drops + 1 \in 0 .. MaxDrops /\ gr_drops + 1 <= gr_sent + 1
      BY <1>1, <2>3, GrConstants
    <3> QED
      BY <1>1, <2>3, <3>1, <3>2, Zenon
  <2> QED
    BY <1>3, <2>2, <2>3
<1>7. gr_txq' \in Seq(0 .. 3) /\ InOrder(gr_txq', Behind)
  <2>1. CASE gr_mode = "rx"
    BY <1>1, <2>1 DEF GrBus, GrInv
  <2>2. CASE gr_mode # "rx"
    <3>1. gr_txq' = Tail(gr_txq)
      BY <2>2 DEF GrBus
    <3>2. ASSUME NEW n \in 1 .. L - 1
          PROVE  (Tail(gr_txq)[n] + 1) % 4 = (IF n = L - 1 THEN Behind ELSE Tail(gr_txq)[n + 1])
      <4>1. n + 1 \in 1 .. L /\ (n # L - 1 => n + 1 \in 1 .. L - 1 /\ n + 1 # L) /\ (n = L - 1 => n + 1 = L)
        BY <1>4, <2>2
      <4>2. (gr_txq[n + 1] + 1) % 4 = IF n + 1 = L THEN Behind ELSE gr_txq[n + 1 + 1]
        BY <4>1, Zenon DEF GrInv, InOrder
      <4>3. Tail(gr_txq)[n] = gr_txq[n + 1] /\ (n # L - 1 => Tail(gr_txq)[n + 1] = gr_txq[n + 1 + 1])
        BY <1>4, <2>2, <4>1, Zenon
      <4> QED
        BY <4>1, <4>2, <4>3, Zenon
    <3> QED
      BY <1>4, <2>2, <3>1, <3>2, Zenon DEF InOrder
  <2> QED
    BY <2>1, <2>2
<1>8. GrTypes'
  <2>1. gr_sent' \in 0 .. MaxGrSent /\ gr_sent' = gr_sent + 1
    BY <1>1, GrConstants DEF GrBus
  <2> QED
    BY <1>6, <1>7, <2>1 DEF GrInv, GrTypes, GrBus
<1>9. GrRoles'
  <2>1. gr_mode = "rx" => gr_txq' = <<>>
    BY DEF GrInv, GrRoles, GrBus
  <2>2. gr_mode # "rx" => ~((gr_mode = "two" /\ gr_task2 = "start") \/ (gr_mode = "one" /\ gr_task1 = "start"))
    BY <1>2 DEF GrInv, GrRoles
  <2> QED
    BY <2>1, <2>2 DEF GrInv, GrRoles, GrBus
<1>10. InOrder(gr_txq, Behind)' /\ Accounted(gr_rx, gr_rxq, OnTheBus, gr_drops)'
  <2>1. gr_rx' = gr_rx
    BY DEF GrBus
  <2>2. InOrder(gr_txq', Behind') /\ Accounted(gr_rx', gr_rxq', OnTheBus', gr_drops')
    BY <1>5, <1>6, <1>7, <2>1, Zenon
  <2> QED
    BY <2>2, Zenon DEF InOrder, Accounted, Accounts, Expected
<1> QED
  BY <1>8, <1>9, <1>10 DEF GrInv

LEMMA GrStepKeeps == GrInv /\ [GrNext]_gr_vars => GrInv'
<1> SUFFICES ASSUME GrInv, [GrNext]_gr_vars PROVE GrInv'
  OBVIOUS
<1>1. CASE UNCHANGED gr_vars
  <2>1. Behind' = Behind
    BY <1>1 DEF gr_vars, Behind, Writing
  <2>2. GrTypes' /\ GrRoles'
    BY <1>1 DEF gr_vars, GrInv, GrTypes, GrRoles
  <2> QED
    BY <1>1, <2>1, <2>2, NothingMoves DEF gr_vars, GrInv
<1> QED
  BY <1>1, StartRxKeeps, StartTxKeeps, ReadKeepsSync, ReadNothingKeeps, GrWriteKeeps, TakeKeeps,
     WrittenKeeps, BusKeepsSync DEF GrNext

LEMMA GrInvariant == GrSpec => []GrInv
  BY GrInvInit, GrStepKeeps, PTL DEF GrSpec

(* GRCAN demos, all three builds, any lengths of the driver's queues and   *)
(* of a read: every variable stays in its range.                           *)
THEOREM GrTyping == GrSpec => []GrTypeOK
  BY GrInvariant, GrTyped, PTL

(* However writes are cut short and reads and writes alternate, the        *)
(* receiver sees no message it does not know, and looks for its place no   *)
(* more often than messages were lost.                                     *)
THEOREM InSyncAgain == GrSpec => []GrSyncs
  BY GrInvariant, GrSynced, PTL

-----------------------------------------------------------------------------
(* The bit timing calculator.  First products and quotients.               *)

LEMMA QuotientIs ==
  \A a \in Nat, b \in Nat \ {0} :
    a \div b \in Nat /\ (a \div b) * b <= a /\ a < (a \div b + 1) * b
  BY SMT

LEMMA ProductGrows == \A a, b, k \in Nat : a <= b => a * k <= b * k
  BY SMT

LEMMA ProductIn == \A a, b \in Nat : a * b \in Nat /\ a * b = b * a
  BY SMT

LEMMA ProductPositive == \A a, b \in Nat \ {0} : a * b \in Nat \ {0}
  BY SMT

LEMMA ProductAssociates == \A a, b, c \in Nat : (a * b) * c = a * (b * c)
  BY SMT

LEMMA ProductShrinks == \A a, b \in Nat, k \in Nat \ {0} : a * k < b * k => a < b
  BY SMT

(* k is not more than a quotient.                                          *)
LEMMA AtLeast == \A a, k \in Nat, b \in Nat \ {0} : k * b <= a => k <= a \div b
  BY SMT

LEMMA LessThan == \A a, k \in Nat, b \in Nat \ {0} : a < k * b => a \div b < k
  BY SMT

LEMMA QuotientShrinks == \A a \in Nat, b, d \in Nat \ {0} : b <= d => a \div d <= a \div b
  BY SMT

LEMMA QuotientOfQuotient == \A a \in Nat, b, d \in Nat \ {0} : (a \div b) \div d = a \div (b * d)
  BY SMT

LEMMA ProductShrinksEq == \A a, b \in Nat, k \in Nat \ {0} : a * k <= b * k => a <= b
  BY SMT

-----------------------------------------------------------------------------
(* The bit timing calculator.  Rounded is the divider rounded down; up to  *)
(* it the rate is too high, from the next on it is too low.                *)
Rounded(c, r, q) == c \div (q * r)

LEMMA RoundedIs ==
  ASSUME NEW c \in Nat, NEW r \in Nat \ {0}, NEW q \in Nat \ {0}
  PROVE  /\ q * r \in Nat \ {0} /\ Rounded(c, r, q) \in Nat
         /\ Rounded(c, r, q) * (q * r) <= c /\ c < (Rounded(c, r, q) + 1) * (q * r)
<1>1. q * r \in Nat \ {0}
  BY ProductPositive
<1> QED
  BY <1>1, QuotientIs DEF Rounded

LEMMA HighRate ==
  ASSUME NEW c \in Nat, NEW r \in Nat \ {0}, NEW q \in Nat \ {0}, NEW b \in Nat \ {0},
         b <= Rounded(c, r, q)
  PROVE  /\ c \div (b * q) \in Nat /\ c \div (b * q) >= r
         /\ RateError(c, r, b, q) = c \div (b * q) - r
<1>1. /\ Rounded(c, r, q) \in Nat /\ Rounded(c, r, q) * (q * r) <= c /\ q * r \in Nat
      /\ b * q \in Nat \ {0}
  BY RoundedIs, ProductPositive
<1>2. b * (q * r) <= c
  BY <1>1, SMT
<1>3. r * (b * q) = b * (q * r)
  BY SMT
<1>4. c \div (b * q) \in Nat /\ r <= c \div (b * q)
  BY <1>1, <1>2, <1>3, AtLeast, QuotientIs
<1> QED
  BY <1>4 DEF RateError, Abs

LEMMA LowRate ==
  ASSUME NEW c \in Nat, NEW r \in Nat \ {0}, NEW q \in Nat \ {0}, NEW b \in Nat \ {0},
         b >= Rounded(c, r, q) + 1
  PROVE  /\ c \div (b * q) \in Nat /\ c \div (b * q) < r
         /\ RateError(c, r, b, q) = r - c \div (b * q)
<1>1. /\ Rounded(c, r, q) \in Nat /\ c < (Rounded(c, r, q) + 1) * (q * r) /\ q * r \in Nat
      /\ b * q \in Nat \ {0}
  BY RoundedIs, ProductPositive
<1>2. c < b * (q * r)
  <2>1. (Rounded(c, r, q) + 1) * (q * r) <= b * (q * r)
    BY <1>1, ProductGrows
  <2>2. (Rounded(c, r, q) + 1) * (q * r) \in Nat /\ b * (q * r) \in Nat
    BY <1>1, ProductIn
  <2> QED
    BY <1>1, <2>1, <2>2
<1>3. r * (b * q) = b * (q * r)
  BY SMT
<1>4. c \div (b * q) \in Nat /\ c \div (b * q) < r
  BY <1>1, <1>2, <1>3, LessThan, QuotientIs
<1> QED
  BY <1>4 DEF RateError, Abs

LEMMA ErrorIs ==
  ASSUME NEW c \in Nat, NEW r \in Nat \ {0}, NEW q \in Nat \ {0}, NEW b \in Nat \ {0}
  PROVE  RateError(c, r, b, q) \in Nat
<1>1. Rounded(c, r, q) \in Nat
  BY RoundedIs
<1>2. b <= Rounded(c, r, q) \/ b >= Rounded(c, r, q) + 1
  BY <1>1
<1> QED
  BY <1>2, HighRate, LowRate

(* For one number of quanta the closest divider is the one rounded down or *)
(* the next.                                                               *)
LEMMA CloserBelow ==
  ASSUME NEW c \in Nat, NEW r \in Nat \ {0}, NEW q \in Nat \ {0}, NEW b \in Nat \ {0},
         NEW d \in Nat \ {0}, b <= d, d <= Rounded(c, r, q)
  PROVE  RateError(c, r, d, q) <= RateError(c, r, b, q)
<1> DEFINE x == Rounded(c, r, q)
<1>0. x \in Nat
  BY RoundedIs
<1> HIDE DEF x
<1>1. b <= x
  <2>1. d <= x
    BY DEF x
  <2> QED
    BY <1>0, <2>1
<1>2. /\ RateError(c, r, d, q) = c \div (d * q) - r /\ c \div (d * q) \in Nat
      /\ RateError(c, r, b, q) = c \div (b * q) - r /\ c \div (b * q) \in Nat
  BY <1>1, HighRate DEF x
<1>3. b * q <= d * q /\ b * q \in Nat \ {0} /\ d * q \in Nat \ {0}
  BY ProductGrows, ProductPositive
<1>4. c \div (d * q) <= c \div (b * q)
  BY <1>3, QuotientShrinks
<1> QED
  BY <1>2, <1>4

LEMMA CloserAbove ==
  ASSUME NEW c \in Nat, NEW r \in Nat \ {0}, NEW q \in Nat \ {0}, NEW b \in Nat \ {0},
         NEW d \in Nat \ {0}, d <= b, d >= Rounded(c, r, q) + 1
  PROVE  RateError(c, r, d, q) <= RateError(c, r, b, q)
<1> DEFINE x == Rounded(c, r, q)
<1>0. x \in Nat
  BY RoundedIs
<1> HIDE DEF x
<1>1. b >= x + 1
  <2>1. d >= x + 1
    BY DEF x
  <2> QED
    BY <1>0, <2>1
<1>2. /\ RateError(c, r, d, q) = r - c \div (d * q) /\ c \div (d * q) \in Nat
      /\ RateError(c, r, b, q) = r - c \div (b * q) /\ c \div (b * q) \in Nat
  BY <1>1, LowRate DEF x
<1>3. d * q <= b * q /\ b * q \in Nat \ {0} /\ d * q \in Nat \ {0}
  BY ProductGrows, ProductPositive
<1>4. c \div (b * q) <= c \div (d * q)
  BY <1>3, QuotientShrinks
<1> QED
  BY <1>2, <1>4

(* One of the two is at most half a step of the divider away.              *)
LEMMA HalfAStep ==
  ASSUME NEW c \in Nat, NEW r \in Nat \ {0}, NEW q \in Nat \ {0}, NEW d \in Nat \ {0},
         d = Rounded(c, r, q)
  PROVE  \/ 2 * (RateError(c, r, d, q) * d) <= r
         \/ 2 * ((RateError(c, r, d + 1, q) - 1) * (d + 1)) < r
<1> DEFINE E1 == RateError(c, r, d, q)
           E2 == RateError(c, r, d + 1, q)
           H == c \div (d * q)
           F == c \div ((d + 1) * q)
<1>1. d * (q * r) <= c /\ c < (d + 1) * (q * r) /\ q * r \in Nat \ {0}
  BY RoundedIs
<1>2. H \in Nat /\ H >= r /\ E1 = H - r /\ F \in Nat /\ F < r /\ E2 = r - F
  <2>1. d <= Rounded(c, r, q)
    OBVIOUS
  <2>2. d + 1 \in Nat \ {0} /\ d + 1 >= Rounded(c, r, q) + 1
    OBVIOUS
  <2>3. H \in Nat /\ H >= r /\ E1 = H - r
    BY <2>1, HighRate
  <2>4. F \in Nat /\ F < r /\ E2 = r - F
    <3> DEFINE n == d + 1
    <3>1. n \in Nat \ {0} /\ n >= Rounded(c, r, q) + 1
      BY <2>2
    <3> HIDE DEF n
    <3>2. c \div (n * q) \in Nat /\ c \div (n * q) < r /\ RateError(c, r, n, q) = r - c \div (n * q)
      BY <3>1, LowRate
    <3> QED
      BY <3>2 DEF n
  <2> QED
    BY <2>3, <2>4
<1>3. H * (d * q) <= c /\ c < (F + 1) * ((d + 1) * q)
  <2>1. d * q \in Nat \ {0} /\ (d + 1) * q \in Nat \ {0}
    BY ProductPositive
  <2> QED
    BY <2>1, QuotientIs
<1> HIDE DEF E1, E2, H, F
<1>4. CASE 2 * (c - d * (q * r)) <= q * r
  <2>1. (E1 * d) * q + d * (q * r) = H * (d * q)
    BY <1>2, SMT
  <2>2. (2 * (E1 * d)) * q <= r * q
    BY <1>1, <1>2, <1>3, <1>4, <2>1, SMT
  <2>3. 2 * (E1 * d) \in Nat
    BY <1>2, SMT
  <2> QED
    BY <2>2, <2>3, ProductShrinksEq DEF E1
<1>5. CASE ~(2 * (c - d * (q * r)) <= q * r)
  <2>1. ((E2 - 1) * (d + 1)) * q + (F + 1) * ((d + 1) * q) = (d + 1) * (q * r)
    BY <1>2, SMT
  <2>2. (d + 1) * (q * r) = d * (q * r) + q * r
    BY SMT
  <2>3. (2 * ((E2 - 1) * (d + 1))) * q < r * q
    BY <1>1, <1>2, <1>3, <1>5, <2>1, <2>2, SMT
  <2>4. 2 * ((E2 - 1) * (d + 1)) \in Nat
    BY <1>2, SMT
  <2> QED
    BY <2>3, <2>4, ProductShrinks DEF E2
<1> QED
  BY <1>4, <1>5

(* A divider that is too small by one or more gives an error.              *)
LEMMA FarOff ==
  ASSUME NEW c \in Nat, NEW r \in Nat \ {0}, NEW q \in Nat \ {0}, NEW m \in Nat \ {0},
         m + 1 <= Rounded(c, r, q), NEW b \in 1 .. m
  PROVE  /\ RateError(c, r, b, q) >= r \div m
         /\ RateError(c, r, b, q) >= RateError(c, r, m, q)
<1>1. Rounded(c, r, q) \in Nat /\ q * r \in Nat /\ Rounded(c, r, q) * (q * r) <= c
  BY RoundedIs
<1>2. b \in Nat \ {0} /\ b <= m /\ m <= Rounded(c, r, q)
  BY <1>1
<1>3. RateError(c, r, m, q) <= RateError(c, r, b, q)
  BY <1>2, CloserBelow
<1>4. RateError(c, r, m, q) = c \div (m * q) - r /\ c \div (m * q) \in Nat
  BY <1>2, HighRate
<1>5. (m + 1) * (q * r) <= c
  <2>1. (m + 1) * (q * r) <= Rounded(c, r, q) * (q * r)
    BY <1>1, ProductGrows
  <2>2. (m + 1) * (q * r) \in Nat /\ Rounded(c, r, q) * (q * r) \in Nat
    BY <1>1, ProductIn
  <2> QED
    BY <1>1, <2>1, <2>2
<1>6. r \div m \in Nat /\ (r \div m) * m <= r
  BY QuotientIs
<1>7. (r + r \div m) * (m * q) <= (m + 1) * (q * r)
  <2> DEFINE x == r \div m
  <2>1. x \in Nat /\ x * m <= r
    BY <1>6
  <2> HIDE DEF x
  <2>2. (x * m) * q <= r * q
    BY <2>1, ProductGrows, ProductIn
  <2>3. (r + x) * (m * q) = r * (m * q) + (x * m) * q
    BY <2>1, SMT
  <2>4. (m + 1) * (q * r) = r * (m * q) + r * q
    BY SMT
  <2>5. r * (m * q) \in Nat /\ (x * m) * q \in Nat /\ r * q \in Nat
    BY <2>1, SMT
  <2>6. (r + x) * (m * q) <= (m + 1) * (q * r)
    BY <2>2, <2>3, <2>4, <2>5
  <2> QED
    BY <2>6 DEF x
<1>8. (r + r \div m) * (m * q) <= c
  <2>1. (r + r \div m) * (m * q) \in Nat /\ (m + 1) * (q * r) \in Nat
    BY <1>1, <1>6, ProductIn
  <2> QED
    BY <1>5, <1>7, <2>1
<1>9. r + r \div m <= c \div (m * q)
  <2>1. m * q \in Nat \ {0} /\ r + r \div m \in Nat
    BY <1>6, ProductPositive
  <2> QED
    BY <1>8, <2>1, AtLeast
<1>10. RateError(c, r, b, q) \in Nat
  BY <1>2, ErrorIs
<1> DEFINE Eb == RateError(c, r, b, q)
           Em == RateError(c, r, m, q)
           x == r \div m
           y == c \div (m * q)
<1> HIDE DEF Eb, Em, x, y
<1>11. Em <= Eb /\ Em = y - r /\ y \in Nat /\ x \in Nat /\ r + x <= y /\ Eb \in Nat
  BY <1>3, <1>4, <1>6, <1>9, <1>10 DEF Eb, Em, x, y
<1>12. Eb >= x /\ Eb >= Em
  BY <1>11
<1> QED
  BY <1>12 DEF Eb, Em, x

LEMMA FewerQuanta ==
  ASSUME NEW c \in Nat, NEW r \in Nat \ {0}, NEW q \in Nat \ {0}, NEW k \in Nat \ {0}, q <= k
  PROVE  Rounded(c, r, k) <= Rounded(c, r, q)
<1>1. q * r <= k * r /\ q * r \in Nat \ {0} /\ k * r \in Nat \ {0}
  BY ProductGrows, ProductPositive
<1> QED
  BY <1>1, QuotientShrinks DEF Rounded

LEMMA DividersAre ==
  ASSUME NEW c \in Nat, NEW r \in Nat \ {0}, NEW h \in 0 .. 49
  PROVE  /\ Quanta(h) \in 1 .. 25 /\ Divider(c, r, h) \in Nat
         /\ Divider(c, r, h) = Rounded(c, r, Quanta(h)) \/ Divider(c, r, h) = Rounded(c, r, Quanta(h)) + 1
<1>1. Quanta(h) \in 1 .. 25 /\ h % 2 \in 0 .. 1
  BY DEF Quanta
<1>2. Rounded(c, r, Quanta(h)) \in Nat
  <2>1. Quanta(h) \in Nat \ {0}
    BY <1>1
  <2> QED
    BY <2>1, RoundedIs
<1> QED
  BY <1>1, <1>2 DEF Divider, Rounded

(* Every number of quanta is tried with both dividers.                     *)
LEMMA HalvesOf ==
  ASSUME NEW c \in Nat, NEW r \in Nat \ {0}, NEW q \in 1 .. 25
  PROVE  /\ 2 * q - 2 \in 0 .. 49 /\ Quanta(2 * q - 2) = q /\ Divider(c, r, 2 * q - 2) = Rounded(c, r, q)
         /\ 2 * q - 1 \in 0 .. 49 /\ Quanta(2 * q - 1) = q /\ Divider(c, r, 2 * q - 1) = Rounded(c, r, q) + 1
<1>1. /\ 2 * q - 2 \in 0 .. 49 /\ (2 * q - 2) \div 2 = q - 1 /\ (2 * q - 2) % 2 = 0
      /\ 2 * q - 1 \in 0 .. 49 /\ (2 * q - 1) \div 2 = q - 1 /\ (2 * q - 1) % 2 = 1
  BY SMT
<1>2. Quanta(2 * q - 2) = q /\ Quanta(2 * q - 1) = q
  BY <1>1 DEF Quanta
<1>3. Rounded(c, r, q) \in Nat
  <2>1. q \in Nat \ {0}
    OBVIOUS
  <2> QED
    BY <2>1, RoundedIs
<1> QED
  BY <1>1, <1>2, <1>3 DEF Divider, Rounded

(* What the search finds is the closest of the dividers it may use.        *)
LEMMA BestIs ==
  ASSUME NEW c \in Nat, NEW r \in Nat \ {0}, NEW halves \in SUBSET (0 .. 49),
         NEW dividers \in SUBSET (Nat \ {0}),
         NEW usable, usable = {h \in halves : Divider(c, r, h) \in dividers}
  PROVE  /\ usable = {} => Best(c, r, halves, dividers) = [error |-> WorstError, tseg |-> 0, brp |-> 0]
         /\ usable # {} =>
              \E h \in usable :
                /\ Best(c, r, halves, dividers) =
                     [error |-> RateError(c, r, Divider(c, r, h), Quanta(h)), tseg |-> h \div 2, brp |-> Divider(c, r, h)]
                /\ \A k \in usable : RateError(c, r, Divider(c, r, h), Quanta(h)) <= RateError(c, r, Divider(c, r, k), Quanta(k))
<1> DEFINE Err(h) == RateError(c, r, Divider(c, r, h), Quanta(h))
           Last(h) == \A k \in usable : Err(h) < Err(k) \/ (Err(h) = Err(k) /\ k <= h)
           T == {50 * Err(h) + (49 - h) : h \in usable}
<1>1. ASSUME NEW h \in usable PROVE h \in 0 .. 49 /\ Err(h) \in Nat
  <2>1. h \in 0 .. 49 /\ Divider(c, r, h) \in Nat \ {0}
    OBVIOUS
  <2>2. Quanta(h) \in Nat \ {0}
    <3>1. Quanta(h) \in 1 .. 25
      BY <2>1, DividersAre
    <3> QED
      BY <3>1
  <2> QED
    BY <2>1, <2>2, ErrorIs
<1>2. ASSUME usable # {} PROVE \E h \in usable : Last(h)
  <2> HIDE DEF Err
  <2>1. T \in SUBSET Nat /\ T # {}
    <3>1. ASSUME NEW h \in usable PROVE 50 * Err(h) + (49 - h) \in Nat
      BY <1>1
    <3> QED
      BY <1>2, <3>1, Zenon
  <2>2. PICK x \in T : \A y \in T : x <= y
    BY <2>1, Smallest
  <2>3. PICK h \in usable : x = 50 * Err(h) + (49 - h)
    OBVIOUS
  <2>4. ASSUME NEW k \in usable PROVE Err(h) < Err(k) \/ (Err(h) = Err(k) /\ k <= h)
    <3>1. 50 * Err(h) + (49 - h) <= 50 * Err(k) + (49 - k)
      BY <2>2, <2>3
    <3> QED
      BY <1>1, <3>1
  <2> QED
    BY <2>4
<1>3. ASSUME NEW h \in usable, Last(h), NEW k \in usable PROVE Err(h) <= Err(k)
  <2> HIDE DEF Err
  <2> QED
    BY <1>1, <1>3
<1> DEFINE half == CHOOSE h \in usable : Last(h)
<1>4. usable # {} => half \in usable /\ Last(half)
  BY <1>2
<1>5. Best(c, r, halves, dividers) =
        IF usable = {} THEN [error |-> WorstError, tseg |-> 0, brp |-> 0]
        ELSE [error |-> Err(half), tseg |-> half \div 2, brp |-> Divider(c, r, half)]
  BY Zenon DEF Best
<1> HIDE DEF half
<1> QED
  BY <1>3, <1>4, <1>5, Zenon

LEMMA SmallStepBelow ==
  ASSUME NEW r \in Nat, NEW m \in Nat \ {0}, NEW l \in Nat \ {0}, m <= 2 * l,
         NEW d \in Nat \ {0}, l <= d, NEW e \in Nat, 2 * (e * d) <= r
  PROVE  e <= r \div m
<1>1. m <= 2 * d /\ 2 * d \in Nat
  OBVIOUS
<1>2. m * e <= (2 * d) * e
  BY <1>1, ProductGrows
<1>3. (2 * d) * e = 2 * (e * d) /\ m * e = e * m /\ e * m \in Nat /\ 2 * (e * d) \in Nat
  BY SMT
<1>4. e * m <= r
  BY <1>2, <1>3
<1> QED
  BY <1>4, AtLeast

LEMMA SmallStepAbove ==
  ASSUME NEW r \in Nat, NEW m \in Nat \ {0}, NEW l \in Nat \ {0}, 3 * m <= 4 * l + 4, 2 * m <= r,
         NEW d \in Nat \ {0}, l <= d, NEW e \in Nat, 2 * ((e - 1) * (d + 1)) < r
  PROVE  e <= r \div m
<1>1. CASE e <= 2
  <2>1. e * m <= 2 * m
    BY <1>1, ProductGrows
  <2>2. e * m \in Nat
    BY ProductIn
  <2>3. e * m <= r
    BY <2>1, <2>2
  <2> QED
    BY <2>3, AtLeast
<1>2. CASE e > 2
  <2> DEFINE f == e - 1
  <2>1. f \in Nat /\ 2 * e <= 3 * f /\ 2 * (f * (d + 1)) < r
    BY <1>2
  <2> HIDE DEF f
  <2>2. (2 * e) * m <= (3 * f) * m
    <3>1. 2 * e \in Nat /\ 3 * f \in Nat
      BY <2>1
    <3> QED
      BY <2>1, <3>1, ProductGrows
  <2>3. (3 * m) * f <= (4 * (d + 1)) * f
    <3>1. 3 * m \in Nat /\ 4 * (d + 1) \in Nat /\ 3 * m <= 4 * (d + 1)
      OBVIOUS
    <3> QED
      BY <2>1, <3>1, ProductGrows
  <2>4. /\ (2 * e) * m = 2 * (e * m) /\ (3 * f) * m = (3 * m) * f /\ (4 * (d + 1)) * f = 4 * (f * (d + 1))
        /\ e * m \in Nat /\ (3 * m) * f \in Nat /\ f * (d + 1) \in Nat
    BY <2>1, SMT
  <2>5. e * m <= r
    BY <2>1, <2>2, <2>3, <2>4
  <2> QED
    BY <2>5, AtLeast
<1> QED
  BY <1>1, <1>2

(* When the divider for q quanta would be more than the largest, m, there  *)
(* is a larger number of quanta with one within m as close as any that q   *)
(* can have: the first that has a divider within m has one of l or more,   *)
(* and there the dividers are close enough to each other.                  *)
LEMMA AtTheEdge ==
  ASSUME NEW c \in Nat, NEW r \in Nat \ {0}, NEW m \in Nat \ {0}, NEW lo \in Nat \ {0}, NEW l \in Nat \ {0},
         l < m, m <= 2 * l, 3 * m <= 4 * l + 4, 2 * m <= r, l * (lo + 1) <= (m + 1) * lo,
         NEW q \in lo .. 25, m + 1 <= Rounded(c, r, q),
         NEW k \in lo .. 25, Rounded(c, r, k) <= m,
         NEW b \in 1 .. m
  PROVE  \E n \in lo .. 25, d \in 1 .. m :
           /\ d = Rounded(c, r, n) \/ d = Rounded(c, r, n) + 1
           /\ RateError(c, r, d, n) <= RateError(c, r, b, q)
<1> DEFINE T == {n \in lo .. 25 : Rounded(c, r, n) <= m}
<1>1. T \in SUBSET Nat /\ T # {}
  OBVIOUS
<1>2. PICK n \in T : \A y \in T : n <= y
  BY <1>1, Smallest
<1>3. n \in lo .. 25 /\ Rounded(c, r, n) <= m /\ n \in Nat \ {0} /\ q \in Nat \ {0}
  OBVIOUS
<1>4. Rounded(c, r, n) \in Nat /\ Rounded(c, r, q) \in Nat
  BY <1>3, RoundedIs
<1>5. q <= n /\ n - 1 \in lo .. 25 /\ n - 1 \in Nat \ {0}
  <2>1. ASSUME n <= q PROVE FALSE
    <3>1. Rounded(c, r, q) <= Rounded(c, r, n)
      BY <1>3, <2>1, FewerQuanta
    <3> QED
      BY <1>3, <1>4, <3>1
  <2> QED
    BY <1>3, <2>1
<1> DEFINE R == Rounded(c, r, n)
           p == n - 1
<1>6. Rounded(c, r, p) >= m + 1 /\ Rounded(c, r, p) \in Nat
  <2>1. p \notin T
    BY <1>2, <1>3, <1>5
  <2>2. ~ (Rounded(c, r, p) <= m)
    BY <1>5, <2>1
  <2>3. Rounded(c, r, p) \in Nat
    BY <1>5, RoundedIs
  <2> QED
    BY <2>2, <2>3
<1>7. l <= R
  <2>1. (m + 1) * (p * r) <= c
    <3>1. p \in Nat \ {0}
      BY <1>5
    <3> HIDE DEF p
    <3>2. Rounded(c, r, p) * (p * r) <= c /\ p * r \in Nat
      BY <3>1, RoundedIs
    <3>3. (m + 1) * (p * r) <= Rounded(c, r, p) * (p * r)
      BY <1>6, <3>2, ProductGrows
    <3>4. (m + 1) * (p * r) \in Nat /\ Rounded(c, r, p) * (p * r) \in Nat
      BY <1>6, <3>2, ProductIn
    <3> QED
      BY <3>2, <3>3, <3>4
  <2>2. l * n <= (m + 1) * p
    <3> DEFINE j == n - 1 - lo
    <3>1. j \in Nat /\ n = lo + 1 + j /\ p = lo + j
      BY <1>3, <1>5
    <3> HIDE DEF j, p
    <3>2. l * n = l * (lo + 1) + l * j /\ (m + 1) * p = (m + 1) * lo + (m + 1) * j
      BY <3>1, SMT
    <3>3. l * j <= (m + 1) * j
      BY <3>1, ProductGrows
    <3>4. l * (lo + 1) \in Nat /\ l * j \in Nat /\ (m + 1) * lo \in Nat /\ (m + 1) * j \in Nat
      BY <3>1, SMT
    <3> QED
      BY <3>2, <3>3, <3>4
  <2>3. p \in Nat
    BY <1>5
  <2> HIDE DEF p
  <2>4. (l * n) * r <= ((m + 1) * p) * r
    <3>1. l * n \in Nat /\ (m + 1) * p \in Nat
      BY <1>3, <2>3, ProductIn
    <3> QED
      BY <2>2, <3>1, ProductGrows
  <2>5. (l * n) * r = l * (n * r) /\ ((m + 1) * p) * r = (m + 1) * (p * r)
    BY <1>3, <2>3, ProductAssociates
  <2>6. n * r \in Nat \ {0}
    BY <1>3, ProductPositive
  <2>7. l * (n * r) \in Nat /\ (m + 1) * (p * r) \in Nat
    BY <1>3, <2>3, SMT
  <2>8. l * (n * r) <= c
    BY <2>1, <2>4, <2>5, <2>7
  <2> QED
    BY <2>6, <2>8, AtLeast DEF Rounded
<1>8. /\ RateError(c, r, b, q) >= r \div m /\ RateError(c, r, b, q) >= RateError(c, r, m, q)
      /\ RateError(c, r, b, q) \in Nat /\ RateError(c, r, m, q) \in Nat /\ r \div m \in Nat
  <2>1. b \in Nat \ {0}
    OBVIOUS
  <2> QED
    BY <1>3, <2>1, FarOff, ErrorIs, QuotientIs
<1>9. CASE R = m
  <2>1. m <= Rounded(c, r, n) /\ m <= Rounded(c, r, q)
    BY <1>4, <1>9
  <2>2. /\ RateError(c, r, m, n) = c \div (m * n) - r /\ c \div (m * n) \in Nat
        /\ RateError(c, r, m, q) = c \div (m * q) - r /\ c \div (m * q) \in Nat
    BY <1>3, <2>1, HighRate
  <2>3. q <= n
    BY <1>5
  <2>4. c \div (m * n) <= c \div (m * q)
    <3>1. q * m <= n * m
      BY <1>3, <2>3, ProductGrows
    <3>2. m * q <= m * n /\ m * q \in Nat \ {0} /\ m * n \in Nat \ {0}
      BY <1>3, <3>1, ProductIn, ProductPositive
    <3> QED
      BY <3>2, QuotientShrinks
  <2>5. RateError(c, r, m, n) <= RateError(c, r, m, q)
    BY <2>2, <2>4
  <2>6. RateError(c, r, m, n) <= RateError(c, r, b, q)
    <3>1. RateError(c, r, m, n) \in Nat
      BY <1>3, ErrorIs
    <3> QED
      BY <1>8, <2>5, <3>1
  <2>7. m \in 1 .. m /\ m = Rounded(c, r, n)
    BY <1>9
  <2> QED
    BY <1>3, <2>6, <2>7
<1>10. CASE R # m
  <2>1. R \in Nat \ {0} /\ R \in 1 .. m /\ R + 1 \in 1 .. m /\ R + 1 \in Nat \ {0}
    BY <1>3, <1>4, <1>7, <1>10
  <2>2. R = Rounded(c, r, n)
    OBVIOUS
  <2> HIDE DEF R
  <2>3. RateError(c, r, R, n) \in Nat
    BY <1>3, <2>1, ErrorIs
  <2>4. RateError(c, r, R + 1, n) \in Nat
    <3> DEFINE s == R + 1
    <3>1. s \in Nat \ {0}
      BY <2>1
    <3> HIDE DEF s
    <3>2. RateError(c, r, s, n) \in Nat
      BY <1>3, <3>1, ErrorIs
    <3> QED
      BY <3>2 DEF s
  <2>5. CASE 2 * (RateError(c, r, R, n) * R) <= r
    <3>1. RateError(c, r, R, n) <= r \div m
      BY <1>7, <2>1, <2>3, <2>5, SmallStepBelow
    <3>2. RateError(c, r, R, n) <= RateError(c, r, b, q)
      BY <1>8, <2>3, <3>1
    <3> QED
      BY <1>3, <2>1, <2>2, <3>2
  <2>6. CASE 2 * ((RateError(c, r, R + 1, n) - 1) * (R + 1)) < r
    <3>1. RateError(c, r, R + 1, n) <= r \div m
      BY <1>7, <2>1, <2>4, <2>6, SmallStepAbove
    <3>2. RateError(c, r, R + 1, n) <= RateError(c, r, b, q)
      BY <1>8, <2>4, <3>1
    <3> QED
      BY <1>3, <2>1, <2>2, <3>2
  <2>7. \/ 2 * (RateError(c, r, R, n) * R) <= r
        \/ 2 * ((RateError(c, r, R + 1, n) - 1) * (R + 1)) < r
    BY <1>3, <2>1, <2>2, HalfAStep
  <2> QED
    BY <2>5, <2>6, <2>7
<1> QED
  BY <1>9, <1>10

DenseEnough(m, lo, l, r) ==
  l < m /\ m <= 2 * l /\ 3 * m <= 4 * l + 4 /\ 2 * m <= r /\ l * (lo + 1) <= (m + 1) * lo

(* If the search may use a divider within m, it looks at one as close as   *)
(* any.                                                                    *)
LEMMA CloseEnough ==
  ASSUME NEW c \in Nat, NEW r \in Nat \ {0}, NEW m \in Nat \ {0}, NEW lo \in Nat \ {0}, NEW l \in Nat \ {0},
         DenseEnough(m, lo, l, r),
         NEW q \in lo .. 25, NEW k \in lo .. 25, Rounded(c, r, k) <= m,
         NEW b \in 1 .. m
  PROVE  \E n \in lo .. 25, d \in 1 .. m :
           /\ d = Rounded(c, r, n) \/ d = Rounded(c, r, n) + 1
           /\ RateError(c, r, d, n) <= RateError(c, r, b, q)
<1> DEFINE R == Rounded(c, r, q)
<1>1. q \in Nat \ {0} /\ b \in Nat \ {0} /\ R \in Nat
  <2>1. q \in Nat \ {0} /\ b \in Nat \ {0}
    OBVIOUS
  <2> QED
    BY <2>1, RoundedIs
<1>2. R = Rounded(c, r, q)
  OBVIOUS
<1> HIDE DEF R
<1>3. CASE m + 1 <= R
  BY <1>2, <1>3, AtTheEdge DEF DenseEnough
<1>4. CASE R <= m /\ b <= R
  <2>1. R \in 1 .. m /\ R \in Nat \ {0} /\ R <= Rounded(c, r, q)
    BY <1>1, <1>2, <1>4
  <2>2. RateError(c, r, R, q) <= RateError(c, r, b, q)
    BY <1>1, <1>4, <2>1, CloserBelow
  <2> QED
    BY <1>2, <2>1, <2>2
<1>5. CASE R <= m /\ R < b
  <2> DEFINE s == R + 1
  <2>1. s \in 1 .. m /\ s \in Nat \ {0} /\ s = Rounded(c, r, q) + 1 /\ s <= b /\ s >= Rounded(c, r, q) + 1
    BY <1>1, <1>2, <1>5
  <2> HIDE DEF s
  <2>2. RateError(c, r, s, q) <= RateError(c, r, b, q)
    BY <1>1, <2>1, CloserAbove
  <2> QED
    BY <2>1, <2>2
<1> QED
  BY <1>1, <1>3, <1>4, <1>5

(* The half quanta of lo to 25 quanta.                                     *)
Halves(lo) == 2 * lo - 2 .. 49

Tried(c, r, lo, n, d) == \E h \in Halves(lo) : Divider(c, r, h) = d /\ Quanta(h) = n

LEMMA HalfFor ==
  ASSUME NEW c \in Nat, NEW r \in Nat \ {0}, NEW lo \in 1 .. 25, NEW n \in lo .. 25,
         NEW d \in Nat, d = Rounded(c, r, n) \/ d = Rounded(c, r, n) + 1
  PROVE  Tried(c, r, lo, n, d)
<1>1. n \in 1 .. 25
  OBVIOUS
<1>2. /\ Quanta(2 * n - 2) = n /\ Divider(c, r, 2 * n - 2) = Rounded(c, r, n)
      /\ Quanta(2 * n - 1) = n /\ Divider(c, r, 2 * n - 1) = Rounded(c, r, n) + 1
  BY <1>1, HalvesOf
<1>3. 2 * n - 2 \in Halves(lo) /\ 2 * n - 1 \in Halves(lo)
  BY DEF Halves
<1> QED
  BY <1>2, <1>3, Zenon DEF Tried

(* The best uses a divider it may, and is as close as any divider within m.*)
Closest(best, c, r, m, lo, dividers) ==
  \E g \in Halves(lo) :
    /\ Divider(c, r, g) \in dividers
    /\ best = [error |-> RateError(c, r, Divider(c, r, g), Quanta(g)), tseg |-> g \div 2, brp |-> Divider(c, r, g)]
    /\ \A b \in 1 .. m, q \in lo .. 25 : RateError(c, r, Divider(c, r, g), Quanta(g)) <= RateError(c, r, b, q)

LEMMA BestIsClosest ==
  ASSUME NEW c \in Nat, NEW r \in Nat \ {0}, NEW m \in Nat \ {0}, NEW lo \in 1 .. 25, NEW l \in Nat \ {0},
         DenseEnough(m, lo, l, r),
         NEW dividers \in SUBSET (Nat \ {0}), 1 .. m \subseteq dividers,
         \E h \in Halves(lo) : Divider(c, r, h) \in dividers,
         \E k \in lo .. 25 : Rounded(c, r, k) <= m
  PROVE  Closest(Best(c, r, Halves(lo), dividers), c, r, m, lo, dividers)
<1> DEFINE halves == Halves(lo)
           usable == {i \in halves : Divider(c, r, i) \in dividers}
           E(i) == RateError(c, r, Divider(c, r, i), Quanta(i))
<1>h. PICK h \in Halves(lo) : Divider(c, r, h) \in dividers
  OBVIOUS
<1>k. PICK k \in lo .. 25 : Rounded(c, r, k) <= m
  OBVIOUS
<1>1. halves \in SUBSET (0 .. 49) /\ h \in usable
  BY <1>h DEF Halves
<1>2. PICK g \in usable :
        /\ Best(c, r, halves, dividers) = [error |-> E(g), tseg |-> g \div 2, brp |-> Divider(c, r, g)]
        /\ \A i \in usable : E(g) <= E(i)
  <2>1. usable = {i \in halves : Divider(c, r, i) \in dividers} /\ usable # {}
    BY <1>1
  <2>2. halves \in SUBSET (0 .. 49)
    BY <1>1
  <2> HIDE DEF halves, usable
  <2>3. \E g \in usable :
          /\ Best(c, r, halves, dividers) =
               [error |-> RateError(c, r, Divider(c, r, g), Quanta(g)), tseg |-> g \div 2, brp |-> Divider(c, r, g)]
          /\ \A i \in usable : RateError(c, r, Divider(c, r, g), Quanta(g)) <= RateError(c, r, Divider(c, r, i), Quanta(i))
    BY <2>1, <2>2, BestIs
  <2> QED
    BY <2>3
<1>3. ASSUME NEW b \in 1 .. m, NEW q \in lo .. 25 PROVE E(g) <= RateError(c, r, b, q)
  <2>1. PICK n \in lo .. 25, d \in 1 .. m :
           /\ d = Rounded(c, r, n) \/ d = Rounded(c, r, n) + 1
           /\ RateError(c, r, d, n) <= RateError(c, r, b, q)
    <3>1. lo \in Nat \ {0}
      OBVIOUS
    <3> QED
      BY <1>k, <3>1, CloseEnough
  <2>2. d \in Nat /\ d \in dividers /\ d \in Nat \ {0} /\ n \in Nat \ {0} /\ q \in Nat \ {0} /\ b \in Nat \ {0}
    OBVIOUS
  <2>3. PICK i \in halves : Divider(c, r, i) = d /\ Quanta(i) = n
    <3>1. d = Rounded(c, r, n) \/ d = Rounded(c, r, n) + 1
      BY <2>1
    <3>2. Tried(c, r, lo, n, d)
      BY <2>2, <3>1, HalfFor
    <3> QED
      BY <3>2 DEF Tried
  <2>4. i \in usable /\ E(i) = RateError(c, r, d, n)
    BY <2>2, <2>3
  <2>5. E(g) <= E(i)
    BY <1>2, <2>4
  <2>6. E(g) \in Nat
    <3>1. g \in 0 .. 49 /\ Divider(c, r, g) \in Nat \ {0}
      BY <1>1
    <3>2. Quanta(g) \in 1 .. 25
      BY <3>1, DividersAre
    <3>3. Quanta(g) \in Nat \ {0}
      BY <3>2
    <3> QED
      BY <3>1, <3>3, ErrorIs
  <2>7. RateError(c, r, d, n) \in Nat /\ RateError(c, r, b, q) \in Nat
    BY <2>2, ErrorIs
  <2> HIDE DEF E
  <2> QED
    BY <2>1, <2>4, <2>5, <2>6, <2>7
<1> QED
  BY <1>2, <1>3 DEF Closest

NothingFound == [error |-> WorstError, tseg |-> 0, brp |-> 0]

LEMMA OccanSearch ==
  ASSUME NEW c \in Nat, NEW r \in Nat \ {0}, r >= 128,
         NEW best, best = Best(c, r, Halves(3), OccanDividers)
  PROVE  \/ Closest(best, c, r, 64, 3, OccanDividers)
         \/ best = NothingFound /\ c \div (64 * 25) > r
<1> DEFINE usable == {i \in Halves(3) : Divider(c, r, i) \in OccanDividers}
<1>1. OccanDividers \in SUBSET (Nat \ {0}) /\ 1 .. 64 \subseteq OccanDividers /\ Halves(3) \in SUBSET (0 .. 49)
  BY DEF OccanDividers, Halves
<1>2. DenseEnough(64, 3, 48, r) /\ 64 \in Nat \ {0} /\ 48 \in Nat \ {0} /\ 3 \in 1 .. 25
  BY DEF DenseEnough
<1>3. CASE usable # {}
  <2>1. PICK h \in Halves(3) : Divider(c, r, h) \in OccanDividers
    BY <1>3
  <2>2. h \in 0 .. 49 /\ Quanta(h) \in 3 .. 25
    <3>1. h \in 4 .. 49
      BY DEF Halves
    <3> QED
      BY <3>1 DEF Quanta
  <2>3. /\ Rounded(c, r, Quanta(h)) \in Nat
        /\ Divider(c, r, h) = Rounded(c, r, Quanta(h)) \/ Divider(c, r, h) = Rounded(c, r, Quanta(h)) + 1
    <3>1. Quanta(h) \in Nat \ {0}
      BY <2>2
    <3> QED
      BY <2>2, <3>1, DividersAre, RoundedIs
  <2>4. Rounded(c, r, Quanta(h)) <= 64
    BY <2>1, <2>3 DEF OccanDividers
  <2> QED
    BY <1>1, <1>2, <2>1, <2>2, <2>4, BestIsClosest
<1>4. CASE usable = {}
  <2>1. best = NothingFound
    BY <1>1, <1>4, BestIs DEF NothingFound
  <2> DEFINE R == Rounded(c, r, 25)
  <2>2. 25 \in 1 .. 25 /\ 25 \in Nat \ {0} /\ 2 * 25 - 2 \in Halves(3) /\ 2 * 25 - 1 \in Halves(3)
    BY DEF Halves
  <2>3. Divider(c, r, 2 * 25 - 2) = R /\ Divider(c, r, 2 * 25 - 1) = R + 1 /\ R \in Nat
    BY <2>2, HalvesOf, RoundedIs
  <2>4. R \notin OccanDividers /\ R + 1 \notin OccanDividers
    BY <1>4, <2>2, <2>3
  <2>5. R >= 64 + 1
    BY <2>3, <2>4 DEF OccanDividers
  <2>6. RateError(c, r, 64, 25) >= r \div 64 /\ r \div 64 >= 1
    <3>1. 64 \in 1 .. 64
      OBVIOUS
    <3>2. RateError(c, r, 64, 25) >= r \div 64
      BY <1>2, <2>2, <2>5, <3>1, FarOff
    <3> QED
      BY <3>2
  <2>7. RateError(c, r, 64, 25) = c \div (64 * 25) - r /\ c \div (64 * 25) \in Nat
    <3>1. 64 <= Rounded(c, r, 25)
      BY <2>3, <2>5
    <3> QED
      BY <1>2, <2>2, <3>1, HighRate
  <2> DEFINE x == c \div (64 * 25)
             y == r \div 64
             e == RateError(c, r, 64, 25)
  <2>8. x \in Nat /\ e = x - r /\ e >= y /\ y >= 1 /\ y \in Nat
    BY <2>6, <2>7
  <2> HIDE DEF x, y, e
  <2>9. x > r
    BY <2>8
  <2> QED
    BY <2>1, <2>9 DEF x
<1> QED
  BY <1>3, <1>4

(* Either of the two is at most a step of the divider away.                *)
LEMMA AStep ==
  ASSUME NEW c \in Nat, NEW r \in Nat \ {0}, NEW q \in Nat \ {0}, NEW d \in Nat \ {0},
         d = Rounded(c, r, q) \/ d = Rounded(c, r, q) + 1
  PROVE  (RateError(c, r, d, q) - 1) * d < r
<1> DEFINE R == Rounded(c, r, q)
           E == RateError(c, r, d, q)
           H == c \div (d * q)
<1>1. R \in Nat /\ R * (q * r) <= c /\ c < (R + 1) * (q * r) /\ q * r \in Nat \ {0}
  BY RoundedIs
<1>2. d * q \in Nat \ {0} /\ H \in Nat /\ H * (d * q) <= c /\ c < (H + 1) * (d * q)
  <2>1. d * q \in Nat \ {0}
    BY ProductPositive
  <2> QED
    BY <2>1, QuotientIs
<1>3. CASE d = R
  <2>1. H >= r /\ E = H - r
    <3>1. d <= Rounded(c, r, q)
      BY <1>3, <1>1
    <3> QED
      BY <3>1, HighRate
  <2> HIDE DEF R, E, H
  <2>2. (E * d) * q + d * (q * r) = H * (d * q) /\ (d + 1) * (q * r) = d * (q * r) + r * q
    BY <1>2, <2>1, SMT
  <2>3. (E * d) * q < r * q
    BY <1>1, <1>2, <1>3, <2>1, <2>2, SMT
  <2>4. E * d \in Nat /\ E \in Nat
    BY <1>2, <2>1, SMT
  <2>5. E * d < r
    BY <2>3, <2>4, ProductShrinks
  <2>6. (E - 1) * d = E * d - d
    BY <2>4, SMT
  <2> QED
    BY <2>4, <2>5, <2>6 DEF E
<1>4. CASE d = R + 1
  <2>1. H < r /\ E = r - H
    <3>1. d >= Rounded(c, r, q) + 1
      BY <1>4, <1>1
    <3> QED
      BY <3>1, LowRate
  <2> HIDE DEF R, E, H
  <2>2. ((E - 1) * d) * q + (H + 1) * (d * q) = d * (q * r) /\ d * (q * r) = R * (q * r) + r * q
    BY <1>1, <1>2, <1>4, <2>1, SMT
  <2>3. ((E - 1) * d) * q < r * q
    BY <1>1, <1>2, <2>1, <2>2, SMT
  <2>4. (E - 1) * d \in Nat
    BY <1>2, <2>1, SMT
  <2> QED
    BY <2>3, <2>4, ProductShrinks DEF E
<1> HIDE DEF R
<1>5. d = R \/ d = R + 1
  BY DEF R
<1> QED
  BY <1>3, <1>4, <1>5

(* A rate the list has: one step of a divider from 258 on is less than the *)
(* error that 256 makes when the divider should be larger.                 *)
Tells258(r) == r >= 512 /\ \A e \in Nat : 258 * e < r => 256 * (e + 1) <= r

LEMMA GrcanSearch ==
  ASSUME NEW c \in Nat, NEW r \in Nat \ {0}, Tells258(r),
         NEW best, best = Best(c, r, Halves(6), GrcanDividers)
  PROVE  \/ Closest(best, c, r, 256, 6, GrcanDividers)
         \/ best = NothingFound /\ \A b \in 1 .. 256, q \in 6 .. 25 : 10 * RateError(c, r, b, q) > r
<1> DEFINE usable == {i \in Halves(6) : Divider(c, r, i) \in GrcanDividers}
<1>1. GrcanDividers \in SUBSET (Nat \ {0}) /\ 1 .. 256 \subseteq GrcanDividers /\ Halves(6) \in SUBSET (0 .. 49)
  <2>1. GrcanDividers \in SUBSET (Nat \ {0})
    BY SMTT(30) DEF GrcanDividers
  <2>2. 1 .. 256 \subseteq GrcanDividers
    BY DEF GrcanDividers
  <2>3. Halves(6) \in SUBSET (0 .. 49)
    BY DEF Halves
  <2> QED
    BY <2>1, <2>2, <2>3
<1>2. DenseEnough(256, 6, 220, r) /\ 256 \in Nat \ {0} /\ 220 \in Nat \ {0} /\ 6 \in 1 .. 25
  BY DEF DenseEnough, Tells258
<1>3. ASSUME NEW q \in 6 .. 25
      PROVE  /\ q \in 1 .. 25 /\ q \in Nat \ {0} /\ Rounded(c, r, q) \in Nat
             /\ 2 * q - 2 \in Halves(6) /\ 2 * q - 1 \in Halves(6)
             /\ Divider(c, r, 2 * q - 2) = Rounded(c, r, q) /\ Divider(c, r, 2 * q - 1) = Rounded(c, r, q) + 1
  <2>1. q \in 1 .. 25 /\ q \in Nat \ {0} /\ 2 * q - 2 \in Halves(6) /\ 2 * q - 1 \in Halves(6)
    BY DEF Halves
  <2> QED
    BY <2>1, HalvesOf, RoundedIs, ZenonT(60)
<1>4. CASE \E k \in 6 .. 25 : Rounded(c, r, k) <= 256
  <2>1. PICK k \in 6 .. 25 : Rounded(c, r, k) <= 256
    BY <1>4
  <2> DEFINE R == Rounded(c, r, k)
  <2>2. R \in Nat /\ R <= 256
    BY <1>3, <2>1
  <2>3. R \in 1 .. 256 \/ R + 1 \in 1 .. 256
    BY <2>2
  <2>4. \E h \in Halves(6) : Divider(c, r, h) \in GrcanDividers
    BY <1>1, <1>3, <2>3
  <2>5. PICK h \in Halves(6) : Divider(c, r, h) \in GrcanDividers
    BY <2>4
  <2> HIDE DEF R
  <2>6. Closest(Best(c, r, Halves(6), GrcanDividers), c, r, 256, 6, GrcanDividers)
    <3>1. PICK m, lo, l : m = 256 /\ lo = 6 /\ l = 220
      OBVIOUS
    <3>2. /\ m \in Nat \ {0} /\ lo \in 1 .. 25 /\ l \in Nat \ {0} /\ DenseEnough(m, lo, l, r)
          /\ GrcanDividers \in SUBSET (Nat \ {0}) /\ 1 .. m \subseteq GrcanDividers
      BY <1>1, <1>2, <3>1
    <3>3. \E g \in Halves(lo) : Divider(c, r, g) \in GrcanDividers
      BY <2>5, <3>1
    <3>4. \E n \in lo .. 25 : Rounded(c, r, n) <= m
      BY <2>1, <3>1
    <3>5. Closest(Best(c, r, Halves(lo), GrcanDividers), c, r, m, lo, GrcanDividers)
      BY <3>2, <3>3, <3>4, BestIsClosest
    <3> QED
      BY <3>1, <3>5
  <2> QED
    BY <2>6
<1>5. CASE \A k \in 6 .. 25 : ~ (Rounded(c, r, k) <= 256)
  <2>1. ASSUME NEW b \in 1 .. 256, NEW q \in 6 .. 25
        PROVE  /\ b \in Nat \ {0} /\ RateError(c, r, b, q) \in Nat
               /\ RateError(c, r, b, q) >= r \div 256 /\ RateError(c, r, b, q) >= RateError(c, r, 256, q)
               /\ RateError(c, r, 256, q) \in Nat
    <3>1. 256 + 1 <= Rounded(c, r, q) /\ q \in Nat \ {0} /\ b \in Nat \ {0}
      BY <1>3, <1>5
    <3> QED
      BY <1>2, <3>1, FarOff, ErrorIs
  <2>2. CASE usable = {}
    <3>1. best = NothingFound
      BY <1>1, <2>2, BestIs, ZenonT(60) DEF NothingFound
    <3>2. ASSUME NEW b \in 1 .. 256, NEW q \in 6 .. 25
          PROVE  10 * RateError(c, r, b, q) > r
      <4> DEFINE R == Rounded(c, r, q)
      <4>1. R \in Nat /\ R >= 257 /\ R \notin GrcanDividers /\ R + 1 \notin GrcanDividers /\ q \in Nat \ {0}
        BY <1>3, <1>5, <2>2
      <4>2. R = Rounded(c, r, q)
        OBVIOUS
      <4> HIDE DEF R
      <4>3. R >= 512
        BY <4>1 DEF GrcanDividers
      <4>4. /\ RateError(c, r, 256, q) = c \div (256 * q) - r /\ c \div (256 * q) \in Nat
            /\ R * (q * r) <= c /\ q * r \in Nat \ {0} /\ 256 * q \in Nat \ {0}
        <5>1. 256 <= Rounded(c, r, q)
          BY <4>1, <4>2
        <5> QED
          <6>1. RateError(c, r, 256, q) = c \div (256 * q) - r /\ c \div (256 * q) \in Nat
            BY <1>2, <4>1, <5>1, HighRate
          <6>2. R * (q * r) <= c /\ q * r \in Nat \ {0}
            BY <4>1, <4>2, RoundedIs
          <6>3. 256 * q \in Nat \ {0}
            BY <4>1, ProductPositive
          <6> QED
            BY <6>1, <6>2, <6>3
      <4>5. 512 * (q * r) <= c
        <5>1. 512 * (q * r) <= R * (q * r)
          BY <4>1, <4>3, <4>4, ProductGrows
        <5>2. R * (q * r) \in Nat
          BY <4>1, <4>4, ProductIn
        <5> QED
          BY <4>4, <5>1, <5>2
      <4>6. 2 * r <= c \div (256 * q)
        <5>1. (2 * r) * (256 * q) = 512 * (q * r)
          BY <4>1, SMT
        <5>2. (2 * r) * (256 * q) <= c /\ 2 * r \in Nat
          BY <4>5, <5>1
        <5> QED
          BY <4>4, <5>2, AtLeast
      <4> DEFINE e == RateError(c, r, 256, q)
                 f == RateError(c, r, b, q)
                 x == c \div (256 * q)
      <4>7. e = x - r /\ x \in Nat /\ 2 * r <= x /\ f >= e /\ f \in Nat
        <5>1. e = x - r /\ x \in Nat
          BY <4>4, Zenon
        <5>2. 2 * r <= x
          BY <4>6, Zenon
        <5>3. f >= e /\ f \in Nat
          BY <2>1, Zenon
        <5> QED
          BY <5>1, <5>2, <5>3
      <4> HIDE DEF e, f, x
      <4>8. 10 * f > r
        BY <4>7
      <4> QED
        BY <4>8 DEF f
    <3> QED
      BY <3>1, <3>2
  <2>3. CASE usable # {}
    <3>1. PICK g \in usable :
            best = [error |-> RateError(c, r, Divider(c, r, g), Quanta(g)), tseg |-> g \div 2, brp |-> Divider(c, r, g)]
      <4>1. usable = {i \in Halves(6) : Divider(c, r, i) \in GrcanDividers}
        OBVIOUS
      <4> HIDE DEF usable
      <4>2. \E g \in usable :
              /\ Best(c, r, Halves(6), GrcanDividers) =
                   [error |-> RateError(c, r, Divider(c, r, g), Quanta(g)), tseg |-> g \div 2, brp |-> Divider(c, r, g)]
              /\ \A k \in usable : RateError(c, r, Divider(c, r, g), Quanta(g)) <= RateError(c, r, Divider(c, r, k), Quanta(k))
        BY <1>1, <2>3, <4>1, BestIs, ZenonT(60)
      <4> QED
        BY <4>2
    <3> DEFINE D == Divider(c, r, g)
               n == Quanta(g)
               e == RateError(c, r, D, n)
    <3>2. n \in 6 .. 25 /\ n \in Nat \ {0} /\ g \in 0 .. 49
      <4>1. g \in 10 .. 49
        BY DEF Halves
      <4> QED
        BY <4>1 DEF Quanta
    <3>3. D = Rounded(c, r, n) \/ D = Rounded(c, r, n) + 1
      BY <3>2, DividersAre
    <3>4. D \in GrcanDividers /\ D \in Nat /\ D >= 257
      BY <1>1, <1>3, <1>5, <3>2, <3>3
    <3>5. D = Divider(c, r, g) /\ n = Quanta(g)
      OBVIOUS
    <3> HIDE DEF D, n
    <3>6. D >= 258
      BY <3>4 DEF GrcanDividers
    <3>7. e \in Nat /\ (e - 1) * D < r
      <4>1. D \in Nat \ {0}
        BY <3>4
      <4> QED
        BY <3>2, <3>3, <4>1, ErrorIs, AStep
    <3>8. e = RateError(c, r, D, n)
      OBVIOUS
    <3> HIDE DEF e
    <3>9. 256 * e <= r
      <4>1. CASE e = 0
        BY <4>1
      <4>2. CASE e # 0
        <5> DEFINE f == e - 1
        <5>1. f \in Nat /\ f * D < r /\ e = f + 1
          BY <3>7, <4>2
        <5> HIDE DEF f
        <5>2. 258 * f <= D * f /\ D * f = f * D /\ D * f \in Nat
          BY <3>4, <3>6, <5>1, ProductGrows, ProductIn
        <5>3. 258 * f < r
          BY <5>1, <5>2
        <5> QED
          BY <5>1, <5>3 DEF Tells258
      <4> QED
        BY <4>1, <4>2
    <3>10. e <= r \div 256
      BY <3>7, <3>9
    <3>11. ASSUME NEW b \in 1 .. 256, NEW q \in 6 .. 25 PROVE e <= RateError(c, r, b, q)
      <4> DEFINE f == RateError(c, r, b, q)
                 y == r \div 256
      <4>1. f \in Nat /\ f >= y /\ e <= y /\ y \in Nat
        <5>1. f \in Nat /\ f >= y
          BY <2>1
        <5>2. y \in Nat
          BY QuotientIs
        <5> QED
          BY <3>10, <5>1, <5>2
      <4> HIDE DEF f, y
      <4>2. e <= f
        BY <3>7, <4>1
      <4> QED
        BY <4>2 DEF f
    <3> QED
      BY <3>1, <3>4, <3>5, <3>8, <3>11, Zenon DEF Closest
  <2> QED
    BY <2>2, <2>3
<1> QED
  BY <1>4, <1>5

-----------------------------------------------------------------------------
(* The registers: what is cut to a field comes back out of it.             *)
LEMMA TooFarIs ==
  ASSUME NEW r \in Nat, NEW best, best.error \in Nat
  PROVE  TooFar(best, r) <=> 10 * best.error > r
<1> DEFINE e == best.error
<1>1. CASE e = 0
  BY <1>1 DEF TooFar
<1>2. CASE e # 0
  <2>1. e \in Nat \ {0}
    BY <1>2
  <2>2. e = best.error
    OBVIOUS
  <2> HIDE DEF e
  <2>3. r \div e \in Nat
    BY <2>1, QuotientIs
  <2>4. r < 10 * e => r \div e < 10
    BY <2>1, LessThan
  <2>5. 10 * e <= r => 10 <= r \div e
    BY <2>1, AtLeast
  <2>6. r \div e < 10 <=> 10 * e > r
    BY <2>1, <2>3, <2>4, <2>5
  <2> QED
    BY <2>1, <2>2, <2>6 DEF TooFar
<1> QED
  BY <1>1, <1>2

LEMMA OccanSegments ==
  ASSUME NEW tseg \in 2 .. 24, NEW sp \in {75, 80}
  PROVE  LET segs == Segments(tseg, sp, 0, 15, 7) IN
           segs.tseg1 \in 0 .. 15 /\ segs.tseg2 \in 0 .. 7 /\ segs.tseg1 + segs.tseg2 = tseg - 2
  BY SMTT(60) DEF Segments, Clamp

LEMMA GrcanSegments ==
  ASSUME NEW tseg \in 5 .. 24, NEW sp \in {75, 80}
  PROVE  LET segs == Segments(tseg, sp, 2, 14, 8) IN
           segs.tseg1 \in 0 .. 14 /\ segs.tseg2 \in 2 .. 8 /\ segs.tseg1 + segs.tseg2 = tseg - 2
  BY SMTT(60) DEF Segments, Clamp

Rates == {1000000, 800000, 500000, 250000, 125000, 75000, 50000, 25000, 10000}

LEMMA RatesAre ==
  ASSUME NEW r \in Rates
  PROVE  /\ r \in Nat \ {0} /\ r >= 128 /\ RateAllowed(r) /\ Tells258(r)
         /\ WorstError \in Nat /\ 10 * WorstError > r
<1>1. r \in Nat \ {0} /\ r >= 512 /\ r <= 1000000 /\ r >= 5000
  BY SMT DEF Rates
<1>4. WorstError \in Nat /\ 10 * WorstError > r
  BY <1>1, SMT DEF WorstError
<1>3. RateAllowed(r)
  BY <1>1, SMT DEF RateAllowed
<1>2. \A e \in Nat : 258 * e < r => 256 * (e + 1) <= r
  BY SMT DEF Rates
<1> QED
  BY <1>1, <1>2, <1>3, <1>4, SMT DEF Tells258

LEMMA ListHasRates == Len(steplist) = 9 /\ \A i \in 1 .. 9 : steplist[i] \in Rates
<1>1. Len(steplist) = 9
  BY SMT DEF steplist
<1>2. ASSUME NEW i \in 1 .. 9 PROVE steplist[i] \in Rates
  <2>1. i = 1 \/ i = 2 \/ i = 3 \/ i = 4 \/ i = 5 \/ i = 6 \/ i = 7 \/ i = 8 \/ i = 9
    BY SMT
  <2> QED
    BY <2>1, SMT DEF steplist, Rates
<1> QED
  BY <1>1, <1>2

LEMMA Btr0Fields ==
  ASSUME NEW b \in 1 .. 64, NEW sjw \in 0 .. 1
  PROVE  sjw * 64 + ((b - 1) % 64) \in 0 .. 255 /\ ((sjw * 64 + ((b - 1) % 64)) % 64) + 1 = b
<1>1. (b - 1) % 64 = b - 1
  BY SMT
<1>2. (sjw * 64 + (b - 1)) % 64 = b - 1
  BY SMT
<1> QED
  BY <1>1, <1>2, SMT

LEMMA Btr1Fields ==
  ASSUME NEW t1 \in 0 .. 15, NEW t2 \in 0 .. 7
  PROVE  t2 * 16 + t1 \in 0 .. 127 /\ 3 + ((t2 * 16 + t1) % 16) + (((t2 * 16 + t1) \div 16) % 8) = t1 + t2 + 3
<1>1. (t2 * 16 + t1) % 16 = t1 /\ (t2 * 16 + t1) \div 16 = t2 /\ t2 % 8 = t2
  BY SMT
<1> QED
  BY <1>1, SMT

LEMMA GrcanFields ==
  ASSUME NEW b \in GrcanDividers
  PROVE  LET bpr == Bpr(b - 1)
             scaler == b \div Prescalers[bpr + 1] - 1
         IN  /\ b \in Nat \ {0} /\ bpr \in 0 .. 3 /\ scaler \in 0 .. 255
             /\ scaler + 1 \in Nat \ {0} /\ Prescalers[bpr + 1] \in Nat \ {0}
             /\ (scaler + 1) * Prescalers[bpr + 1] = b
<1> DEFINE bpr == Bpr(b - 1)
           scaler == b \div Prescalers[bpr + 1] - 1
<1>1. /\ b \in 1 .. 2048 /\ (b > 256 => b % 2 = 0) /\ (b > 512 => b % 4 = 0) /\ (b > 1024 => b % 8 = 0)
  BY SMT DEF GrcanDividers
<1>2. /\ b <= 256 => bpr = 0
      /\ b > 256 /\ b <= 512 => bpr = 1
      /\ b > 512 /\ b <= 1024 => bpr = 2
      /\ b > 1024 => bpr = 3
  BY <1>1, SMT DEF Bpr
<1> HIDE DEF bpr
<1> DEFINE Goal == /\ b \in Nat \ {0} /\ bpr \in 0 .. 3 /\ scaler \in 0 .. 255
                   /\ scaler + 1 \in Nat \ {0} /\ Prescalers[bpr + 1] \in Nat \ {0}
                   /\ (scaler + 1) * Prescalers[bpr + 1] = b
<1>3. Prescalers[0 + 1] = 1 /\ Prescalers[1 + 1] = 2 /\ Prescalers[2 + 1] = 4 /\ Prescalers[3 + 1] = 8
  BY SMT DEF Prescalers
<1>4. ASSUME b <= 256 PROVE Goal
  <2>1. bpr = 0 /\ Prescalers[bpr + 1] = 1 /\ b \div 1 = b
    BY <1>1, <1>2, <1>3, <1>4, SMT
  <2>2. scaler = b - 1
    BY <2>1
  <2> HIDE DEF scaler
  <2>3. Goal
    BY <1>1, <1>4, <2>1, <2>2, SMT
  <2> QED
    BY <2>3
<1>5. ASSUME b > 256 /\ b <= 512 PROVE Goal
  <2>1. bpr = 1 /\ Prescalers[bpr + 1] = 2
    BY <1>1, <1>2, <1>3, <1>5, SMT
  <2>2. scaler = b \div 2 - 1
    BY <2>1
  <2> HIDE DEF scaler
  <2>3. Goal
    BY <1>1, <1>5, <2>1, <2>2, SMT
  <2> QED
    BY <2>3
<1>6. ASSUME b > 512 /\ b <= 1024 PROVE Goal
  <2>1. bpr = 2 /\ Prescalers[bpr + 1] = 4
    BY <1>1, <1>2, <1>3, <1>6, SMT
  <2>2. scaler = b \div 4 - 1
    BY <2>1
  <2> HIDE DEF scaler
  <2>3. Goal
    BY <1>1, <1>6, <2>1, <2>2, SMT
  <2> QED
    BY <2>3
<1>7. ASSUME b > 1024 PROVE Goal
  <2>1. bpr = 3 /\ Prescalers[bpr + 1] = 8
    BY <1>1, <1>2, <1>3, <1>7, SMT
  <2>2. scaler = b \div 8 - 1
    BY <2>1
  <2> HIDE DEF scaler
  <2>3. Goal
    BY <1>1, <1>7, <2>1, <2>2, SMT
  <2> QED
    BY <2>3
<1>8. Goal
  BY <1>1, <1>4, <1>5, <1>6, <1>7, SMT
<1> QED
  BY <1>8, Zenon DEF bpr

OccanFound(core, r, regs) ==
  /\ regs.ret \in -2 .. 0
  /\ regs.ret = 0 => regs.btr0 \in 0 .. 255 /\ regs.btr1 \in 0 .. 127
  /\ regs.ret = 0 =>
       LET err == Abs(r - OccanRate(core, regs)) IN
         10 * err <= r /\ \A brp \in 1 .. 64, quanta \in 3 .. 25 : err <= RateError(core \div 2, r, brp, quanta)
  /\ regs.ret = -2 => \/ \A brp \in 1 .. 64, quanta \in 3 .. 25 : 10 * RateError(core \div 2, r, brp, quanta) > r
                      \/ (core \div 2) \div (64 * 25) > r

LEMMA OccanAnswers ==
  ASSUME NEW core \in Nat, NEW r \in Rates,
         NEW best, best = Best(core \div 2, r, 4 .. 49, OccanDividers),
         NEW segs, segs = Segments(best.tseg, SamplePoint(r, 80), 0, 15, 7),
         NEW sjw \in 0 .. 1,
         NEW regs, regs = IF ~RateAllowed(r) THEN [ret |-> -1, btr0 |-> 0, btr1 |-> 0]
           ELSE IF TooFar(best, r) THEN [ret |-> -2, btr0 |-> 0, btr1 |-> 0]
           ELSE [ret |-> 0, btr0 |-> (sjw * 64) + ((best.brp - 1) % 64), btr1 |-> segs.tseg2 * 16 + segs.tseg1]
  PROVE  OccanFound(core, r, regs)
<1> DEFINE c == core \div 2
<1>1. c \in Nat
  OBVIOUS
<1>2. r \in Nat \ {0} /\ r >= 128 /\ RateAllowed(r)
  BY RatesAre
<1>3. best = Best(c, r, Halves(3), OccanDividers)
  <2>1. Halves(3) = 4 .. 49
    BY DEF Halves
  <2> QED
    BY <2>1, Zenon
<1>c. c = core \div 2
  OBVIOUS
<1>4. CASE best = NothingFound /\ c \div (64 * 25) > r
  <2>1. best.error = WorstError
    BY <1>4 DEF NothingFound
  <2>2. best.error \in Nat /\ 10 * best.error > r
    BY <2>1, RatesAre, Zenon
  <2>3. TooFar(best, r)
    BY <1>2, <2>2, TooFarIs
  <2>4. regs.ret = -2
    BY <1>2, <2>3
  <2> HIDE DEF c
  <2>5. -2 \in -2 .. 0 /\ ~ (-2 = 0)
    OBVIOUS
  <2>6. (core \div 2) \div (64 * 25) > r
    BY <1>4, <1>c, Zenon
  <2> QED
    BY <2>4, <2>5, <2>6, Zenon DEF OccanFound
<1>5. CASE Closest(best, c, r, 64, 3, OccanDividers)
  <2>1. PICK g \in Halves(3) :
          /\ Divider(c, r, g) \in OccanDividers
          /\ best = [error |-> RateError(c, r, Divider(c, r, g), Quanta(g)), tseg |-> g \div 2, brp |-> Divider(c, r, g)]
          /\ \A b \in 1 .. 64, q \in 3 .. 25 : RateError(c, r, Divider(c, r, g), Quanta(g)) <= RateError(c, r, b, q)
    BY <1>5 DEF Closest
  <2> DEFINE B == Divider(c, r, g)
             n == Quanta(g)
             e == RateError(c, r, B, n)
  <2>2. B \in 1 .. 64 /\ B \in Nat \ {0}
    BY <2>1, SMTT(30) DEF OccanDividers
  <2>3. g \div 2 \in 2 .. 24 /\ n = g \div 2 + 1 /\ n \in Nat \ {0}
    <3>1. g \in 4 .. 49
      BY DEF Halves
    <3> QED
      BY <3>1 DEF Quanta
  <2>4. e \in Nat
    <3> HIDE DEF B, n
    <3> QED
      BY <1>1, <1>2, <2>2, <2>3, ErrorIs
  <2>5. best.error = e /\ best.tseg = g \div 2 /\ best.brp = B
    BY <2>1
  <2>6. \A b \in 1 .. 64, q \in 3 .. 25 : e <= RateError(c, r, b, q)
    BY <2>1
  <2>e. e = RateError(c, r, B, n)
    OBVIOUS
  <2> HIDE DEF c, B, n, e
  <2>7. CASE TooFar(best, r)
    <3>1. 10 * e > r
      BY <1>2, <2>4, <2>5, <2>7, TooFarIs
    <3>2. \A b \in 1 .. 64, q \in 3 .. 25 : 10 * RateError(c, r, b, q) > r
      <4>1. SUFFICES ASSUME NEW b \in 1 .. 64, NEW q \in 3 .. 25
                     PROVE  10 * RateError(c, r, b, q) > r
        OBVIOUS
      <4>2. b \in Nat \ {0} /\ q \in Nat \ {0}
        OBVIOUS
      <4>3. RateError(c, r, b, q) \in Nat
        BY <1>1, <1>2, <4>2, ErrorIs
      <4>4. e <= RateError(c, r, b, q)
        BY <2>6
      <4> QED
        BY <1>2, <2>4, <3>1, <4>3, <4>4, SMT
    <3>3. regs.ret = -2
      BY <1>2, <2>7, SMT
    <3> QED
      <4>1. -2 \in -2 .. 0 /\ ~ (-2 = 0)
        OBVIOUS
      <4>2. \A b \in 1 .. 64, q \in 3 .. 25 : 10 * RateError(core \div 2, r, b, q) > r
        BY <1>c, <3>2, Zenon
      <4> QED
        BY <3>3, <4>1, <4>2, Zenon DEF OccanFound
  <2>8. CASE ~ TooFar(best, r)
    <3>1. ~ (10 * e > r)
      BY <1>2, <2>4, <2>5, <2>8, TooFarIs
    <3>2. SamplePoint(r, 80) \in {75, 80}
      BY DEF SamplePoint
    <3>3. segs.tseg1 \in 0 .. 15 /\ segs.tseg2 \in 0 .. 7 /\ segs.tseg1 + segs.tseg2 = best.tseg - 2
      <4>1. best.tseg \in 2 .. 24
        BY <2>3, <2>5
      <4> QED
        BY <3>2, <4>1, OccanSegments
    <3> DEFINE t1 == segs.tseg1
               t2 == segs.tseg2
               v0 == sjw * 64 + ((B - 1) % 64)
               v1 == t2 * 16 + t1
    <3>5. regs = [ret |-> 0, btr0 |-> v0, btr1 |-> v1]
      BY <1>2, <2>5, <2>8, Zenon
    <3>6. /\ v0 \in 0 .. 255 /\ v1 \in 0 .. 127 /\ (v0 % 64) + 1 = B
          /\ 3 + (v1 % 16) + ((v1 \div 16) % 8) = best.tseg + 1
      <4>1. best.tseg \in 2 .. 24 /\ t1 \in 0 .. 15 /\ t2 \in 0 .. 7 /\ t1 + t2 = best.tseg - 2
        BY <2>3, <2>5, <3>3
      <4> HIDE DEF t1, t2
      <4>2. v0 \in 0 .. 255 /\ (v0 % 64) + 1 = B
        BY <2>2, Btr0Fields
      <4>3. v1 \in 0 .. 127 /\ 3 + (v1 % 16) + ((v1 \div 16) % 8) = t1 + t2 + 3
        BY <4>1, Btr1Fields
      <4>4. t1 + t2 + 3 = best.tseg + 1
        BY <4>1
      <4> QED
        BY <4>2, <4>3, <4>4
    <3> HIDE DEF v0, v1
    <3>7. regs.ret = 0 /\ regs.btr0 = v0 /\ regs.btr1 = v1
      BY <3>5
    <3>8. 3 + (v1 % 16) + ((v1 \div 16) % 8) = n
      BY <2>3, <2>5, <3>6
    <3>9. OccanRate(core, regs) = (c \div B) \div n
      BY <1>c, <3>6, <3>7, <3>8, ZenonT(60) DEF OccanRate
    <3>10. (c \div B) \div n = c \div (B * n)
      BY <1>1, <2>2, <2>3, QuotientOfQuotient
    <3>11. Abs(r - OccanRate(core, regs)) = e
      BY <2>e, <3>9, <3>10, Zenon DEF RateError
    <3>12. 10 * e <= r
      BY <1>2, <2>4, <3>1
    <3>13. \A b \in 1 .. 64, q \in 3 .. 25 : e <= RateError(core \div 2, r, b, q)
      BY <1>c, <2>6, Zenon
    <3>14. 0 \in -2 .. 0 /\ ~ (0 = -2)
      OBVIOUS
    <3> QED
      BY <3>6, <3>7, <3>11, <3>12, <3>13, <3>14, ZenonT(60) DEF OccanFound
  <2> QED
    BY <2>7, <2>8
<1> HIDE DEF c
<1> QED
  BY <1>1, <1>2, <1>3, <1>4, <1>5, OccanSearch

LEMMA OccanCalculated ==
  ASSUME NEW core \in Nat, NEW r \in Rates
  PROVE  OccanFound(core, r, occan_calc_speedregs(core, r))
<1> DEFINE best == Best(core \div 2, r, 4 .. 49, OccanDividers)
           segs == Segments(best.tseg, SamplePoint(r, 80), 0, 15, 7)
           sjw  == IF r < 112500 THEN 1 ELSE 0
           regs == IF ~RateAllowed(r) THEN [ret |-> -1, btr0 |-> 0, btr1 |-> 0]
             ELSE IF TooFar(best, r) THEN [ret |-> -2, btr0 |-> 0, btr1 |-> 0]
             ELSE [ret |-> 0, btr0 |-> (sjw * 64) + ((best.brp - 1) % 64), btr1 |-> segs.tseg2 * 16 + segs.tseg1]
<1>1. sjw \in 0 .. 1
  BY SMT
<1>2. occan_calc_speedregs(core, r) = regs
  BY SMT DEF occan_calc_speedregs
<1> HIDE DEF sjw
<1>4. OccanFound(core, r, regs)
  BY <1>1, OccanAnswers
<1> QED
  BY <1>2, <1>4

GrcanFound(core, r, timing) ==
  /\ timing.ret \in -2 .. 0
  /\ timing.ret = 0 =>
       /\ timing.scaler \in 0 .. 255 /\ timing.bpr \in 0 .. 3
       /\ timing.ps1 \in 1 .. 15 /\ timing.ps2 \in 2 .. 8
  /\ timing.ret = 0 =>
       LET err == Abs(r - GrcanRate(core, timing)) IN
         10 * err <= r /\ \A brp \in 1 .. 256, quanta \in 6 .. 25 : err <= RateError(core, r, brp, quanta)
  /\ timing.ret = -2 => \A brp \in 1 .. 256, quanta \in 6 .. 25 : 10 * RateError(core, r, brp, quanta) > r

LEMMA GrcanAnswers ==
  ASSUME NEW c \in Nat, NEW r \in Rates,
         NEW best, best = Best(c, r, 10 .. 49, GrcanDividers),
         NEW sp \in {75, 80},
         NEW segs, segs = Segments(best.tseg, sp, 2, 14, 8),
         NEW timing, timing =
           IF ~RateAllowed(r) THEN [ret |-> -1]
           ELSE IF TooFar(best, r) THEN [ret |-> -2]
           ELSE [ret |-> 0, scaler |-> best.brp \div Prescalers[Bpr(best.brp - 1) + 1] - 1, bpr |-> Bpr(best.brp - 1),
                 ps1 |-> segs.tseg1 + 1, ps2 |-> segs.tseg2, rsj |-> 1]
  PROVE  GrcanFound(c, r, timing)
<1>2. r \in Nat \ {0} /\ RateAllowed(r) /\ Tells258(r)
  BY RatesAre
<1>3. best = Best(c, r, Halves(6), GrcanDividers)
  <2>1. Halves(6) = 10 .. 49
    BY DEF Halves
  <2> QED
    BY <2>1, Zenon
<1>m. -2 \in -2 .. 0 /\ ~ (-2 = 0)
  OBVIOUS
<1>4. CASE best = NothingFound /\ \A b \in 1 .. 256, q \in 6 .. 25 : 10 * RateError(c, r, b, q) > r
  <2>1. best.error = WorstError
    BY <1>4, SMTT(30) DEF NothingFound
  <2>2. best.error \in Nat /\ 10 * best.error > r
    BY <2>1, RatesAre, Zenon
  <2>3. TooFar(best, r)
    BY <1>2, <2>2, TooFarIs
  <2>4. timing.ret = -2
    BY <1>2, <2>3
  <2> QED
    BY <1>4, <1>m, <2>4, Zenon DEF GrcanFound
<1>5. CASE Closest(best, c, r, 256, 6, GrcanDividers)
  <2>1. PICK g \in Halves(6) :
          /\ Divider(c, r, g) \in GrcanDividers
          /\ best = [error |-> RateError(c, r, Divider(c, r, g), Quanta(g)), tseg |-> g \div 2, brp |-> Divider(c, r, g)]
          /\ \A b \in 1 .. 256, q \in 6 .. 25 : RateError(c, r, Divider(c, r, g), Quanta(g)) <= RateError(c, r, b, q)
    BY <1>5 DEF Closest
  <2> DEFINE B == Divider(c, r, g)
             n == Quanta(g)
             e == RateError(c, r, B, n)
             bpr == Bpr(B - 1)
             P == Prescalers[bpr + 1]
             scaler == B \div P - 1
  <2>2. /\ B \in Nat \ {0} /\ bpr \in 0 .. 3 /\ scaler \in 0 .. 255
        /\ scaler + 1 \in Nat \ {0} /\ P \in Nat \ {0} /\ (scaler + 1) * P = B
    BY <2>1, GrcanFields
  <2>3. g \div 2 \in 5 .. 24 /\ n = g \div 2 + 1 /\ n \in Nat \ {0}
    <3>1. g \in 10 .. 49
      BY DEF Halves
    <3> QED
      BY <3>1 DEF Quanta
  <2>4. e \in Nat
    <3> HIDE DEF B, n
    <3> QED
      BY <1>2, <2>2, <2>3, ErrorIs, ZenonT(60)
  <2>5. best.error = e /\ best.tseg = g \div 2 /\ best.brp = B
    BY <2>1, SMTT(30)
  <2>6. \A b \in 1 .. 256, q \in 6 .. 25 : e <= RateError(c, r, b, q)
    BY <2>1
  <2>e. e = RateError(c, r, B, n)
    OBVIOUS
  <2> HIDE DEF B, n, e
  <2>7. CASE TooFar(best, r)
    <3>1. 10 * e > r
      BY <1>2, <2>4, <2>5, <2>7, TooFarIs
    <3>2. ASSUME NEW b \in 1 .. 256, NEW q \in 6 .. 25
          PROVE  10 * RateError(c, r, b, q) > r
      <4>2. b \in Nat \ {0} /\ q \in Nat \ {0}
        OBVIOUS
      <4>3. RateError(c, r, b, q) \in Nat
        BY <1>2, <4>2, ErrorIs
      <4>4. e <= RateError(c, r, b, q)
        BY <2>6
      <4> QED
        BY <1>2, <2>4, <3>1, <4>3, <4>4
    <3>3. timing.ret = -2
      BY <1>2, <2>7
    <3> QED
      BY <1>m, <3>2, <3>3, Zenon DEF GrcanFound
  <2>8. CASE ~ TooFar(best, r)
    <3>1. ~ (10 * e > r)
      BY <1>2, <2>4, <2>5, <2>8, TooFarIs
    <3> DEFINE t1 == segs.tseg1
               t2 == segs.tseg2
    <3>3. t1 \in 0 .. 14 /\ t2 \in 2 .. 8 /\ t1 + t2 = best.tseg - 2
      <4>1. best.tseg \in 5 .. 24
        BY <2>3, <2>5
      <4> QED
        BY <4>1, GrcanSegments
    <3>5. timing = [ret |-> 0, scaler |-> scaler, bpr |-> bpr, ps1 |-> t1 + 1, ps2 |-> t2, rsj |-> 1]
      BY <1>2, <2>5, <2>8, Zenon
    <3> HIDE DEF scaler, bpr, t1, t2
    <3>7. timing.ret = 0 /\ timing.scaler = scaler /\ timing.bpr = bpr /\ timing.ps1 = t1 + 1 /\ timing.ps2 = t2
      BY <3>5
    <3>8. 2 + (t1 + 1) + t2 = n /\ t1 + 1 \in 1 .. 15
      BY <2>3, <2>5, <3>3
    <3>9. GrcanRate(c, timing) = ((c \div (scaler + 1)) \div P) \div n
      BY <3>7, <3>8, Zenon DEF GrcanRate
    <3> HIDE DEF P
    <3>10. ((c \div (scaler + 1)) \div P) \div n = c \div (B * n)
      <4>1. (c \div (scaler + 1)) \div P = c \div B
        BY <2>2, QuotientOfQuotient
      <4>2. (c \div B) \div n = c \div (B * n)
        BY <2>2, <2>3, QuotientOfQuotient
      <4> QED
        BY <4>1, <4>2
    <3>11. Abs(r - GrcanRate(c, timing)) = e
      BY <2>e, <3>9, <3>10, Zenon DEF RateError
    <3>12. 10 * e <= r
      BY <1>2, <2>4, <3>1
    <3>14. 0 \in -2 .. 0 /\ ~ (0 = -2)
      OBVIOUS
    <3>15. timing.scaler \in 0 .. 255 /\ timing.bpr \in 0 .. 3 /\ timing.ps1 \in 1 .. 15 /\ timing.ps2 \in 2 .. 8
      <4>1. scaler \in 0 .. 255 /\ bpr \in 0 .. 3
        BY <2>2
      <4> QED
        BY <3>3, <3>7, <3>8, <4>1, ZenonT(60)
    <3> QED
      BY <2>6, <3>7, <3>11, <3>12, <3>14, <3>15, Zenon DEF GrcanFound
  <2> QED
    BY <2>7, <2>8
<1> QED
  BY <1>2, <1>3, <1>4, <1>5, GrcanSearch

LEMMA GrcanCalculated ==
  ASSUME NEW core \in Nat, NEW r \in Rates
  PROVE  GrcanFound(core, r, grcan_calc_timing(r, core, 80))
<1> DEFINE best == Best(core, r, 10 .. 49, GrcanDividers)
           sp   == SamplePoint(r, 80)
           segs == Segments(best.tseg, sp, 2, 14, 8)
           timing ==
             IF ~RateAllowed(r) THEN [ret |-> -1]
             ELSE IF TooFar(best, r) THEN [ret |-> -2]
             ELSE [ret |-> 0, scaler |-> best.brp \div Prescalers[Bpr(best.brp - 1) + 1] - 1, bpr |-> Bpr(best.brp - 1),
                   ps1 |-> segs.tseg1 + 1, ps2 |-> segs.tseg2, rsj |-> 1]
<1>1. sp \in {75, 80}
  BY SMT DEF SamplePoint
<1>2. grcan_calc_timing(r, core, 80) = timing
  <2>1. (IF 80 \in 50 .. 99 THEN 80 ELSE 90) = 80
    BY SMT
  <2> QED
    BY <2>1, Zenon DEF grcan_calc_timing
<1> HIDE DEF sp
<1>4. GrcanFound(core, r, timing)
  BY <1>1, GrcanAnswers
<1> QED
  BY <1>2, <1>4

-----------------------------------------------------------------------------
(* What the state holds was found for its rate, so it has the fields of    *)
(* the registers, and none are closer.                                     *)
CtInv ==
  /\ clock_hz \in CoreClocks /\ step \in 1 .. Len(steplist) + 1
  /\ step = 1 => occan = [ret |-> -1] /\ grcan = [ret |-> -1]
  /\ step > 1 => /\ OccanFound(clock_hz, steplist[step - 1], occan)
                 /\ GrcanFound(clock_hz, steplist[step - 1], grcan)

LEMMA CtInvInit == CtInit => CtInv
<1> SUFFICES ASSUME CtInit PROVE CtInv
  OBVIOUS
<1>1. step = 1 /\ clock_hz \in CoreClocks /\ occan = [ret |-> -1] /\ grcan = [ret |-> -1]
  BY DEF CtInit
<1>2. 1 \in 1 .. Len(steplist) + 1 /\ ~ (1 > 1)
  BY ListHasRates
<1> QED
  BY <1>1, <1>2, Zenon DEF CtInv

LEMMA CtStepKeeps == CtInv /\ [CtStep]_ct_vars => CtInv'
<1> SUFFICES ASSUME CtInv, [CtStep]_ct_vars PROVE CtInv'
  OBVIOUS
<1>1. CASE CtStep
  <2>1. /\ step \in 1 .. 9 /\ step' = step + 1 /\ clock_hz' = clock_hz /\ clock_hz \in CoreClocks
        /\ occan' = occan_calc_speedregs(clock_hz, steplist[step])
        /\ grcan' = grcan_calc_timing(steplist[step], clock_hz, 80)
    BY <1>1, ListHasRates, Zenon DEF CtStep, CtInv
  <2>2. steplist[step] \in Rates /\ clock_hz \in Nat
    BY <2>1, ListHasRates, ClocksAssumption
  <2>3. /\ OccanFound(clock_hz, steplist[step], occan')
        /\ GrcanFound(clock_hz, steplist[step], grcan')
    BY <2>1, <2>2, OccanCalculated, GrcanCalculated, Zenon
  <2>4. step' \in 1 .. Len(steplist) + 1 /\ step' # 1 /\ step' - 1 = step
    BY <2>1, ListHasRates
  <2>5. (OccanFound(clock_hz, steplist[step - 1], occan))' <=> OccanFound(clock_hz', steplist[step' - 1], occan')
    BY Zenon DEF OccanFound, OccanRate
  <2>6. (GrcanFound(clock_hz, steplist[step - 1], grcan))' <=> GrcanFound(clock_hz', steplist[step' - 1], grcan')
    BY Zenon DEF GrcanFound, GrcanRate
  <2> QED
    BY <2>1, <2>3, <2>4, <2>5, <2>6, Zenon DEF CtInv
<1>2. CASE UNCHANGED ct_vars
  <2>1. clock_hz' = clock_hz /\ step' = step /\ occan' = occan /\ grcan' = grcan
    BY <1>2, Zenon DEF ct_vars
  <2>2. (OccanFound(clock_hz, steplist[step - 1], occan))' <=> OccanFound(clock_hz', steplist[step' - 1], occan')
    BY Zenon DEF OccanFound, OccanRate
  <2>3. (GrcanFound(clock_hz, steplist[step - 1], grcan))' <=> GrcanFound(clock_hz', steplist[step' - 1], grcan')
    BY Zenon DEF GrcanFound, GrcanRate
  <2> QED
    BY <2>1, <2>2, <2>3, Zenon DEF CtInv
<1> QED
  BY <1>1, <1>2

LEMMA CtTyped == CtInv => CtTypeOK
<1> SUFFICES ASSUME CtInv PROVE CtTypeOK
  OBVIOUS
<1>1. CASE step = 1
  <2>1. occan.ret = -1 /\ grcan.ret = -1
    BY <1>1 DEF CtInv
  <2>2. -1 \in -2 .. 0 /\ ~ (-1 = 0)
    OBVIOUS
  <2> QED
    BY <2>1, <2>2, Zenon DEF CtInv, CtTypeOK
<1>2. CASE step # 1
  <2>1. step > 1
    BY <1>2, ListHasRates DEF CtInv
  <2> QED
    BY <2>1, Zenon DEF CtInv, CtTypeOK, OccanFound, GrcanFound
<1> QED
  BY <1>1, <1>2

LEMMA CtBest == CtInv => TimingBest
<1> SUFFICES ASSUME CtInv, step > 1 PROVE TimingBest
  BY Zenon DEF TimingBest
<1> QED
  BY Zenon DEF CtInv, TimingBest, OccanFound, GrcanFound

(* Whatever clocks the calculator is given, what it answers has the fields *)
(* of the registers.                                                       *)
THEOREM CtTyping == CtSpec => []CtTypeOK
<1>1. CtSpec => []CtInv
  BY CtInvInit, CtStepKeeps, PTL DEF CtSpec
<1> QED
  BY <1>1, CtTyped, PTL

(* For every clock and every rate of the list the registers found give a   *)
(* rate that no others of the core come closer to (of the GRCAN core, none *)
(* that divide by up to 256), and nothing is found only when none come     *)
(* within a tenth or, for the OC-CAN core, when the clock is too fast for  *)
(* its largest divider.                                                    *)
THEOREM ClosestRegisters == CtSpec => []TimingBest
<1>1. CtSpec => []CtInv
  BY CtInvInit, CtStepKeeps, PTL DEF CtSpec
<1> QED
  BY <1>1, CtBest, PTL
=============================================================================

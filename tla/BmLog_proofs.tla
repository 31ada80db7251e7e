---------------------------- MODULE BmLog_proofs ----------------------------
(***************************************************************************)
(* The times of the bus log, for every width of the three time fields, any *)
(* capacity of the log and any number of entries: each entry gets the time *)
(* at which it was on the bus, and a client decodes it back.               *)
(***************************************************************************)
EXTENDS BmLog, SequenceTheorems, TLAPS

USE ModulusAssumption, BoundsAssumption

-----------------------------------------------------------------------------
(* The invariant.                                                          *)

Entry == [time : Nat, error : BOOLEAN, real : Nat]

(* Entries in the DMA area are in order and not in the future; those that  *)
(* the clock was not yet sampled for are at most 2^24 old, the others were *)
(* when it was.                                                            *)
Entries ==
  /\ dma \in Seq(Entry)
  /\ \A i \in DOMAIN dma :
       /\ dma[i].time = dma[i].real % T24
       /\ last <= dma[i].real /\ dma[i].real <= now
       /\ IF pc = "copy" /\ i <= left
            THEN dma[i].real < currtime /\ currtime <= dma[i].real + T24
            ELSE now <= dma[i].real + T24
  /\ \A i, k \in DOMAIN dma : i < k => dma[i].real <= dma[k].real
  /\ pc \in {"counted", "copy"} => left > 0

(* What bm_log_copy keeps of the last entry's time.                        *)
Kept ==
  /\ IF pc = "copy" THEN ll = Upper(last) ELSE time = last
  /\ last <= now /\ currtime <= now /\ since \in 0 .. now

(* The time word that a data word at position i of the log q hangs on has  *)
(* the bits b: it is the last one before that position, or the client has  *)
(* it as its base, or will not get it.                                     *)
Hangs(q, gone, have, i, b) ==
  \/ \E k \in 1 .. i - 1 : /\ q[k].kind = "time" /\ q[k].bits = b
                           /\ \A m \in k + 1 .. i - 1 : q[m].kind # "time"
  \/ /\ \A m \in 1 .. i - 1 : q[m].kind # "time"
     /\ gone \/ have = <<b>>

Bits(t) == (t \div T13) % T30

(* Data words that count carry the 13 lower bits of their time and hang on *)
(* a time word with the 30 above them.                                     *)
Covered(q, gone, have, from) ==
  \A i \in DOMAIN q : q[i].kind = "data" =>
    /\ q[i].bits = q[i].real % T13
    /\ q[i].real >= from => Hangs(q, gone, have, i, Bits(q[i].real))

(* The time of the time word that was logged last.                         *)
Current == IF last < T13 THEN since ELSE last

LogRight ==
  /\ Covered(log, missed, base, since)
  /\ pc # "start" => Hangs(log, missed, base, Len(log) + 1, Bits(Current))
  /\ base \in {<<>>} \cup {<<b>> : b \in Nat}
  /\ shown \in {<<>>} \cup {<<v>> : v \in [as : Nat, real : Nat]}
  /\ pc = "start" => /\ \A i \in DOMAIN log : log[i].kind = "ctrl"
                     /\ shown = <<>> /\ last = 0

LogInv == TypeOK /\ Entries /\ Kept /\ LogRight /\ DecodedRight /\ ~stopped

-----------------------------------------------------------------------------
(* Quotients and remainders.                                               *)

LEMMA Division ==
  ASSUME NEW a \in Nat, NEW n \in Nat, n > 0
  PROVE  a \div n \in Nat /\ a % n \in 0 .. n - 1 /\ a = n * (a \div n) + (a % n)
OBVIOUS

LEMMA Larger ==
  ASSUME NEW n \in Nat, NEW p \in Nat, NEW q \in Nat, p < q
  PROVE  n * p \in Nat /\ n * q \in Nat /\ n * p + n <= n * q
<1>1. PICK d \in Nat : q = p + 1 + d
  <2>1. q - p - 1 \in Nat /\ q = p + 1 + (q - p - 1)
    OBVIOUS
  <2> QED
    BY <2>1
<1>2. n * q = n * p + n + n * d
  BY <1>1
<1>3. n * d \in Nat /\ n * p \in Nat
  OBVIOUS
<1> QED
  BY <1>2, <1>3

LEMMA Unique ==
  ASSUME NEW n \in Nat, n > 0, NEW p \in Nat, NEW q \in Nat,
         NEW r \in 0 .. n - 1, NEW s \in 0 .. n - 1, n * p + r = n * q + s
  PROVE  p = q /\ r = s
<1>1. n * p \in Nat /\ n * q \in Nat
  OBVIOUS
<1>2. ~(p < q)
  <2>1. p < q => n * p + n <= n * q
    BY Larger
  <2> QED
    BY <1>1, <2>1
<1>3. ~(q < p)
  <2>1. q < p => n * q + n <= n * p
    BY Larger
  <2> QED
    BY <1>1, <2>1
<1>4. p = q
  BY <1>2, <1>3
<1> QED
  BY <1>1, <1>4

LEMMA UpperIs ==
  ASSUME NEW t \in Nat
  PROVE  /\ Upper(t) = T13 * (t \div T13) /\ Upper(t) \in Nat /\ Upper(t) <= t
         /\ t \div T13 \in Nat /\ t % T13 \in 0 .. T13 - 1 /\ t = Upper(t) + (t % T13)
         /\ Bits(t) \in 0 .. T30 - 1
<1>1. T13 \in Nat /\ T13 > 0 /\ T30 \in Nat /\ T30 > 0
  OBVIOUS
<1>2. t \div T13 \in Nat /\ t % T13 \in 0 .. T13 - 1 /\ t = T13 * (t \div T13) + (t % T13)
  BY <1>1, Division
<1>3. Bits(t) \in 0 .. T30 - 1
  BY <1>1, <1>2, Division DEF Bits
<1>4. T13 * (t \div T13) \in Nat
  BY <1>1, <1>2
<1> QED
  BY <1>1, <1>2, <1>3, <1>4 DEF Upper

(* Two times whose upper bits do not differ have the same time word.       *)
LEMMA SameUpper ==
  ASSUME NEW t \in Nat, NEW u \in Nat, u <= t
  PROVE  /\ Upper(u) <= Upper(t)
         /\ ~(Upper(t) > Upper(u)) => Bits(t) = Bits(u)
<1> DEFINE p == u \div T13
           q == t \div T13
<1>0. T13 \in Nat /\ T13 > 0
  OBVIOUS
<1>1. /\ p \in Nat /\ q \in Nat
      /\ Upper(u) = T13 * p /\ Upper(t) = T13 * q
      /\ u = Upper(u) + (u % T13) /\ t = Upper(t) + (t % T13)
      /\ u % T13 \in 0 .. T13 - 1 /\ t % T13 \in 0 .. T13 - 1
      /\ Upper(t) \in Nat /\ Upper(u) \in Nat
  BY UpperIs, Zenon
<1>2. Bits(t) = q % T30 /\ Bits(u) = p % T30
  BY DEF Bits
<1> HIDE DEF p, q
<1>3. q < p => Upper(t) + T13 <= Upper(u)
  BY <1>0, <1>1, Larger
<1>4. p < q => Upper(u) + T13 <= Upper(t)
  BY <1>0, <1>1, Larger
<1>5. p <= q
  BY <1>0, <1>1, <1>3
<1>6. Upper(u) <= Upper(t)
  BY <1>0, <1>1, <1>4, <1>5
<1>7. ~(Upper(t) > Upper(u)) => p = q
  BY <1>0, <1>1, <1>4, <1>5
<1> QED
  BY <1>2, <1>6, <1>7

LEMMA SmallUpper ==
  ASSUME NEW t \in Nat
  PROVE  Upper(t) > 0 <=> t >= T13
<1> DEFINE p == t \div T13
<1>0. T13 \in Nat /\ T13 > 0
  OBVIOUS
<1>1. /\ p \in Nat /\ Upper(t) = T13 * p
      /\ t = Upper(t) + (t % T13) /\ t % T13 \in 0 .. T13 - 1 /\ Upper(t) \in Nat
  BY UpperIs, Zenon
<1> HIDE DEF p
<1>2. 0 < p => T13 * 0 + T13 <= T13 * p
  BY <1>0, <1>1, Larger
<1>3. p = 0 => Upper(t) = 0
  BY <1>0, <1>1
<1> QED
  BY <1>0, <1>1, <1>2, <1>3

(* What the client makes of the two words.                                 *)
LEMMA DecodesRight ==
  ASSUME NEW t \in Nat
  PROVE  Bits(t) * T13 + (t % T13) = t % (T13 * T30)
<1> DEFINE q == t \div T13
           r == t % T13
           p == q \div T30
           s == q % T30
           n == T13 * T30
<1>1. T13 \in Nat /\ T13 > 0 /\ T30 \in Nat /\ T30 > 0
  OBVIOUS
<1>2. q \in Nat /\ r \in 0 .. T13 - 1 /\ t = T13 * q + r
  BY <1>1, Division
<1>3. p \in Nat /\ s \in 0 .. T30 - 1 /\ q = T30 * p + s
  <2> HIDE DEF q
  <2> QED
    BY <1>1, <1>2, Division
<1>4. Bits(t) = s
  BY DEF Bits
<1> HIDE DEF q, r, p, s
<1>5. n \in Nat /\ n > 0
  BY <1>1
<1>6. T13 * s + r \in 0 .. n - 1
  <2>1. T13 * s \in Nat /\ T13 * s + T13 <= T13 * T30
    <3>1. s \in Nat /\ s < T30
      BY <1>1, <1>3
    <3> QED
      BY <1>1, <3>1, Larger
  <2> QED
    BY <1>1, <1>2, <1>5, <2>1
<1>7. t = n * p + (T13 * s + r)
  <2>1. T13 * (T30 * p + s) = n * p + T13 * s
    BY <1>1, <1>3
  <2>2. n * p \in Nat /\ T13 * s \in Nat
    BY <1>1, <1>3, <1>5
  <2> QED
    BY <1>2, <1>3, <2>1, <2>2
<1>8. t \div n \in Nat /\ t % n \in 0 .. n - 1 /\ t = n * (t \div n) + (t % n)
  <2> HIDE DEF n
  <2> QED
    BY <1>5, Division
<1>9. T13 * s + r = t % n
  <2> DEFINE v == T13 * s + r
             w == t % n
             k == t \div n
  <2>1. n * p + v = n * k + w /\ v \in 0 .. n - 1 /\ w \in 0 .. n - 1 /\ k \in Nat /\ p \in Nat
    <3> HIDE DEF n
    <3> QED
      BY <1>3, <1>6, <1>7, <1>8
  <2> HIDE DEF n, v, w, k
  <2>2. v = w
    BY <1>5, <2>1, Unique
  <2> QED
    BY <2>2 DEF v, w
<1>10. s * T13 = T13 * s
  BY <1>1, <1>3
<1> QED
  BY <1>4, <1>9, <1>10 DEF r

(* The 24 bits of an entry, widened by a sample that is past it and at     *)
(* most 2^24 later, are its time.                                          *)
LEMMA WidensRight ==
  ASSUME NEW real \in Nat, currtime \in Nat, real < currtime, currtime <= real + T24
  PROVE  LogTime(real % T24) = real
<1> DEFINE q == currtime \div T24
           r == currtime % T24
           p == real \div T24
           s == real % T24
<1>1. T24 \in Nat /\ T24 > 0
  OBVIOUS
<1>2. /\ q \in Nat /\ r \in 0 .. T24 - 1 /\ currtime = T24 * q + r
      /\ p \in Nat /\ s \in 0 .. T24 - 1 /\ real = T24 * p + s
  BY <1>1, Division
<1>3. LogTime(s) = IF s < r THEN (currtime - r) + s ELSE (currtime - r) - T24 + s
  BY DEF LogTime
<1> HIDE DEF q, r, p, s
<1>4. T24 * q \in Nat /\ T24 * p \in Nat
  BY <1>1, <1>2
<1>5. q < p => T24 * q + T24 <= T24 * p
  BY <1>1, <1>2, Larger
<1>6. p + 1 < q => T24 * (p + 1) + T24 <= T24 * q
  BY <1>1, <1>2, Larger
<1>7. T24 * (p + 1) = T24 * p + T24
  BY <1>1, <1>2
<1>8. CASE q = p
  <2>1. s < r
    BY <1>1, <1>2, <1>4, <1>8
  <2> QED
    BY <1>1, <1>2, <1>3, <1>4, <1>8, <2>1 DEF s
<1>9. CASE q = p + 1
  <2>1. T24 * q = T24 * p + T24
    BY <1>7, <1>9
  <2>2. ~(s < r)
    BY <1>1, <1>2, <1>4, <2>1
  <2>3. LogTime(s) = real
    BY <1>1, <1>2, <1>3, <1>4, <2>1, <2>2
  <2> QED
    BY <2>3 DEF s
<1> QED
  BY <1>1, <1>2, <1>4, <1>5, <1>6, <1>7, <1>8, <1>9

-----------------------------------------------------------------------------
(* The log loses its first n words.                                        *)
LEMMA HangsShift ==
  ASSUME NEW q, NEW r, NEW n \in Nat, NEW i \in Nat, i > n,
         \A j \in 1 .. i - 1 - n : r[j] = q[j + n],
         NEW gone, NEW gone2, NEW have, NEW have2, NEW b,
         \A k \in 1 .. n : q[k].kind = "time" /\ (\A m \in k + 1 .. n : q[m].kind # "time")
                             => gone2 \/ have2 = <<q[k].bits>>,
         (\A m \in 1 .. n : q[m].kind # "time") /\ (gone \/ have = <<b>>)
           => gone2 \/ have2 = <<b>>,
         Hangs(q, gone, have, i, b)
  PROVE  Hangs(r, gone2, have2, i - n, b)
<1>1. CASE \E k \in 1 .. i - 1 : /\ q[k].kind = "time" /\ q[k].bits = b
                                 /\ \A m \in k + 1 .. i - 1 : q[m].kind # "time"
  <2>1. PICK k \in 1 .. i - 1 : /\ q[k].kind = "time" /\ q[k].bits = b
                                /\ \A m \in k + 1 .. i - 1 : q[m].kind # "time"
    BY <1>1
  <2>2. CASE k > n
    <3>1. k - n \in 1 .. (i - n) - 1 /\ r[k - n] = q[k]
      BY <2>2
    <3>2. ASSUME NEW m \in (k - n) + 1 .. (i - n) - 1
          PROVE  r[m].kind # "time"
      <4>1. m \in 1 .. i - 1 - n /\ m + n \in k + 1 .. i - 1
        BY <2>2
      <4> QED
        BY <2>1, <4>1
    <3> QED
      BY <2>1, <3>1, <3>2 DEF Hangs
  <2>3. CASE k <= n
    <3>1. k \in 1 .. n /\ \A m \in k + 1 .. n : m \in k + 1 .. i - 1
      BY <2>3
    <3>2. gone2 \/ have2 = <<b>>
      BY <2>1, <3>1, Zenon
    <3>3. ASSUME NEW m \in 1 .. (i - n) - 1
          PROVE  r[m].kind # "time"
      <4>1. m \in 1 .. i - 1 - n /\ m + n \in k + 1 .. i - 1
        BY <2>3
      <4> QED
        BY <2>1, <4>1
    <3> QED
      BY <3>2, <3>3, Zenon DEF Hangs
  <2> QED
    BY <2>2, <2>3
<1>2. CASE (\A m \in 1 .. i - 1 : q[m].kind # "time") /\ (gone \/ have = <<b>>)
  <2>1. \A m \in 1 .. n : m \in 1 .. i - 1
    OBVIOUS
  <2>2. gone2 \/ have2 = <<b>>
    BY <1>2, <2>1, Zenon
  <2>3. ASSUME NEW m \in 1 .. (i - n) - 1
        PROVE  r[m].kind # "time"
    <3>1. m \in 1 .. i - 1 - n /\ m + n \in 1 .. i - 1
      OBVIOUS
    <3> QED
      BY <1>2, <3>1
  <2> QED
    BY <2>2, <2>3, Zenon DEF Hangs
<1> QED
  BY <1>1, <1>2, Zenon DEF Hangs

(* More words, none of which is a time word, are appended.                 *)
LEMMA HangsOn ==
  ASSUME NEW q, NEW r, NEW i \in Nat, NEW j \in Nat, i > 0, i <= j,
         \A k \in 1 .. i - 1 : r[k] = q[k],
         \A k \in i .. j - 1 : r[k].kind # "time",
         NEW gone, NEW have, NEW b, Hangs(q, gone, have, i, b)
  PROVE  Hangs(r, gone, have, j, b)
<1>1. CASE \E k \in 1 .. i - 1 : /\ q[k].kind = "time" /\ q[k].bits = b
                                 /\ \A m \in k + 1 .. i - 1 : q[m].kind # "time"
  <2>1. PICK k \in 1 .. i - 1 : /\ q[k].kind = "time" /\ q[k].bits = b
                                /\ \A m \in k + 1 .. i - 1 : q[m].kind # "time"
    BY <1>1
  <2>2. k \in 1 .. j - 1 /\ r[k] = q[k]
    OBVIOUS
  <2>3. ASSUME NEW m \in k + 1 .. j - 1
        PROVE  r[m].kind # "time"
    <3>1. m \in k + 1 .. i - 1 \/ m \in i .. j - 1
      OBVIOUS
    <3>2. m \in k + 1 .. i - 1 => m \in 1 .. i - 1
      OBVIOUS
    <3> QED
      BY <2>1, <3>1, <3>2
  <2> QED
    BY <2>1, <2>2, <2>3 DEF Hangs
<1>2. CASE (\A m \in 1 .. i - 1 : q[m].kind # "time") /\ (gone \/ have = <<b>>)
  <2>1. ASSUME NEW m \in 1 .. j - 1
        PROVE  r[m].kind # "time"
    <3>1. m \in 1 .. i - 1 \/ m \in i .. j - 1
      OBVIOUS
    <3> QED
      BY <1>2, <3>1
  <2> QED
    BY <1>2, <2>1, Zenon DEF Hangs
<1> QED
  BY <1>1, <1>2, Zenon DEF Hangs

(* A time word and then others are appended.                               *)
LEMMA HangsNew ==
  ASSUME NEW r, NEW i \in Nat, NEW j \in Nat, i > 0, i < j, NEW b,
         r[i].kind = "time", r[i].bits = b, \A k \in i + 1 .. j - 1 : r[k].kind # "time",
         NEW gone, NEW have
  PROVE  Hangs(r, gone, have, j, b)
<1>1. i \in 1 .. j - 1
  OBVIOUS
<1> QED
  BY <1>1, Zenon DEF Hangs

(* log_cmp_add, whatever it drops.                                         *)
LEMMA Added ==
  ASSUME NEW ws \in Seq(Word), log \in Seq(Word), Len(ws) <= Capacity, Len(log) <= Capacity,
         missed \in BOOLEAN, LogAdd(ws), NEW from, NEW b,
         Covered(log \o ws, missed, base, from),
         Hangs(log \o ws, missed, base, Len(log \o ws) + 1, b)
  PROVE  /\ log' \in Seq(Word) /\ Len(log') <= Capacity /\ missed' \in BOOLEAN
         /\ Covered(log', missed', base, from)
         /\ Hangs(log', missed', base, Len(log') + 1, b)
<1> DEFINE all == log \o ws
           n == IF Len(all) > Capacity THEN Len(all) - Capacity ELSE 0
<1>1. all \in Seq(Word) /\ Len(all) \in Nat /\ Capacity \in Nat
  <2>1. all \in Seq(Word)
    BY ConcatProperties
  <2> QED
    BY <2>1, LenProperties
<1>2. /\ log' = SubSeq(all, n + 1, Len(all))
      /\ missed' = (missed \/ \E i \in 1 .. n : all[i].kind = "time")
  BY Zenon DEF LogAdd
<1>3. Covered(all, missed, base, from) /\ Hangs(all, missed, base, Len(all) + 1, b)
  OBVIOUS
<1> HIDE DEF all
<1>4. n \in 0 .. Len(all) /\ Len(all) - n <= Capacity
  BY <1>1
<1> HIDE DEF n
<1>5. \A i \in n + 1 .. Len(all) : all[i] \in Word
  <2>1. \A i \in 1 .. Len(all) : all[i] \in Word
    BY <1>1, ElementOfSeq, Zenon
  <2> QED
    BY <1>1, <1>4, <2>1
<1>6. /\ log' \in Seq(Word) /\ Len(log') = Len(all) - n
      /\ \A i \in 1 .. Len(log') : log'[i] = all[i + n]
  <2>1. n + 1 \in Int /\ Len(all) \in Int
    BY <1>1, <1>4
  <2>2. /\ log' \in Seq(Word)
        /\ Len(log') = IF n + 1 <= Len(all) THEN Len(all) - (n + 1) + 1 ELSE 0
        /\ \A i \in 1 .. Len(all) - (n + 1) + 1 : log'[i] = all[(n + 1) + i - 1]
    <3> DEFINE m == n + 1
               l == Len(all)
    <3>1. m \in Int /\ l \in Int /\ log' = SubSeq(all, m, l) /\ \A i \in m .. l : all[i] \in Word
      BY <1>2, <1>5, <2>1
    <3> HIDE DEF m, l
    <3>2. /\ SubSeq(all, m, l) \in Seq(Word)
          /\ Len(SubSeq(all, m, l)) = IF m <= l THEN l - m + 1 ELSE 0
          /\ \A i \in 1 .. l - m + 1 : SubSeq(all, m, l)[i] = all[m + i - 1]
      BY <3>1, SubSeqProperties
    <3>3. /\ log' \in Seq(Word) /\ Len(log') = IF m <= l THEN l - m + 1 ELSE 0
          /\ \A i \in 1 .. l - m + 1 : log'[i] = all[m + i - 1]
      BY <3>1, <3>2, Zenon
    <3> QED
      BY <3>3 DEF m, l
  <2>3. Len(log') = Len(all) - n
    BY <1>1, <1>4, <2>2
  <2>4. \A i \in 1 .. Len(log') : i + n = (n + 1) + i - 1 /\ i \in 1 .. Len(all) - (n + 1) + 1
    BY <1>1, <1>4, <2>3
  <2> QED
    BY <2>2, <2>3, <2>4
<1>7. missed' \in BOOLEAN
  BY <1>2, Zenon
<1>8. ASSUME NEW i \in n + 1 .. Len(all) + 1, NEW c, Hangs(all, missed, base, i, c)
      PROVE  Hangs(log', missed', base, i - n, c)
  <2>1. /\ i \in Nat /\ i > n /\ n \in Nat
        /\ \A j \in 1 .. i - 1 - n : log'[j] = all[j + n]
    <3> DEFINE l == Len(log')
               a == Len(all)
    <3>1. l = a - n /\ a \in Nat /\ n \in 0 .. a
      BY <1>1, <1>4, <1>6
    <3>2. \A j \in 1 .. l : log'[j] = all[j + n]
      BY <1>6
    <3> HIDE DEF l, a
    <3>3. i \in n + 1 .. a + 1
      BY DEF a
    <3>4. i \in Nat /\ i > n /\ n \in Nat
      BY <3>1, <3>3
    <3>5. \A j \in 1 .. i - 1 - n : j \in 1 .. l
      BY <3>1, <3>3
    <3> QED
      BY <3>2, <3>4, <3>5, Zenon
  <2>2. \A k \in 1 .. n : all[k].kind = "time" => missed'
    BY <1>2, Zenon
  <2>3. missed => missed'
    BY <1>2, Zenon
  <2>4. /\ \A k \in 1 .. n : all[k].kind = "time" /\ (\A m \in k + 1 .. n : all[m].kind # "time")
                               => missed' \/ base = <<all[k].bits>>
        /\ (\A m \in 1 .. n : all[m].kind # "time") /\ (missed \/ base = <<c>>)
             => missed' \/ base = <<c>>
    BY <2>2, <2>3, Zenon
  <2> QED
    BY <1>8, <2>1, <2>4, HangsShift, Zenon
<1>9. Covered(log', missed', base, from)
  <2> SUFFICES ASSUME NEW i \in DOMAIN log', log'[i].kind = "data"
               PROVE  /\ log'[i].bits = log'[i].real % T13
                      /\ log'[i].real >= from =>
                           Hangs(log', missed', base, i, Bits(log'[i].real))
    BY Zenon DEF Covered
  <2>1. i \in 1 .. Len(log')
    BY <1>6, LenProperties
  <2>2. log'[i] = all[i + n] /\ i + n \in 1 .. Len(all) /\ i + n \in n + 1 .. Len(all) + 1 /\ (i + n) - n = i
    BY <1>1, <1>4, <1>6, <2>1
  <2>3. i + n \in DOMAIN all
    BY <1>1, <2>2, LenProperties
  <2>4. /\ all[i + n].bits = all[i + n].real % T13
        /\ all[i + n].real >= from => Hangs(all, missed, base, i + n, Bits(all[i + n].real))
    BY <1>3, <2>2, <2>3, Zenon DEF Covered
  <2>5. Hangs(all, missed, base, i + n, Bits(all[i + n].real))
          => Hangs(log', missed', base, (i + n) - n, Bits(all[i + n].real))
    BY <1>8, <2>2, Zenon
  <2> QED
    BY <2>2, <2>4, <2>5, Zenon
<1>10. Hangs(log', missed', base, Len(log') + 1, b)
  <2>1. Len(all) + 1 \in n + 1 .. Len(all) + 1 /\ (Len(all) + 1) - n = Len(log') + 1
    BY <1>1, <1>4, <1>6
  <2>2. Hangs(log', missed', base, (Len(all) + 1) - n, b)
    BY <1>3, <1>8, <2>1, Zenon
  <2> QED
    BY <2>1, <2>2, Zenon
<1> QED
  BY <1>1, <1>4, <1>6, <1>7, <1>9, <1>10

-----------------------------------------------------------------------------
(* The words of an entry.                                                  *)

LEMMA WordTypes ==
  ASSUME NEW t \in Nat, NEW real \in Nat
  PROVE  /\ TimeWord(t) \in Word /\ TimeWord(t).kind = "time" /\ TimeWord(t).bits = Bits(t)
         /\ DataWord(t, real) \in Word /\ DataWord(t, real).kind = "data"
         /\ DataWord(t, real).bits = t % T13 /\ DataWord(t, real).real = real
         /\ [kind |-> "err"] \in Word /\ [kind |-> "ctrl"] \in Word
<1>1. t % T13 \in 0 .. T13 - 1 /\ Bits(t) \in 0 .. T30 - 1
  BY UpperIs
<1>2. TimeWord(t) = [kind |-> "time", bits |-> Bits(t)]
  BY DEF TimeWord, Bits
<1> HIDE DEF Bits
<1> QED
  BY <1>1, <1>2 DEF DataWord, Word

(* ws is what is logged of an entry of time t: a time word or none, other  *)
(* words, and the data.                                                    *)
WordsOf(ws, t, long) ==
  /\ ws \in Seq(Word) /\ Len(ws) \in 1 .. 3
  /\ ws[Len(ws)] = DataWord(t, t)
  /\ \A i \in 1 .. Len(ws) - 1 : ws[i].kind # "data"
  /\ IF long THEN Len(ws) > 1 /\ ws[1] = TimeWord(t) /\ \A i \in 2 .. Len(ws) : ws[i].kind # "time"
             ELSE \A i \in 1 .. Len(ws) : ws[i].kind # "time"

LEMMA OneMore ==
  ASSUME NEW q \in Seq(Word), NEW w \in Word
  PROVE  /\ q \o <<w>> \in Seq(Word) /\ Len(q) \in Nat /\ Len(q \o <<w>>) = Len(q) + 1
         /\ \A i \in 1 .. Len(q) : (q \o <<w>>)[i] = q[i]
         /\ (q \o <<w>>)[Len(q) + 1] = w
<1> DEFINE one == <<w>>
           r == q \o one
<1>1. one \in Seq(Word) /\ Len(one) = 1 /\ one[1] = w
  OBVIOUS
<1> HIDE DEF one
<1>2. Len(q) \in Nat
  BY LenProperties
<1>3. /\ r \in Seq(Word) /\ Len(r) = Len(q) + Len(one)
      /\ \A i \in 1 .. Len(q) + Len(one) : r[i] = IF i <= Len(q) THEN q[i] ELSE one[i - Len(q)]
  BY <1>1, ConcatProperties
<1> HIDE DEF r
<1>4. /\ r \in Seq(Word) /\ Len(r) = Len(q) + 1 /\ \A i \in 1 .. Len(q) : r[i] = q[i]
  BY <1>1, <1>2, <1>3
<1>5. r[Len(q) + 1] = w
  <2>1. Len(q) + 1 \in 1 .. Len(q) + Len(one) /\ ~(Len(q) + 1 <= Len(q)) /\ (Len(q) + 1) - Len(q) = 1
    BY <1>1, <1>2
  <2> QED
    BY <1>1, <1>3, <2>1
<1> QED
  BY <1>2, <1>4, <1>5 DEF r, one

LEMMA EntryWords ==
  ASSUME NEW t \in Nat, NEW long \in BOOLEAN, NEW error \in BOOLEAN
  PROVE  WordsOf((IF long THEN <<TimeWord(t)>> ELSE <<>>)
                   \o (IF error THEN <<[kind |-> "err"]>> ELSE <<>>) \o <<DataWord(t, t)>>, t, long)
<1> DEFINE T == TimeWord(t)
           D == DataWord(t, t)
           E == [kind |-> "err"]
           A == IF long THEN <<T>> ELSE <<>>
           B == A \o (IF error THEN <<E>> ELSE <<>>)
           C == B \o <<D>>
<1>1. /\ T \in Word /\ T.kind = "time" /\ D \in Word /\ D.kind = "data" /\ E \in Word /\ E.kind = "err"
  BY WordTypes
<1> HIDE DEF T, D, E
<1>2. /\ A \in Seq(Word)
      /\ long => Len(A) = 1 /\ A[1] = T
      /\ ~long => Len(A) = 0
  BY <1>1
<1> HIDE DEF A
<1>3. /\ B \in Seq(Word)
      /\ error => Len(B) = Len(A) + 1 /\ (\A i \in 1 .. Len(A) : B[i] = A[i]) /\ B[Len(A) + 1] = E
      /\ ~error => B = A
  <2>1. CASE error
    <3>1. B = A \o <<E>>
      BY <2>1
    <3> QED
      BY <1>1, <1>2, <2>1, <3>1, OneMore
  <2>2. CASE ~error
    <3>1. B = A \o <<>>
      BY <2>2
    <3>2. B = A
      BY <1>2, <3>1, ConcatEmptySeq
    <3> QED
      BY <1>2, <2>2, <3>2
  <2> QED
    BY <2>1, <2>2
<1> HIDE DEF B
<1>4. /\ C \in Seq(Word) /\ Len(B) \in Nat /\ Len(C) = Len(B) + 1
      /\ \A i \in 1 .. Len(B) : C[i] = B[i]
      /\ C[Len(B) + 1] = D
  BY <1>1, <1>3, OneMore
<1> HIDE DEF C
<1>5. \A i \in 1 .. Len(B) : B[i] = (IF long /\ i = 1 THEN T ELSE E)
  <2>1. CASE error
    BY <1>2, <1>3, <2>1
  <2>2. CASE ~error
    BY <1>2, <1>3, <2>2
  <2> QED
    BY <2>1, <2>2
<1>6. Len(B) \in 0 .. 2 /\ (long => Len(B) > 0)
  <2>1. Len(A) = 0 \/ Len(A) = 1
    BY <1>2
  <2>2. Len(B) = Len(A) + 1 \/ Len(B) = Len(A)
    BY <1>3
  <2>3. Len(B) \in 0 .. 2
    <3> DEFINE a == Len(A)
               b == Len(B)
    <3>1. (a = 0 \/ a = 1) /\ (b = a + 1 \/ b = a)
      BY <2>1, <2>2
    <3> HIDE DEF a, b
    <3>2. b \in 0 .. 2
      BY <3>1
    <3> QED
      BY <3>2 DEF b
  <2>4. ASSUME long PROVE Len(B) > 0
    BY <1>2, <2>2, <2>4
  <2> QED
    BY <2>3, <2>4
<1>7. Len(C) \in 1 .. 3 /\ C[Len(C)] = D
  BY <1>4, <1>6
<1>8. \A i \in 1 .. Len(C) - 1 : C[i].kind # "data"
  BY <1>1, <1>4, <1>5
<1>9. CASE long
  <2>1. Len(C) > 1 /\ C[1] = T
    BY <1>4, <1>5, <1>6, <1>9
  <2>2. ASSUME NEW i \in 2 .. Len(C)
        PROVE  C[i].kind # "time"
    <3>1. i = Len(B) + 1 \/ (i \in 1 .. Len(B) /\ i # 1)
      BY <1>4, <1>6
    <3> QED
      BY <1>1, <1>4, <1>5, <3>1
  <2> QED
    BY <1>4, <1>7, <1>8, <1>9, <2>1, <2>2 DEF WordsOf, T, D, E, A, B, C
<1>10. CASE ~long
  <2>1. ASSUME NEW i \in 1 .. Len(C)
        PROVE  C[i].kind # "time"
    <3>1. i = Len(B) + 1 \/ i \in 1 .. Len(B)
      BY <1>4, <1>6
    <3> QED
      BY <1>1, <1>4, <1>5, <1>10, <3>1
  <2> QED
    BY <1>4, <1>7, <1>8, <1>10, <2>1 DEF WordsOf, T, D, E, A, B, C
<1> QED
  BY <1>9, <1>10

(* They are as they have to be behind a log that is.                       *)
LEMMA Appended ==
  ASSUME NEW t \in Nat, NEW long \in BOOLEAN, NEW ws, WordsOf(ws, t, long),
         log \in Seq(Word), NEW from \in Nat, NEW b,
         Covered(log, missed, base, from),
         long => b = Bits(t),
         ~long => /\ Hangs(log, missed, base, Len(log) + 1, b)
                  /\ t >= from => b = Bits(t)
  PROVE  /\ Covered(log \o ws, missed, base, from)
         /\ Hangs(log \o ws, missed, base, Len(log \o ws) + 1, b)
<1> DEFINE all == log \o ws
           l   == Len(log)
           n   == Len(ws)
<1>1. /\ ws \in Seq(Word) /\ n \in 1 .. 3 /\ l \in Nat
      /\ all \in Seq(Word) /\ Len(all) = l + n
      /\ \A i \in 1 .. l + n : all[i] = IF i <= l THEN log[i] ELSE ws[i - l]
  <2>1. ws \in Seq(Word) /\ n \in 1 .. 3
    BY DEF WordsOf
  <2> QED
    BY <2>1, ConcatProperties, LenProperties
<1>2. DOMAIN all = 1 .. l + n /\ DOMAIN log = 1 .. l
  BY <1>1, LenProperties
<1> HIDE DEF all, l, n
<1>3. \A k \in 1 .. l : all[k] = log[k]
  BY <1>1
<1>4. \A k \in 1 .. n : all[l + k] = ws[k]
  BY <1>1
<1>5. /\ ws[n] = DataWord(t, t) /\ DataWord(t, t).bits = t % T13 /\ DataWord(t, t).real = t
      /\ DataWord(t, t).kind = "data"
      /\ \A i \in 1 .. n - 1 : ws[i].kind # "data"
  BY WordTypes DEF WordsOf, n
<1>6. \A j \in l + n .. l + n + 1 : Hangs(all, missed, base, j, b)
  <2> SUFFICES ASSUME NEW j \in l + n .. l + n + 1
               PROVE  Hangs(all, missed, base, j, b)
    OBVIOUS
  <2>1. CASE long
    <3>1. /\ n > 1 /\ ws[1].kind = "time" /\ ws[1].bits = b
          /\ \A i \in 2 .. n : ws[i].kind # "time"
      BY <2>1, WordTypes DEF WordsOf, n
    <3>2. l + 1 \in Nat /\ j \in Nat /\ l + 1 > 0 /\ l + 1 < j
      <4>1. l \in Nat /\ n \in 1 .. 3 /\ n > 1
        BY <1>1, <3>1
      <4> QED
        BY <4>1
    <3>3. all[l + 1].kind = "time" /\ all[l + 1].bits = b
      BY <1>1, <1>4, <3>1
    <3>4. ASSUME NEW k \in (l + 1) + 1 .. j - 1
          PROVE  all[k].kind # "time"
      <4>1. k - l \in 2 .. n /\ k - l \in 1 .. n /\ l + (k - l) = k
        BY <1>1
      <4>2. all[k] = ws[k - l]
        BY <1>4, <4>1
      <4> QED
        BY <3>1, <4>1, <4>2
    <3> DEFINE i == l + 1
    <3>5. /\ i \in Nat /\ j \in Nat /\ i > 0 /\ i < j /\ all[i].kind = "time" /\ all[i].bits = b
          /\ \A k \in i + 1 .. j - 1 : all[k].kind # "time"
      BY <3>2, <3>3, <3>4
    <3> HIDE DEF i
    <3> QED
      BY <3>5, HangsNew, Zenon
  <2>2. CASE ~long
    <3>1. \A i \in 1 .. n : ws[i].kind # "time"
      BY <2>2 DEF WordsOf, n
    <3> DEFINE i == l + 1
    <3>2. i \in Nat /\ j \in Nat /\ i > 0 /\ i <= j
      BY <1>1
    <3>3. \A k \in 1 .. i - 1 : all[k] = log[k]
      BY <1>1, <1>3
    <3>4. \A k \in i .. j - 1 : all[k].kind # "time"
      <4> SUFFICES ASSUME NEW k \in i .. j - 1
                   PROVE  all[k].kind # "time"
        OBVIOUS
      <4>1. k - l \in 1 .. n /\ l + (k - l) = k
        BY <1>1
      <4>2. all[k] = ws[k - l]
        BY <1>4, <4>1
      <4> QED
        BY <3>1, <4>1, <4>2
    <3>5. Hangs(log, missed, base, i, b)
      BY <2>2 DEF l
    <3> HIDE DEF i
    <3> QED
      BY <3>2, <3>3, <3>4, <3>5, HangsOn, Zenon
  <2> QED
    BY <2>1, <2>2
<1>7. t >= from => b = Bits(t)
  OBVIOUS
<1>8. Covered(all, missed, base, from)
  <2> SUFFICES ASSUME NEW i \in 1 .. l + n, all[i].kind = "data"
               PROVE  /\ all[i].bits = all[i].real % T13
                      /\ all[i].real >= from => Hangs(all, missed, base, i, Bits(all[i].real))
    BY <1>2, Zenon DEF Covered
  <2>1. CASE i <= l
    <3>1. i \in 1 .. l /\ all[i] = log[i]
      BY <1>1, <1>3, <2>1
    <3>2. /\ log[i].bits = log[i].real % T13
          /\ log[i].real >= from => Hangs(log, missed, base, i, Bits(log[i].real))
      BY <1>2, <3>1, Zenon DEF Covered
    <3>3. Hangs(log, missed, base, i, Bits(log[i].real)) => Hangs(all, missed, base, i, Bits(log[i].real))
      <4>1. /\ i \in Nat /\ i > 0 /\ i <= i
            /\ \A k \in 1 .. i - 1 : all[k] = log[k]
            /\ \A k \in i .. i - 1 : all[k].kind # "time"
        BY <1>1, <1>3, <3>1
      <4> QED
        BY <4>1, HangsOn, Zenon
    <3> QED
      BY <3>1, <3>2, <3>3, Zenon
  <2>2. CASE i > l /\ i < l + n
    <3>1. i - l \in 1 .. n - 1 /\ i - l \in 1 .. n /\ l + (i - l) = i
      <4>1. l \in Nat /\ n \in 1 .. 3
        BY <1>1
      <4> QED
        BY <2>2, <4>1
    <3>2. all[i] = ws[i - l]
      BY <1>4, <3>1
    <3> QED
      BY <1>5, <3>1, <3>2
  <2>3. CASE i = l + n
    <3>1. n \in 1 .. n /\ l + n \in l + n .. l + n + 1
      BY <1>1
    <3>2. all[i] = DataWord(t, t)
      BY <1>4, <1>5, <2>3, <3>1
    <3>3. Hangs(all, missed, base, i, b)
      BY <1>6, <2>3, <3>1
    <3> QED
      BY <1>5, <1>7, <3>2, <3>3
  <2> QED
    BY <1>1, <2>1, <2>2, <2>3
<1>9. Hangs(all, missed, base, Len(all) + 1, b)
  <2>1. Len(all) + 1 = l + n + 1 /\ l + n + 1 \in l + n .. l + n + 1
    BY <1>1
  <2> QED
    BY <1>6, <2>1
<1> QED
  BY <1>8, <1>9 DEF all

-----------------------------------------------------------------------------
(* The invariant, action by action.                                        *)

LEMMA InitLog == Init => LogInv
<1> SUFFICES ASSUME Init
             PROVE  LogInv
  OBVIOUS
<1>1. /\ now \in 0 .. MaxTime /\ dma = <<>> /\ pc = "start" /\ left = 0 /\ currtime = 0
      /\ ll = 0 /\ time = 0 /\ last = 0 /\ stopped = FALSE
      /\ base = <<>> /\ missed = FALSE /\ shown = <<>> /\ since = 0
  BY DEF Init
<1>2. log \in Seq(Word) /\ Len(log) = 1 /\ \A i \in DOMAIN log : log[i].kind = "ctrl"
  <2>1. log = <<[kind |-> "ctrl"]>> /\ [kind |-> "ctrl"] \in Word
    BY DEF Init, Word
  <2> QED
    BY <2>1
<1>3. TypeOK
  <2>1. /\ Len(dma) = 0 /\ MaxDma \in Nat /\ MaxTime \in Nat /\ Capacity >= 3 /\ Capacity \in Nat
        /\ FALSE \in BOOLEAN
    BY <1>1
  <2>2. left \in 0 .. Len(dma) /\ {currtime, ll, time, last} \subseteq 0 .. MaxTime
    BY <1>1, <2>1
  <2>3. Len(dma) <= MaxDma /\ Len(log) <= Capacity
    <3>1. 0 <= MaxDma /\ 1 <= Capacity
      BY <2>1
    <3> QED
      BY <1>2, <2>1, <3>1, Zenon
  <2>5. stopped \in BOOLEAN /\ missed \in BOOLEAN
    BY <1>1, Zenon
  <2>4. now \in 0 .. MaxTime /\ pc \in {"start", "idle", "counted", "copy"} /\ log \in Seq(Word)
    BY <1>1, <1>2
  <2> QED
    BY <2>2, <2>3, <2>4, <2>5, Zenon DEF TypeOK
<1>4. Entries /\ Kept /\ DecodedRight
  BY <1>1 DEF Entries, Kept, DecodedRight
<1>5. LogRight
  BY <1>1, <1>2 DEF LogRight, Covered
<1> QED
  BY <1>1, <1>3, <1>4, <1>5 DEF LogInv

(* Nothing of the log moves.                                               *)
LEMMA LogKept ==
  ASSUME LogRight, DecodedRight, UNCHANGED <<log, missed, base, since, last, shown>>,
         pc' = pc \/ (pc # "start" /\ pc' # "start")
  PROVE  LogRight' /\ DecodedRight'
<1>1. DecodedRight'
  BY Zenon DEF DecodedRight
<1>2. Current' = Current
  BY Zenon DEF Current
<1>3. Covered(log, missed, base, since)'
  BY Zenon DEF LogRight, Covered, Hangs, Bits
<1>4. pc' # "start" => Hangs(log, missed, base, Len(log) + 1, Bits(Current))'
  BY <1>2, Zenon DEF LogRight, Hangs, Bits
<1>5. /\ base' \in {<<>>} \cup {<<b>> : b \in Nat}
      /\ shown' \in {<<>>} \cup {<<v>> : v \in [as : Nat, real : Nat]}
      /\ pc' = "start" => (\A i \in DOMAIN log' : log'[i].kind = "ctrl") /\ shown' = <<>> /\ last' = 0
  BY Zenon DEF LogRight
<1> QED
  BY <1>1, <1>3, <1>4, <1>5, Zenon DEF LogRight

LEMMA DmaType ==
  ASSUME Entries
  PROVE  /\ dma \in Seq(Entry) /\ Len(dma) \in Nat /\ DOMAIN dma = 1 .. Len(dma)
         /\ \A i \in 1 .. Len(dma) : dma[i] \in Entry /\ dma[i].real \in Nat
<1>1. dma \in Seq(Entry)
  BY DEF Entries
<1>2. \A i \in 1 .. Len(dma) : dma[i] \in Entry
  BY <1>1, ElementOfSeq
<1> QED
  BY <1>1, <1>2, LenProperties DEF Entry

LEMMA TickLog == LogInv /\ Tick => LogInv'
<1> SUFFICES ASSUME LogInv, Tick
             PROVE  LogInv'
  OBVIOUS
<1>1. /\ now < MaxTime /\ now' = now + 1
      /\ Unsampled # <<>> => now < Head(Unsampled).real + T24
      /\ UNCHANGED <<dma, pc, left, currtime, ll, time, last, stopped, log, base, missed, shown, since>>
  BY DEF Tick, task, client
<1>2. /\ now \in 0 .. MaxTime /\ left \in 0 .. Len(dma) /\ now + 1 \in 0 .. MaxTime
      /\ MaxTime \in Nat /\ T24 \in Nat
  BY <1>1 DEF LogInv, TypeOK
<1>3. TypeOK'
  BY <1>1, <1>2 DEF LogInv, TypeOK
<1>4. LogRight' /\ DecodedRight' /\ ~stopped'
  BY <1>1, LogKept DEF LogInv
<1>5. Kept'
  <2>1. last' <= now' /\ currtime' <= now' /\ since' \in 0 .. now'
    <3>1. last <= now /\ currtime <= now /\ since \in 0 .. now /\ {last, currtime} \subseteq Nat
      BY DEF LogInv, Kept, TypeOK
    <3> QED
      BY <1>1, <1>2, <3>1
  <2> QED
    BY <1>1, <2>1, Zenon DEF LogInv, Kept, Upper
<1>6. Entries
  BY DEF LogInv
<1>7. ASSUME NEW i \in 1 .. Len(dma), ~(pc = "copy" /\ i <= left)
      PROVE  now + 1 <= dma[i].real + T24
  <2> DEFINE k == IF pc = "copy" THEN left + 1 ELSE 1
  <2>1. k \in 1 .. Len(dma) /\ k <= i
    BY <1>2, <1>6, <1>7, DmaType
  <2>2. Unsampled # <<>> /\ Head(Unsampled) = dma[k]
    <3>1. CASE pc = "copy"
      <4>1. Unsampled = SubSeq(dma, k, Len(dma)) /\ dma \in Seq(Entry) /\ Len(dma) \in k .. Len(dma)
        BY <1>6, <2>1, <3>1, DmaType DEF Unsampled
      <4> HIDE DEF k
      <4>2. Head(SubSeq(dma, k, Len(dma))) = dma[k]
        BY <2>1, <4>1, HeadTailOfSubSeq
      <4>3. Len(SubSeq(dma, k, Len(dma))) > 0
        <5>1. k \in Nat /\ Len(dma) \in Nat /\ \A j \in k .. Len(dma) : dma[j] \in Entry
          BY <1>6, <2>1, DmaType
        <5>2. Len(SubSeq(dma, k, Len(dma))) = Len(dma) - k + 1
          BY <2>1, <5>1, SubSeqProperties
        <5> QED
          BY <2>1, <5>1, <5>2
      <4>4. SubSeq(dma, k, Len(dma)) # <<>>
        <5> SUFFICES ASSUME SubSeq(dma, k, Len(dma)) = <<>>
                     PROVE  FALSE
          OBVIOUS
        <5>1. Len(SubSeq(dma, k, Len(dma))) = 0
          OBVIOUS
        <5> QED
          BY <4>3, <5>1
      <4> QED
        BY <4>1, <4>2, <4>4
    <3>2. CASE pc # "copy"
      <4>1. Unsampled = dma /\ dma # <<>>
        BY <1>6, <2>1, <3>2, DmaType DEF Unsampled
      <4> QED
        BY <3>2, <4>1
    <3> QED
      BY <3>1, <3>2
  <2>3. now < dma[k].real + T24
    BY <1>1, <2>2
  <2>4. dma[k].real <= dma[i].real
    <3>1. k = i \/ k < i
      BY <2>1
    <3>2. k < i => dma[k].real <= dma[i].real
      BY <1>6, <2>1, DmaType DEF Entries
    <3>3. dma[i].real \in Nat
      BY <1>6, DmaType
    <3> QED
      BY <3>1, <3>2, <3>3
  <2> HIDE DEF k
  <2>5. dma[k].real \in Nat /\ dma[i].real \in Nat
    BY <1>6, <2>1, DmaType
  <2> QED
    <3> DEFINE a == dma[k].real
               b == dma[i].real
    <3>1. now < a + T24 /\ a <= b /\ a \in Nat /\ b \in Nat /\ now \in Nat /\ T24 \in Nat
      BY <1>2, <2>3, <2>4, <2>5
    <3> HIDE DEF a, b
    <3>2. now + 1 <= b + T24
      BY <3>1
    <3> QED
      BY <3>2 DEF b
<1>8. Entries'
  <2>1. \A i \in 1 .. Len(dma) : dma[i].real \in Nat
    BY <1>6, DmaType
  <2>2. ASSUME NEW i \in 1 .. Len(dma)
        PROVE  /\ dma[i].time = dma[i].real % T24
               /\ last <= dma[i].real /\ dma[i].real <= now + 1
               /\ IF pc = "copy" /\ i <= left
                    THEN dma[i].real < currtime /\ currtime <= dma[i].real + T24
                    ELSE now + 1 <= dma[i].real + T24
    <3>1. /\ dma[i].time = dma[i].real % T24
          /\ last <= dma[i].real /\ dma[i].real <= now
          /\ pc = "copy" /\ i <= left => dma[i].real < currtime /\ currtime <= dma[i].real + T24
      BY <1>6, DmaType DEF Entries
    <3> QED
      BY <1>2, <1>7, <2>1, <3>1
  <2> QED
    BY <1>1, <1>6, <2>2, DmaType DEF Entries
<1> QED
  BY <1>3, <1>4, <1>5, <1>8 DEF LogInv

LEMMA MessageLog == LogInv /\ Message => LogInv'
<1> SUFFICES ASSUME LogInv, Message
             PROVE  LogInv'
  OBVIOUS
<1>1. PICK e \in BOOLEAN : dma' = Append(dma, [time |-> now % T24, error |-> e, real |-> now])
  BY DEF Message
<1>2. /\ Len(dma) < MaxDma
      /\ UNCHANGED <<now, pc, left, currtime, ll, time, last, stopped, log, base, missed, shown, since>>
  BY DEF Message, task, client
<1> DEFINE new == [time |-> now % T24, error |-> e, real |-> now]
<1>3. now \in Nat /\ left \in 0 .. Len(dma) /\ T24 \in Nat /\ T24 > 0 /\ MaxDma \in Nat /\ last <= now
  BY DEF LogInv, TypeOK, Kept
<1>4. new \in Entry /\ new.time = now % T24 /\ new.real = now
  BY <1>3 DEF Entry
<1>5. dma \in Seq(Entry) /\ Len(dma) \in Nat /\ DOMAIN dma = 1 .. Len(dma) /\ Entries
  BY DmaType DEF LogInv
<1> HIDE DEF new
<1>6. /\ dma' \in Seq(Entry) /\ Len(dma') = Len(dma) + 1 /\ DOMAIN dma' = 1 .. Len(dma) + 1
      /\ \A i \in 1 .. Len(dma) : dma'[i] = dma[i]
      /\ dma'[Len(dma) + 1] = new
  <2>1. dma' = Append(dma, new)
    BY <1>1 DEF new
  <2> QED
    BY <1>4, <1>5, <2>1, AppendProperties, LenProperties
<1>7. TypeOK'
  BY <1>2, <1>3, <1>5, <1>6 DEF LogInv, TypeOK
<1>8. LogRight' /\ DecodedRight' /\ ~stopped' /\ Kept'
  BY <1>2, LogKept DEF LogInv, Kept, Upper
<1>9. Entries'
  <2>1. ASSUME NEW i \in 1 .. Len(dma) + 1
        PROVE  /\ dma'[i].time = dma'[i].real % T24
               /\ last <= dma'[i].real /\ dma'[i].real <= now
               /\ IF pc = "copy" /\ i <= left
                    THEN dma'[i].real < currtime /\ currtime <= dma'[i].real + T24
                    ELSE now <= dma'[i].real + T24
    <3>1. CASE i = Len(dma) + 1
      <4>1. dma'[i] = new /\ ~(i <= left)
        BY <1>3, <1>5, <1>6, <3>1
      <4> QED
        BY <1>3, <1>4, <4>1
    <3>2. CASE i \in 1 .. Len(dma)
      BY <1>5, <1>6, <3>2 DEF Entries
    <3> QED
      BY <1>5, <3>1, <3>2
  <2>2. ASSUME NEW i \in 1 .. Len(dma) + 1, NEW k \in 1 .. Len(dma) + 1, i < k
        PROVE  dma'[i].real <= dma'[k].real
    <3>1. i \in 1 .. Len(dma)
      BY <1>5, <2>2
    <3>2. CASE k = Len(dma) + 1
      <4>1. dma'[k].real = now /\ dma'[i] = dma[i]
        BY <1>4, <1>6, <3>1, <3>2
      <4> QED
        BY <1>5, <3>1, <4>1 DEF Entries
    <3>3. CASE k \in 1 .. Len(dma)
      BY <1>5, <1>6, <2>2, <3>1, <3>3 DEF Entries
    <3> QED
      BY <1>5, <3>2, <3>3
  <2>3. pc' \in {"counted", "copy"} => left' > 0
    BY <1>2, <1>5 DEF Entries
  <2> QED
    BY <1>2, <1>6, <2>1, <2>2, <2>3 DEF Entries
<1> QED
  BY <1>7, <1>8, <1>9 DEF LogInv

LEMMA FirstWordsLog == LogInv /\ FirstWords => LogInv'
<1> SUFFICES ASSUME LogInv, FirstWords
             PROVE  LogInv'
  OBVIOUS
<1> DEFINE ws == <<TimeWord(now), DataWord(now, now)>>
<1>1. /\ pc = "start" /\ pc' = "idle" /\ LogAdd(ws) /\ since' = now
      /\ UNCHANGED <<now, dma, left, currtime, ll, time, last, stopped, base, shown>>
  BY DEF FirstWords
<1>2. now \in Nat /\ log \in Seq(Word) /\ Len(log) <= Capacity /\ missed \in BOOLEAN
  BY DEF LogInv, TypeOK
<1>3. WordsOf(ws, now, TRUE)
  <2> DEFINE T == TimeWord(now)
             D == DataWord(now, now)
  <2>1. T \in Word /\ D \in Word /\ T.kind = "time" /\ D.kind = "data"
    BY <1>2, WordTypes
  <2> HIDE DEF T, D
  <2>2. /\ <<T, D>> \in Seq(Word) /\ Len(<<T, D>>) = 2 /\ <<T, D>>[1] = T /\ <<T, D>>[2] = D
    BY <2>1
  <2>3. 2 \in 1 .. 3 /\ 2 > 1
    OBVIOUS
  <2>4. /\ \A i \in 1 .. 2 - 1 : <<T, D>>[i].kind # "data"
        /\ \A i \in 2 .. 2 : <<T, D>>[i].kind # "time"
    BY <2>1, <2>2
  <2> QED
    BY <2>2, <2>3, <2>4, Zenon DEF WordsOf, T, D
<1>4. \A i \in DOMAIN log : log[i].kind = "ctrl"
  BY <1>1 DEF LogInv, LogRight
<1>5. Covered(log, missed, base, now)
  BY <1>4 DEF Covered
<1>6. Len(ws) <= Capacity
  BY <1>3 DEF WordsOf
<1>7. ws \in Seq(Word)
  BY <1>3 DEF WordsOf
<1> HIDE DEF ws
<1>8. /\ Covered(log \o ws, missed, base, now)
      /\ Hangs(log \o ws, missed, base, Len(log \o ws) + 1, Bits(now))
  BY <1>2, <1>3, <1>5, Appended
<1>9. /\ log' \in Seq(Word) /\ Len(log') <= Capacity /\ missed' \in BOOLEAN
      /\ Covered(log', missed', base, now)
      /\ Hangs(log', missed', base, Len(log') + 1, Bits(now))
  BY <1>1, <1>2, <1>6, <1>7, <1>8, Added
<1>10. TypeOK'
  BY <1>1, <1>9 DEF LogInv, TypeOK
<1>11. LogRight'
  <2>1. last = 0 /\ shown = <<>>
    BY <1>1 DEF LogInv, LogRight
  <2>2. Current' = now
    BY <1>1, <2>1 DEF Current
  <2>3. Covered(log, missed, base, since)'
    BY <1>1, <1>9, Zenon DEF Covered, Hangs, Bits
  <2>4. Hangs(log, missed, base, Len(log) + 1, Bits(Current))'
    BY <1>1, <1>9, <2>2, Zenon DEF Hangs, Bits
  <2>5. /\ base' \in {<<>>} \cup {<<b>> : b \in Nat}
        /\ shown' \in {<<>>} \cup {<<v>> : v \in [as : Nat, real : Nat]}
    BY <1>1, Zenon DEF LogInv, LogRight
  <2> QED
    BY <1>1, <2>3, <2>4, <2>5 DEF LogRight
<1>12. DecodedRight' /\ ~stopped'
  <2>1. shown' = <<>>
    BY <1>1 DEF LogInv, LogRight
  <2> QED
    BY <1>1, <2>1 DEF LogInv, DecodedRight
<1>13. Kept'
  BY <1>1, <1>2 DEF LogInv, Kept, Upper
<1>14. Entries'
  BY <1>1 DEF LogInv, Entries
<1> QED
  BY <1>10, <1>11, <1>12, <1>13, <1>14 DEF LogInv

LEMMA ReadLog == LogInv /\ Read => LogInv'
<1> SUFFICES ASSUME LogInv, Read
             PROVE  LogInv'
  OBVIOUS
<1>1. /\ pc = "idle" /\ pc' = "counted" /\ left' \in 1 .. Len(dma)
      /\ UNCHANGED <<now, dma, currtime, ll, time, last, stopped, log, base, missed, shown, since>>
  BY DEF Read, client
<1>2. Entries /\ DOMAIN dma = 1 .. Len(dma) /\ Len(dma) \in Nat
  BY DmaType DEF LogInv
<1>3. TypeOK'
  BY <1>1, <1>2 DEF LogInv, TypeOK
<1>4. LogRight' /\ DecodedRight' /\ ~stopped'
  BY <1>1, LogKept DEF LogInv
<1>5. Kept'
  BY <1>1 DEF LogInv, Kept
<1>6. Entries'
  BY <1>1, <1>2 DEF Entries
<1> QED
  BY <1>3, <1>4, <1>5, <1>6 DEF LogInv

LEMMA SampleLog == LogInv /\ Sample => LogInv'
<1> SUFFICES ASSUME LogInv, Sample
             PROVE  LogInv'
  OBVIOUS
<1>1. /\ pc = "counted" /\ pc' = "copy" /\ now > dma[left].real /\ currtime' = now /\ ll' = Upper(time)
      /\ UNCHANGED <<now, dma, left, time, last, stopped, log, base, missed, shown, since>>
  BY DEF Sample, client
<1>2. /\ Entries /\ DOMAIN dma = 1 .. Len(dma) /\ Len(dma) \in Nat
      /\ \A i \in 1 .. Len(dma) : dma[i].real \in Nat
  BY DmaType DEF LogInv
<1>3. now \in 0 .. MaxTime /\ left \in 1 .. Len(dma) /\ time \in 0 .. MaxTime /\ MaxTime \in Nat /\ time = last
  BY <1>1, <1>2 DEF LogInv, TypeOK, Entries, Kept
<1>4. ll' \in 0 .. MaxTime
  <2>1. time \in Nat
    BY <1>3
  <2>2. Upper(time) \in Nat /\ Upper(time) <= time
    BY <2>1, UpperIs, Zenon
  <2> QED
    BY <1>1, <1>3, <2>2
<1>5. TypeOK'
  BY <1>1, <1>3, <1>4 DEF LogInv, TypeOK
<1>6. LogRight' /\ DecodedRight' /\ ~stopped'
  BY <1>1, LogKept DEF LogInv
<1>7. Kept'
  BY <1>1, <1>3 DEF LogInv, Kept, Upper
<1>8. ASSUME NEW i \in 1 .. Len(dma)
      PROVE  i <= left => dma[i].real < now
  <2>1. i < left => dma[i].real <= dma[left].real
    BY <1>2, <1>3 DEF Entries
  <2> QED
    BY <1>1, <1>2, <1>3, <2>1
<1>9. Entries'
  BY <1>1, <1>2, <1>3, <1>8 DEF Entries
<1> QED
  BY <1>5, <1>6, <1>7, <1>9 DEF LogInv

(* The time word that the words of an entry of time t hang on, if those    *)
(* before it hang on that of Current.                                      *)
LEMMA NextCurrent ==
  ASSUME NEW t \in Nat, last \in Nat, since \in Nat, last <= t, NEW b,
         b = Bits(IF t < T13 THEN since ELSE t)
  PROVE  /\ Upper(t) > Upper(last) => b = Bits(t)
         /\ ~(Upper(t) > Upper(last)) => b = Bits(Current) /\ Upper(t) = Upper(last)
         /\ t >= since => b = Bits(t) \/ Upper(t) > Upper(last)
<1> DEFINE u == Upper(t)
           v == Upper(last)
           w == Upper(since)
<1>1. u \in Nat /\ v \in Nat /\ w \in Nat /\ T13 \in Nat
  BY UpperIs, Zenon
<1>2. v <= u /\ (~(u > v) => Bits(t) = Bits(last))
  BY SameUpper, Zenon
<1>3. t >= since => w <= u /\ (~(u > w) => Bits(t) = Bits(since))
  <2>1. t >= since => since <= t
    OBVIOUS
  <2> QED
    BY <2>1, SameUpper, Zenon
<1>4. (u > 0 <=> t >= T13) /\ (v > 0 <=> last >= T13)
  BY SmallUpper, Zenon
<1> HIDE DEF u, v, w
<1>5. u > v => t >= T13
  BY <1>1, <1>4
<1>6. ~(u > v) => u = v /\ (t < T13 <=> last < T13)
  BY <1>1, <1>2, <1>4
<1>7. t >= T13 => ~(t < T13)
  BY <1>1
<1>8. t < T13 => ~(u > w)
  BY <1>1, <1>4
<1>9. b = Bits(t) \/ t < T13
  OBVIOUS
<1>10. t < T13 => b = Bits(since)
  OBVIOUS
<1>11. u > v => b = Bits(t)
  BY <1>5, <1>7, <1>9
<1>12. ~(u > v) => b = Bits(Current)
  <2>1. CASE t < T13
    BY <1>6, <1>10, <2>1 DEF Current
  <2>2. CASE ~(t < T13)
    <3>1. ~(u > v) => Current = last
      BY <1>6, <2>2 DEF Current
    <3> QED
      BY <1>2, <1>9, <2>2, <3>1, Zenon
  <2> QED
    BY <2>1, <2>2
<1>13. t >= since => b = Bits(t)
  BY <1>3, <1>8, <1>9, <1>10, Zenon
<1> QED
  BY <1>6, <1>11, <1>12, <1>13, Zenon DEF u, v

LEMMA CopyEntryLog == LogInv /\ CopyEntry => LogInv'
<1> SUFFICES ASSUME LogInv, CopyEntry
             PROVE  LogInv'
  OBVIOUS
<1> DEFINE e == Head(dma)
           t == dma[1].real
           long == Upper(t) > ll
           ws == (IF long THEN <<TimeWord(t)>> ELSE <<>>)
                   \o (IF e.error THEN <<[kind |-> "err"]>> ELSE <<>>) \o <<DataWord(t, t)>>
<1>1. /\ pc = "copy" /\ left > 0 /\ UNCHANGED <<now, base, shown, since>>
  BY DEF CopyEntry
<1>2. /\ Entries /\ dma \in Seq(Entry) /\ DOMAIN dma = 1 .. Len(dma) /\ Len(dma) \in Nat
      /\ \A i \in 1 .. Len(dma) : dma[i] \in Entry /\ dma[i].real \in Nat
  BY DmaType DEF LogInv
<1>3. /\ now \in 0 .. MaxTime /\ left \in 1 .. Len(dma) /\ currtime \in Nat /\ last \in Nat /\ last <= now
      /\ ll = Upper(last) /\ since \in Nat /\ MaxTime \in Nat /\ Len(dma) <= MaxDma /\ MaxDma \in Nat
  BY <1>1 DEF LogInv, TypeOK, Kept
<1>4. e = dma[1] /\ 1 \in 1 .. Len(dma) /\ 1 <= left
  BY <1>2, <1>3, HeadTailProperties
<1>5. /\ e.real = t /\ e.error \in BOOLEAN /\ t \in Nat /\ last <= t /\ t <= now
      /\ t < currtime /\ currtime <= t + T24 /\ e.time = t % T24
  <2>1. dma[1] \in Entry
    BY <1>2, <1>4
  <2>2. /\ last <= t /\ t <= now /\ t < currtime /\ currtime <= t + T24 /\ dma[1].time = t % T24
    BY <1>1, <1>2, <1>4 DEF Entries
  <2> QED
    BY <1>4, <2>1, <2>2 DEF Entry
<1>6. LogTime(e.time) = t
  <2> HIDE DEF e, t
  <2> QED
    BY <1>3, <1>5, WidensRight
<1>7. ~(last > t)
  BY <1>3, <1>5
<1> HIDE DEF t, e
<1>8. /\ last' = t /\ LogAdd(ws) /\ dma' = Tail(dma) /\ left' = left - 1 /\ stopped' = stopped
      /\ IF left = 1 THEN pc' = "idle" /\ time' = t /\ ll' = 0 /\ currtime' = 0
                     ELSE /\ ll' = IF long THEN Upper(t) ELSE ll
                          /\ pc' = pc /\ time' = time /\ currtime' = currtime
  <2> HIDE DEF LogAdd
  <2> QED
    BY <1>5, <1>6, <1>7 DEF CopyEntry, e
<1>9. long \in BOOLEAN
  OBVIOUS
<1>10. WordsOf(ws, t, long)
  <2> HIDE DEF long
  <2> QED
    BY <1>5, <1>9, EntryWords
<1> DEFINE b == Bits(IF t < T13 THEN since ELSE t)
<1>11. /\ long => b = Bits(t)
       /\ ~long => b = Bits(Current) /\ Upper(t) = ll
       /\ t >= since => b = Bits(t)
  BY <1>3, <1>5, NextCurrent, Zenon
<1> HIDE DEF ws, long, b
<1>12. /\ ws \in Seq(Word) /\ Len(ws) <= Capacity
       /\ log \in Seq(Word) /\ Len(log) <= Capacity /\ missed \in BOOLEAN
       /\ Covered(log, missed, base, since)
       /\ Hangs(log, missed, base, Len(log) + 1, Bits(Current))
  <2>1. Len(ws) \in 1 .. 3 /\ Capacity \in Nat /\ Capacity >= 3 /\ ws \in Seq(Word)
    BY <1>10 DEF WordsOf
  <2>2. Len(ws) <= Capacity
    <3> DEFINE n == Len(ws)
    <3>1. n \in 1 .. 3 /\ Capacity \in Nat /\ Capacity >= 3
      BY <2>1
    <3> HIDE DEF n
    <3>2. n <= Capacity
      BY <3>1
    <3> QED
      BY <3>2 DEF n
  <2>3. pc # "start"
    BY <1>1
  <2> QED
    BY <2>1, <2>2, <2>3, Zenon DEF LogInv, LogRight, TypeOK
<1>13. /\ Covered(log \o ws, missed, base, since)
       /\ Hangs(log \o ws, missed, base, Len(log \o ws) + 1, b)
  <2>1. ~long => Hangs(log, missed, base, Len(log) + 1, b) /\ (t >= since => b = Bits(t))
    BY <1>11, <1>12, Zenon
  <2> QED
    BY <1>3, <1>5, <1>9, <1>10, <1>11, <1>12, <2>1, Appended, Zenon
<1>14. /\ log' \in Seq(Word) /\ Len(log') <= Capacity /\ missed' \in BOOLEAN
       /\ Covered(log', missed', base, since)
       /\ Hangs(log', missed', base, Len(log') + 1, b)
  BY <1>8, <1>12, <1>13, Added, Zenon
<1>15. LogRight'
  <2>1. Bits(Current)' = b
    BY <1>1, <1>8 DEF Current, Bits, b
  <2>2. Covered(log, missed, base, since)'
    BY <1>1, <1>14, Zenon DEF Covered, Hangs, Bits
  <2>3. Hangs(log, missed, base, Len(log) + 1, Bits(Current))'
    BY <1>1, <1>14, <2>1, Zenon DEF Hangs
  <2>4. pc' # "start"
    BY <1>1, <1>8
  <2> QED
    BY <1>1, <2>2, <2>3, <2>4, Zenon DEF LogInv, LogRight
<1>16. DecodedRight' /\ ~stopped'
  BY <1>1, <1>8, Zenon DEF LogInv, DecodedRight
<1>17. /\ dma' \in Seq(Entry) /\ Len(dma') = Len(dma) - 1 /\ DOMAIN dma' = 1 .. Len(dma) - 1
       /\ \A i \in 1 .. Len(dma) - 1 : dma'[i] = dma[i + 1]
  <2>1. dma # <<>>
    BY <1>2, <1>3
  <2>2. /\ Tail(dma) \in Seq(Entry) /\ Len(Tail(dma)) = Len(dma) - 1
        /\ \A i \in 1 .. Len(Tail(dma)) : Tail(dma)[i] = dma[i + 1]
    BY <1>2, <2>1, HeadTailProperties
  <2> QED
    BY <1>8, <2>2, LenProperties
<1>18. Upper(t) \in 0 .. MaxTime /\ (left # 1 => ll' = Upper(t))
  <2>1. Upper(t) \in Nat /\ Upper(t) <= t
    BY <1>5, UpperIs, Zenon
  <2>2. left # 1 => ll' = Upper(t)
    BY <1>8, <1>11
  <2> QED
    BY <1>3, <1>5, <2>1, <2>2
<1>19. TypeOK'
  <2>1. now' \in 0 .. MaxTime /\ last' \in 0 .. MaxTime /\ time' \in 0 .. MaxTime
        /\ currtime' \in 0 .. MaxTime /\ ll' \in 0 .. MaxTime
    <3>1. {currtime, time} \subseteq 0 .. MaxTime /\ t \in 0 .. MaxTime
      BY <1>3, <1>5 DEF LogInv, TypeOK
    <3> QED
      BY <1>1, <1>3, <1>8, <1>18, <3>1
  <2>2. Len(dma') <= MaxDma /\ left' \in 0 .. Len(dma')
    BY <1>2, <1>3, <1>8, <1>17
  <2>3. pc' \in {"start", "idle", "counted", "copy"} /\ stopped' \in BOOLEAN
    <3>1. stopped \in BOOLEAN
      BY DEF LogInv, TypeOK
    <3>2. pc' \in {"idle", "copy"}
      BY <1>1, <1>8
    <3> QED
      BY <1>8, <3>1, <3>2
  <2> QED
    BY <1>14, <2>1, <2>2, <2>3, Zenon DEF TypeOK
<1>20. Kept'
  <2>1. Upper(last)' = Upper(t)
    BY <1>8 DEF Upper
  <2>2. IF pc' = "copy" THEN ll' = Upper(last)' ELSE time' = last'
    BY <1>1, <1>8, <1>18, <2>1
  <2>3. last' <= now' /\ currtime' <= now' /\ since' \in 0 .. now'
    <3>1. currtime <= now /\ since \in 0 .. now
      BY DEF LogInv, Kept
    <3> QED
      BY <1>1, <1>3, <1>5, <1>8, <3>1
  <2> QED
    BY <2>2, <2>3, Zenon DEF Kept
<1>21. Entries'
  <2>1. ASSUME NEW i \in 1 .. Len(dma) - 1
        PROVE  /\ dma'[i].time = dma'[i].real % T24
               /\ last' <= dma'[i].real /\ dma'[i].real <= now
               /\ IF pc' = "copy" /\ i <= left'
                    THEN dma'[i].real < currtime' /\ currtime' <= dma'[i].real + T24
                    ELSE now <= dma'[i].real + T24
    <3> DEFINE k == i + 1
    <3>1. k \in 1 .. Len(dma) /\ 1 < k /\ (i <= left' <=> k <= left) /\ dma'[i] = dma[k]
      BY <1>2, <1>3, <1>8, <1>17
    <3> HIDE DEF k
    <3>2. t <= dma[k].real
      BY <1>2, <1>4, <3>1 DEF Entries, t
    <3>3. /\ dma[k].time = dma[k].real % T24 /\ dma[k].real <= now
          /\ IF k <= left THEN dma[k].real < currtime /\ currtime <= dma[k].real + T24
                          ELSE now <= dma[k].real + T24
      BY <1>1, <1>2, <3>1 DEF Entries
    <3>4. pc' = "copy" => currtime' = currtime
      BY <1>8
    <3>5. pc' # "copy" => ~(k <= left)
      BY <1>1, <1>3, <1>8, <3>1
    <3> QED
      BY <1>8, <3>1, <3>2, <3>3, <3>4, <3>5
  <2>2. ASSUME NEW i \in 1 .. Len(dma) - 1, NEW k \in 1 .. Len(dma) - 1, i < k
        PROVE  dma'[i].real <= dma'[k].real
    <3>1. i + 1 \in 1 .. Len(dma) /\ k + 1 \in 1 .. Len(dma) /\ i + 1 < k + 1
      BY <1>2, <2>2
    <3>2. dma[i + 1].real <= dma[k + 1].real
      BY <1>2, <3>1 DEF Entries
    <3> QED
      BY <1>17, <3>2
  <2>3. pc' \in {"counted", "copy"} => left' > 0
    BY <1>1, <1>3, <1>8
  <2> QED
    BY <1>1, <1>17, <2>1, <2>2, <2>3 DEF Entries
<1> QED
  BY <1>15, <1>16, <1>19, <1>20, <1>21 DEF LogInv

(* What the client has got of a log whose first word is taken.             *)
LEMMA Taken ==
  ASSUME log \in Seq(Word), log # <<>>, log' = Tail(log), NEW from, from = since,
         NEW gone, NEW have,
         Covered(log, missed, base, from),
         Head(log).kind = "time" => have = <<Head(log).bits>>,
         Head(log).kind # "time" => gone = missed /\ have = base
  PROVE  /\ log' \in Seq(Word) /\ Len(log') + 1 = Len(log) /\ Len(log') \in Nat
         /\ \A i \in 1 .. Len(log') : log'[i] = log[i + 1]
         /\ Covered(log', gone, have, from)
         /\ \A b : Hangs(log, missed, base, Len(log) + 1, b)
                     => Hangs(log', gone, have, Len(log') + 1, b)
<1> DEFINE r == Tail(log)
<1>1. /\ r \in Seq(Word) /\ Len(r) \in Nat /\ Len(r) + 1 = Len(log)
      /\ \A i \in 1 .. Len(r) : r[i] = log[i + 1]
      /\ DOMAIN r = 1 .. Len(r) /\ DOMAIN log = 1 .. Len(log) /\ Len(log) \in Nat
      /\ Head(log) = log[1]
  BY HeadTailProperties, LenProperties
<1>2. log' = r
  OBVIOUS
<1> HIDE DEF r
<1>3. ASSUME NEW i \in 2 .. Len(log) + 1, NEW b, Hangs(log, missed, base, i, b)
      PROVE  Hangs(r, gone, have, i - 1, b)
  <2>1. /\ i \in Nat /\ i > 1 /\ 1 \in Nat
        /\ \A j \in 1 .. i - 1 - 1 : r[j] = log[j + 1]
    <3>1. \A j \in 1 .. i - 1 - 1 : j \in 1 .. Len(r)
      BY <1>1
    <3> QED
      BY <1>1, <3>1
  <2>3. 1 \in 1 .. 1
    OBVIOUS
  <2>4. /\ log[1].kind = "time" => have = <<log[1].bits>>
        /\ log[1].kind # "time" => gone = missed /\ have = base
    BY <1>1
  <2>5. ASSUME NEW k \in 1 .. 1, log[k].kind = "time"
        PROVE  gone \/ have = <<log[k].bits>>
    <3>1. k = 1
      OBVIOUS
    <3> QED
      BY <2>4, <2>5, <3>1, Zenon
  <2>6. ASSUME \A m \in 1 .. 1 : log[m].kind # "time", missed \/ base = <<b>>
        PROVE  gone \/ have = <<b>>
    <3>1. log[1].kind # "time"
      BY <2>3, <2>6
    <3>2. gone = missed /\ have = base
      BY <2>4, <3>1
    <3> QED
      BY <2>6, <3>2, Zenon
  <2>7. /\ \A k \in 1 .. 1 : log[k].kind = "time" /\ (\A m \in k + 1 .. 1 : log[m].kind # "time")
                               => gone \/ have = <<log[k].bits>>
        /\ (\A m \in 1 .. 1 : log[m].kind # "time") /\ (missed \/ base = <<b>>)
             => gone \/ have = <<b>>
    BY <2>5, <2>6, Zenon
  <2> QED
    BY <1>3, <2>1, <2>7, HangsShift, Zenon
<1>4. Covered(r, gone, have, from)
  <2> SUFFICES ASSUME NEW i \in 1 .. Len(r), r[i].kind = "data"
               PROVE  /\ r[i].bits = r[i].real % T13
                      /\ r[i].real >= from => Hangs(r, gone, have, i, Bits(r[i].real))
    BY <1>1, Zenon DEF Covered
  <2>1. /\ r[i] = log[i + 1] /\ i + 1 \in 1 .. Len(log) /\ i + 1 \in 2 .. Len(log) + 1 /\ (i + 1) - 1 = i
    BY <1>1
  <2>2. /\ log[i + 1].bits = log[i + 1].real % T13
        /\ log[i + 1].real >= from => Hangs(log, missed, base, i + 1, Bits(log[i + 1].real))
    BY <1>1, <2>1, Zenon DEF Covered
  <2>3. Hangs(log, missed, base, i + 1, Bits(log[i + 1].real))
          => Hangs(r, gone, have, (i + 1) - 1, Bits(log[i + 1].real))
    BY <1>3, <2>1, Zenon
  <2> QED
    BY <2>1, <2>2, <2>3, Zenon
<1>5. ASSUME NEW b, Hangs(log, missed, base, Len(log) + 1, b)
      PROVE  Hangs(r, gone, have, Len(r) + 1, b)
  <2>1. Len(log) + 1 \in 2 .. Len(log) + 1 /\ (Len(log) + 1) - 1 = Len(r) + 1
    BY <1>1
  <2>2. Hangs(r, gone, have, (Len(log) + 1) - 1, b)
    BY <1>3, <1>5, <2>1, Zenon
  <2> QED
    BY <2>1, <2>2, Zenon
<1> QED
  BY <1>1, <1>2, <1>4, <1>5, Zenon

LEMMA TakeWordLog == LogInv /\ TakeWord => LogInv'
<1> SUFFICES ASSUME LogInv, TakeWord
             PROVE  LogInv'
  OBVIOUS
<1> DEFINE w == Head(log)
<1>1. /\ pc # "copy" /\ log # <<>> /\ log' = Tail(log)
      /\ UNCHANGED <<now, dma, pc, left, currtime, ll, time, last, stopped, since>>
  BY DEF TakeWord, task
<1>2. /\ w.kind = "time" => base' = <<w.bits>> /\ missed' = FALSE /\ shown' = <<>>
      /\ w.kind = "data" =>
           /\ shown' = IF base = <<>> \/ missed THEN <<>>
                       ELSE <<[as |-> base[1] * T13 + w.bits, real |-> w.real]>>
           /\ base' = base /\ missed' = missed
      /\ w.kind # "time" /\ w.kind # "data" => shown' = <<>> /\ base' = base /\ missed' = missed
  BY DEF TakeWord
<1>3. /\ log \in Seq(Word) /\ Len(log) <= Capacity /\ missed \in BOOLEAN /\ Capacity \in Nat
      /\ Covered(log, missed, base, since) /\ since \in Nat
  BY DEF LogInv, TypeOK, LogRight, Kept
<1>4. w \in Word /\ w = log[1] /\ 1 \in 1 .. Len(log) /\ 1 \in DOMAIN log /\ Len(log) \in Nat
  <2>1. Len(log) \in Nat /\ Len(log) # 0 /\ DOMAIN log = 1 .. Len(log)
    BY <1>1, <1>3, EmptySeq, LenProperties
  <2>2. w \in Word /\ w = log[1]
    BY <1>1, <1>3, HeadTailProperties
  <2> QED
    BY <2>1, <2>2
<1> HIDE DEF w
<1>5. w.kind = "data" => w.bits \in Nat /\ w.real \in Nat
  BY <1>4 DEF Word
<1>6. w.kind = "time" => w.bits \in Nat
  BY <1>4 DEF Word
<1>7. /\ log' \in Seq(Word) /\ Len(log') + 1 = Len(log) /\ Len(log') \in Nat
      /\ \A i \in 1 .. Len(log') : log'[i] = log[i + 1]
      /\ Covered(log', missed', base', since)
      /\ \A b : Hangs(log, missed, base, Len(log) + 1, b)
                  => Hangs(log', missed', base', Len(log') + 1, b)
  <2>1. /\ w.kind = "time" => base' = <<w.bits>>
        /\ w.kind # "time" => missed' = missed /\ base' = base
    BY <1>2, Zenon
  <2> DEFINE gone == missed'
             have == base'
  <2>2. /\ w.kind = "time" => have = <<w.bits>>
        /\ w.kind # "time" => gone = missed /\ have = base
    BY <2>1
  <2> HIDE DEF gone, have
  <2>3. /\ log' \in Seq(Word) /\ Len(log') + 1 = Len(log) /\ Len(log') \in Nat
        /\ \A i \in 1 .. Len(log') : log'[i] = log[i + 1]
        /\ Covered(log', gone, have, since)
        /\ \A b : Hangs(log, missed, base, Len(log) + 1, b)
                    => Hangs(log', gone, have, Len(log') + 1, b)
    BY <1>1, <1>3, <2>2, Taken, Zenon DEF w
  <2> QED
    BY <2>3 DEF gone, have
<1>8. /\ missed' \in BOOLEAN
      /\ base' \in {<<>>} \cup {<<b>> : b \in Nat}
  <2>1. base \in {<<>>} \cup {<<b>> : b \in Nat}
    BY DEF LogInv, LogRight
  <2>2. missed' \in {missed, FALSE}
    BY <1>2, Zenon
  <2>3. w.kind = "time" => base' \in {<<>>} \cup {<<b>> : b \in Nat}
    BY <1>2, <1>6
  <2>4. w.kind # "time" => base' = base
    BY <1>2, Zenon
  <2> QED
    BY <1>3, <2>1, <2>2, <2>3, <2>4, Zenon
<1>9. TypeOK'
  <2>1. Len(log') <= Capacity
    <3> DEFINE a == Len(log')
               c == Len(log)
    <3>1. a \in Nat /\ c \in Nat /\ a + 1 = c /\ c <= Capacity /\ Capacity \in Nat
      BY <1>3, <1>4, <1>7
    <3> HIDE DEF a, c
    <3>2. a <= Capacity
      BY <3>1
    <3> QED
      BY <3>2 DEF a
  <2> QED
    BY <1>1, <1>7, <1>8, <2>1, Zenon DEF LogInv, TypeOK
<1>10. ASSUME w.kind = "data", w.real >= since, base # <<>>, ~missed
       PROVE  base[1] * T13 + w.bits = w.real % (T13 * T30)
  <2>1. w.bits = w.real % T13 /\ Hangs(log, missed, base, 1, Bits(w.real))
    BY <1>3, <1>4, <1>10, Zenon DEF Covered
  <2>2. base = <<Bits(w.real)>>
    <3>1. \A k : k \notin 1 .. 1 - 1
      OBVIOUS
    <3> QED
      BY <1>10, <2>1, <3>1, Zenon DEF Hangs
  <2>3. base[1] = Bits(w.real)
    BY <2>2
  <2>4. Bits(w.real) * T13 + (w.real % T13) = w.real % (T13 * T30)
    BY <1>5, <1>10, DecodesRight, Zenon
  <2> QED
    BY <2>1, <2>3, <2>4, Zenon
<1>11. shown' # <<>> =>
         /\ w.kind = "data" /\ base # <<>> /\ ~missed
         /\ shown' = <<[as |-> base[1] * T13 + w.bits, real |-> w.real]>>
  BY <1>2, Zenon
<1>12. shown' \in {<<>>} \cup {<<v>> : v \in [as : Nat, real : Nat]}
  <2> SUFFICES ASSUME shown' # <<>>
               PROVE  shown' \in {<<v>> : v \in [as : Nat, real : Nat]}
    OBVIOUS
  <2>1. base[1] \in Nat
    BY <1>11 DEF LogInv, LogRight
  <2>2. base[1] * T13 + w.bits \in Nat /\ w.real \in Nat
    BY <1>5, <1>11, <2>1
  <2> DEFINE a == base[1] * T13 + w.bits
  <2>3. a \in Nat
    BY <2>2
  <2>4. shown' = <<[as |-> a, real |-> w.real]>>
    BY <1>11
  <2> HIDE DEF a
  <2>5. [as |-> a, real |-> w.real] \in [as : Nat, real : Nat]
    BY <2>2, <2>3
  <2> QED
    BY <2>4, <2>5, Zenon
<1>13. DecodedRight'
  <2> SUFFICES ASSUME NEW i \in DOMAIN shown', shown'[i].real >= since
               PROVE  shown'[i].as = shown'[i].real % (T13 * T30)
    BY <1>1 DEF DecodedRight
  <2> DEFINE v == [as |-> base[1] * T13 + w.bits, real |-> w.real]
  <2>1. shown' # <<>>
    OBVIOUS
  <2>2. shown' = <<v>>
    BY <1>11, <2>1
  <2>3. v.as = base[1] * T13 + w.bits /\ v.real = w.real
    OBVIOUS
  <2> HIDE DEF v
  <2>4. shown'[i] = v
    BY <2>2
  <2> QED
    BY <1>10, <1>11, <2>1, <2>3, <2>4, Zenon
<1>14. LogRight'
  <2>1. Current' = Current
    BY <1>1, Zenon DEF Current
  <2>2. pc' # "start" => Hangs(log, missed, base, Len(log) + 1, Bits(Current))'
    <3>1. pc # "start" => Hangs(log, missed, base, Len(log) + 1, Bits(Current))
      BY DEF LogInv, LogRight
    <3>2. pc # "start" => Hangs(log', missed', base', Len(log') + 1, Bits(Current))
      BY <1>7, <3>1, Zenon
    <3> QED
      BY <1>1, <2>1, <3>2, Zenon DEF Hangs, Bits
  <2>3. Covered(log, missed, base, since)'
    BY <1>1, <1>7, Zenon DEF Covered, Hangs, Bits
  <2>4. pc' = "start" => /\ \A i \in DOMAIN log' : log'[i].kind = "ctrl"
                         /\ shown' = <<>> /\ last' = 0
    <3> SUFFICES ASSUME pc = "start"
                 PROVE  /\ \A i \in DOMAIN log' : log'[i].kind = "ctrl"
                        /\ shown' = <<>> /\ last' = 0
      BY <1>1
    <3>1. (\A i \in DOMAIN log : log[i].kind = "ctrl") /\ last = 0
      BY DEF LogInv, LogRight
    <3>2. w.kind = "ctrl"
      BY <1>4, <3>1
    <3>3. \A i \in 1 .. Len(log') : i + 1 \in DOMAIN log
      BY <1>3, <1>7, LenProperties
    <3>4. DOMAIN log' = 1 .. Len(log')
      BY <1>7, LenProperties
    <3> QED
      BY <1>1, <1>2, <1>7, <3>1, <3>2, <3>3, <3>4
  <2> QED
    BY <1>8, <1>12, <2>2, <2>3, <2>4, Zenon DEF LogRight
<1>15. Entries' /\ Kept' /\ ~stopped'
  <2>1. Upper(last)' = Upper(last)
    BY <1>1 DEF Upper
  <2> QED
    BY <1>1, <2>1, Zenon DEF LogInv, Entries, Kept
<1> QED
  BY <1>9, <1>13, <1>14, <1>15 DEF LogInv

LEMMA NextLog == LogInv /\ [Next]_vars => LogInv'
<1> SUFFICES ASSUME LogInv, [Next]_vars
             PROVE  LogInv'
  OBVIOUS
<1>1. CASE UNCHANGED vars
  <2>1. UNCHANGED <<now, dma, pc, left, currtime, ll, time, last, stopped, log, base, missed, shown, since>>
    BY <1>1 DEF vars, task, client
  <2>2. LogRight' /\ DecodedRight'
    BY <2>1, LogKept DEF LogInv
  <2>3. Upper(last)' = Upper(last)
    BY <2>1 DEF Upper
  <2> QED
    BY <2>1, <2>2, <2>3, Zenon DEF LogInv, TypeOK, Entries, Kept
<1> QED
  BY <1>1, TickLog, MessageLog, FirstWordsLog, ReadLog, SampleLog, CopyEntryLog, TakeWordLog DEF Next

-----------------------------------------------------------------------------
(* The invariant holds of every behaviour.                                 *)
LEMMA LogInvariant == Spec => []LogInv
  BY InitLog, NextLog, PTL DEF Spec

(* The counters of bm_log_copy stay in the range of the clock, and the log *)
(* never holds more words than it has room for.                            *)
THEOREM LogTyping == Spec => []TypeOK
<1>1. LogInv => TypeOK
  BY DEF LogInv
<1> QED
  BY <1>1, LogInvariant, PTL

(* Whatever wraps between two entries, bm_log_copy gives them their times  *)
(* in order: the check that stops the monitor for good never fires.        *)
THEOREM EntriesInOrder == Spec => []NeverStops
<1>1. LogInv => NeverStops
  BY DEF LogInv, NeverStops
<1> QED
  BY <1>1, LogInvariant, PTL

(* A client that has got the time word a data word hangs on decodes it to  *)
(* the time at which the data was on the bus.                              *)
THEOREM TimesDecoded == Spec => []DecodedRight
<1>1. LogInv => DecodedRight
  BY DEF LogInv
<1> QED
  BY <1>1, LogInvariant, PTL

=============================================================================

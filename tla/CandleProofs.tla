---------------------------- MODULE CandleProofs ----------------------------
(***************************************************************************)
(* Proofs about src/src/data, for any prices, times and limits.  About     *)
(* CandlePath: what the validator admits is stored and published soundly,  *)
(* and a candle has one key.  About CandleSeries, for series of any        *)
(* length: whatever the cleaner does to a series, its candles and their    *)
(* aggregates stay sound; what it fills in makes the series whole; and an  *)
(* aggregate is what the candle of its period should be.                   *)
(***************************************************************************)
EXTENDS CandlePath, CandleSeries, FiniteSetTheorems, SequenceTheorems, WellFoundedInduction, TLAPS

Row == [of : Minutes \X Nat, tf : Minutes, time : Nat, volume : Nat,
        ohlc : [open : Nat, high : Nat, low : Nat, close : Nat]]

\* the key of a row of a collected timeframe is the candle it came from
Keyed(r) == r.tf \in Collected => r.of = <<r.tf, r.time>>

GoodRow == {r \in Row : Sound(r) /\ Keyed(r)}

\* The inductive invariant: rows are good from the queue on.
IInv ==
  /\ queue \in Seq(GoodRow) /\ stored \subseteq GoodRow
  /\ \A e \in events : Sound(e)

-----------------------------------------------------------------------------
(* The pure parts.                                                         *)

\* _normalize_timestamp rounds down to a multiple of the timeframe, by whichever of its
\* branches, for every timeframe up to a day.
THEOREM NormalizeIsFloor ==
  ASSUME NEW t \in Nat, NEW m \in Minutes, m <= 1440
  PROVE  Normalize(t, m) = t - (t % m)
<1>1. CASE m = 1
  <2>1. Normalize(t, 1) = (t - (t % 60)) + ((t % 60) \div 1) * 1
    BY DEF Normalize
  <2>2. @ = t - (t % 1)
    OBVIOUS
  <2> QED
    BY <1>1, <2>1, <2>2
<1>2. CASE m = 3
  <2>1. Normalize(t, 3) = (t - (t % 60)) + ((t % 60) \div 3) * 3
    BY DEF Normalize
  <2>2. @ = t - (t % 3)
    OBVIOUS
  <2> QED
    BY <1>2, <2>1, <2>2
<1>3. CASE m = 5
  <2>1. Normalize(t, 5) = (t - (t % 60)) + ((t % 60) \div 5) * 5
    BY DEF Normalize
  <2>2. @ = t - (t % 5)
    OBVIOUS
  <2> QED
    BY <1>3, <2>1, <2>2
<1>4. CASE m = 15
  <2>1. Normalize(t, 15) = (t - (t % 60)) + ((t % 60) \div 15) * 15
    BY DEF Normalize
  <2>2. @ = t - (t % 15)
    OBVIOUS
  <2> QED
    BY <1>4, <2>1, <2>2
<1>5. CASE m = 30
  <2>1. Normalize(t, 30) = (t - (t % 60)) + ((t % 60) \div 30) * 30
    BY DEF Normalize
  <2>2. @ = t - (t % 30)
    OBVIOUS
  <2> QED
    BY <1>5, <2>1, <2>2
<1>6. CASE m = 60
  BY <1>6 DEF Normalize
<1>7. CASE m = 120
  <2>1. Normalize(t, 120) = (t - (t % 1440)) + ((((t \div 60) % 24) \div 2) * 2) * 60
    <3>1. 120 \div 60 = 2
      OBVIOUS
    <3> QED
      BY <3>1 DEF Normalize
  <2>2. @ = t - (t % 120)
    OBVIOUS
  <2> QED
    BY <1>7, <2>1, <2>2
<1>8. CASE m = 240
  <2>1. Normalize(t, 240) = (t - (t % 1440)) + ((((t \div 60) % 24) \div 4) * 4) * 60
    <3>1. 240 \div 60 = 4
      OBVIOUS
    <3> QED
      BY <3>1 DEF Normalize
  <2>2. @ = t - (t % 240)
    OBVIOUS
  <2> QED
    BY <1>8, <2>1, <2>2
<1>9. CASE m = 360
  <2>1. Normalize(t, 360) = (t - (t % 1440)) + ((((t \div 60) % 24) \div 6) * 6) * 60
    <3>1. 360 \div 60 = 6
      OBVIOUS
    <3> QED
      BY <3>1 DEF Normalize
  <2>2. @ = t - (t % 360)
    OBVIOUS
  <2> QED
    BY <1>9, <2>1, <2>2
<1>10. CASE m = 480
  <2>1. Normalize(t, 480) = (t - (t % 1440)) + ((((t \div 60) % 24) \div 8) * 8) * 60
    <3>1. 480 \div 60 = 8
      OBVIOUS
    <3> QED
      BY <3>1 DEF Normalize
  <2>2. @ = t - (t % 480)
    OBVIOUS
  <2> QED
    BY <1>10, <2>1, <2>2
<1>11. CASE m = 720
  <2>1. Normalize(t, 720) = (t - (t % 1440)) + ((((t \div 60) % 24) \div 12) * 12) * 60
    <3>1. 720 \div 60 = 12
      OBVIOUS
    <3> QED
      BY <3>1 DEF Normalize
  <2>2. @ = t - (t % 720)
    OBVIOUS
  <2> QED
    BY <1>11, <2>1, <2>2
<1>12. CASE m = 1440
  BY <1>12 DEF Normalize
<1> QED
  BY <1>1, <1>2, <1>3, <1>4, <1>5, <1>6, <1>7, <1>8, <1>9, <1>10, <1>11, <1>12 DEF Minutes

\* The open time of a candle is left as it is, and any other becomes a time too.
LEMMA AlignedIsKept ==
  ASSUME NEW t \in Nat, NEW m \in Collected, t % m = 0
  PROVE  Normalize(t, m) = t
<1>1. m \in Minutes /\ m <= 1440
  BY DEF Collected, Minutes
<1>2. Normalize(t, m) = t - (t % m)
  BY <1>1, NormalizeIsFloor
<1> QED
  BY <1>2

LEMMA NormalizeIsNatural ==
  ASSUME NEW t \in Nat, NEW m \in Minutes
  PROVE  Normalize(t, m) \in Nat
<1>1. CASE m <= 1440
  <2>1. Normalize(t, m) = t - (t % m)
    BY <1>1, NormalizeIsFloor
  <2>2. m \in Nat /\ m > 0
    BY DEF Minutes
  <2>3. t % m \in 0..(m - 1) /\ t % m <= t
    BY <2>2
  <2> QED
    BY <2>1, <2>2, <2>3
<1>2. CASE m > 1440
  <2>1. Normalize(t, m) = t - (t % 1440)
    BY <1>2 DEF Normalize, Minutes
  <2> QED
    BY <2>1
<1> QED
  BY <1>1, <1>2 DEF Minutes

\* Rounding keeps an admissible price within the limits.
LEMMA RoundedInRange ==
  ASSUME NEW x \in Int, PriceOk(x)
  PROVE  Round(x) \in MinPrice..MaxPrice
BY PriceAssumption DEF PriceOk, Round

LEMMA VolumeIsNatural ==
  ASSUME NEW x \in Int
  PROVE  Volume(x) \in Nat
BY DEF Volume, Round

\* A candle that is admitted becomes a good row, whatever timeframe was asked for: where
\* the candle is of another one, that one is not collected.
LEMMA RowIsGood ==
  ASSUME NEW k \in Kline, NEW asked \in Minutes, k.tf = Interval(asked),
         Admissible(Parsed(k, asked))
  PROVE  RowOf(k, Parsed(k, asked)) \in GoodRow
<1> DEFINE p == Parsed(k, asked)
           r == RowOf(k, p)
           o == Round(p.open)
           h == Round(p.high)
           l == Round(p.low)
           c == Round(p.close)
<1>1. k.t \in Nat /\ k.t % k.tf = 0 /\ k.tf \in Minutes
  <2>1. k.t \in Times /\ k.t % k.tf = 0
    BY DEF Kline
  <2>2. k.tf \in Minutes
    BY DEF Interval, Collected, Minutes
  <2> QED
    BY <2>1, <2>2, TimeAssumption
<1>2. p.t = Normalize(k.t, asked) /\ p.t \in Nat /\ p.tf = asked
  BY <1>1, NormalizeIsNatural DEF Parsed, Kline
<1>3. /\ o \in MinPrice..MaxPrice /\ h \in MinPrice..MaxPrice
      /\ l \in MinPrice..MaxPrice /\ c \in MinPrice..MaxPrice
  <2>1. p.open \in Int /\ p.high \in Int /\ p.low \in Int /\ p.close \in Int
    BY PriceAssumption DEF Parsed, Kline
  <2> QED
    BY <2>1, RoundedInRange DEF Admissible
<1>4. Volume(p.volume) \in Nat
  BY PriceAssumption, VolumeIsNatural DEF Parsed, Kline
<1>5. r.ohlc = [open |-> o, high |-> Larger(Larger(o, h), Larger(l, c)),
                low |-> Smaller(Smaller(o, h), Smaller(l, c)), close |-> c]
  BY DEF RowOf, Consistent
<1>6. r.tf = asked /\ r.time = p.t /\ r.of = <<k.tf, k.t>> /\ r.volume = Volume(p.volume)
  BY <1>2 DEF RowOf
<1>7. Sound(r)
  <2> HIDE DEF o, h, l, c, r
  <2>1. /\ MinPrice <= r.ohlc.low /\ r.ohlc.high <= MaxPrice
        /\ r.ohlc.low <= r.ohlc.open /\ r.ohlc.open <= r.ohlc.high
        /\ r.ohlc.low <= r.ohlc.close /\ r.ohlc.close <= r.ohlc.high
    BY <1>3, <1>5, PriceAssumption DEF Larger, Smaller
  <2>2. r.volume >= 0
    BY <1>4, <1>6
  <2>3. r.tf \in Valid
    BY <1>2, <1>6 DEF Admissible
  <2> QED
    BY <2>1, <2>2, <2>3 DEF Sound
<1>8. Keyed(r)
  <2> SUFFICES ASSUME asked \in Collected
               PROVE  r.of = <<asked, p.t>>
    BY <1>6 DEF Keyed
  <2>1. k.tf = asked
    BY DEF Interval
  <2>2. p.t = k.t
    BY <1>1, <1>2, <2>1, AlignedIsKept
  <2> QED
    BY <1>6, <2>1, <2>2
<1>9. r \in Row
  <2>1. r.ohlc \in [open : Nat, high : Nat, low : Nat, close : Nat]
    <3> HIDE DEF o, h, l, c
    <3> QED
      BY <1>3, <1>5, PriceAssumption DEF Larger, Smaller
  <2>2. r = [of |-> <<k.tf, k.t>>, tf |-> asked, time |-> p.t, volume |-> Volume(p.volume), ohlc |-> r.ohlc]
    BY <1>2, <1>5 DEF RowOf
  <2> HIDE DEF p, r
  <2> QED
    BY <1>1, <1>2, <1>4, <2>1, <2>2 DEF Row
<1> QED
  BY <1>7, <1>8, <1>9 DEF GoodRow

-----------------------------------------------------------------------------
\* The rows in the queue, the table and the events are good in every reachable state.
\* The queue is in the invariant because Write moves its head into the table unseen.
LEMMA Invariance == Spec => []IInv
<1>1. Init => IInv
  BY DEF Init, IInv
<1>2. IInv /\ [Next]_vars => IInv'
  <2> SUFFICES ASSUME IInv, [Next]_vars
               PROVE  IInv'
    OBVIOUS
  <2> USE DEF IInv
  <2>1. ASSUME NEW k \in Kline, NEW asked \in Minutes, k.tf = Interval(asked),
               Insert(k, Parsed(k, asked))
        PROVE  IInv'
    <3>1. CASE Admissible(Parsed(k, asked))
      <4>1. RowOf(k, Parsed(k, asked)) \in GoodRow
        BY <2>1, <3>1, RowIsGood
      <4>2. queue' = Append(queue, RowOf(k, Parsed(k, asked)))
        BY <2>1, <3>1 DEF Insert
      <4> QED
        BY <2>1, <4>1, <4>2 DEF Insert
    <3>2. CASE ~Admissible(Parsed(k, asked))
      BY <2>1, <3>2 DEF Insert
    <3> QED
      BY <3>1, <3>2
  <2>2. CASE \E k \in Kline : WebSocket(k) \/ \E asked \in Timeframes : Rest(k, asked)
    <3>1. PICK k \in Kline : WebSocket(k) \/ \E asked \in Timeframes : Rest(k, asked)
      BY <2>2
    <3>2. CASE WebSocket(k)
      <4>1. k.tf \in Minutes /\ k.tf = Interval(k.tf)
        BY DEF Kline, Interval, Collected, Minutes
      <4> QED
        BY <2>1, <3>2, <4>1 DEF WebSocket
    <3>3. CASE \E asked \in Timeframes : Rest(k, asked)
      BY <2>1, <3>3, TimeAssumption DEF Rest
    <3> QED
      BY <3>1, <3>2, <3>3
  <2>3. CASE Write
    <3>1. Head(queue) \in GoodRow /\ Tail(queue) \in Seq(GoodRow)
      BY <2>3 DEF Write
    <3>2. Sound(Payload(Head(queue)))
      BY <3>1 DEF GoodRow, Row, Sound, Payload
    <3> QED
      BY <2>3, <3>1, <3>2 DEF Write
  <2>4. CASE UNCHANGED vars
    BY <2>4 DEF vars
  <2> QED
    BY <2>2, <2>3, <2>4 DEF Next
<1> QED
  BY <1>1, <1>2, PTL DEF Spec

\* Whatever numbers the exchange sends, what is stored and published is in range and
\* consistent (validate_ohlcv).
THEOREM AlwaysSound == Spec => []RowsAreSound
<1>1. IInv => RowsAreSound
  BY DEF IInv, GoodRow, RowsAreSound
<1> QED
  BY <1>1, Invariance, PTL

\* Of the timeframes that are collected, the rows of a candle have one key, whichever way
\* they came and whatever else was asked for, and no other candle has it.
THEOREM AlwaysOneKey == Spec => []OneKeyPerCandle
<1>1. IInv => OneKeyPerCandle
  BY DEF IInv, GoodRow, Keyed, OneKeyPerCandle
<1> QED
  BY <1>1, Invariance, PTL

-----------------------------------------------------------------------------
(* CandleSeries: its candles.                                              *)

\* a candle of natural numbers between its low and its high
Bar == {c \in [t : Nat, open : Nat, high : Nat, low : Nat, close : Nat, volume : Nat] : Proper(c)}

\* the candles of s open at times of the timeframe
OnTime(s) == \A i \in DOMAIN s : s[i].t % Frame = 0

-----------------------------------------------------------------------------
(* Induction, finite sets and sequences.                                   *)

\* Every nonempty set of natural numbers has a least element.
LEMMA LeastNatural ==
  ASSUME NEW T, T \subseteq Nat, T # {}
  PROVE  \E x \in T : \A y \in T : x <= y
<1> DEFINE LessThan == OpToRel(<, Nat)
<1>1. IsWellFoundedOn(LessThan, Nat)
  BY NatLessThanWellFounded
<1>2. ASSUME NEW x \in Nat, NEW y \in Nat, <<x, y>> \notin LessThan PROVE y <= x
  <2>1. ~(x < y)
    BY <1>2 DEF OpToRel
  <2> QED
    BY <2>1
<1> HIDE DEF LessThan
<1>3. PICK x \in T : \A y \in T : <<y, x>> \notin LessThan
  BY <1>1, WFMin
<1> QED
  BY <1>2, <1>3

\* A set with 0 and every successor of its numbers has all natural numbers.
LEMMA Induction ==
  ASSUME NEW S, 0 \in S, \A n \in Nat : n \in S => n + 1 \in S
  PROVE  \A n \in Nat : n \in S
<1> SUFFICES ASSUME Nat \ S # {} PROVE FALSE
  OBVIOUS
<1>1. PICK x \in Nat \ S : \A y \in Nat \ S : x <= y
  <2>1. Nat \ S \subseteq Nat
    OBVIOUS
  <2> QED
    BY <2>1, LeastNatural
<1>2. x # 0 /\ x - 1 \in Nat
  BY <1>1
<1>3. x - 1 \in S
  BY <1>1, <1>2
<1>4. (x - 1) + 1 \in S
  BY <1>2, <1>3
<1> QED
  BY <1>1, <1>2, <1>4

\* The greatest and the least of finitely many values.
LEMMA GreatestAndLeast ==
  ASSUME NEW n \in Nat \ {0}, NEW h, \A i \in 1..n : h[i] \in Nat
  PROVE  /\ \E j \in 1..n : \A i \in 1..n : h[i] <= h[j]
         /\ \E j \in 1..n : \A i \in 1..n : h[j] <= h[i]
<1> DEFINE Up == {m \in Nat : m \in 1..n => \E j \in 1..m : \A i \in 1..m : h[i] <= h[j]}
           Found == {h[i] : i \in 1..n}
<1>1. 0 \in Up
  OBVIOUS
<1>2. ASSUME NEW m \in Nat, m \in Up PROVE m + 1 \in Up
  <2> SUFFICES ASSUME m + 1 \in 1..n
               PROVE  \E j \in 1..(m + 1) : \A i \in 1..(m + 1) : h[i] <= h[j]
    OBVIOUS
  <2>1. CASE m = 0
    <3>1. 1 \in 1..(m + 1) /\ \A i \in 1..(m + 1) : i = 1
      BY <2>1
    <3>2. h[1] \in Nat
      OBVIOUS
    <3>3. \A i \in 1..(m + 1) : h[i] <= h[1]
      BY <3>1, <3>2
    <3> QED
      BY <3>1, <3>3, Zenon
  <2>2. CASE m # 0
    <3>1. PICK j \in 1..m : \A i \in 1..m : h[i] <= h[j]
      BY <1>2, <2>2
    <3>2. /\ h[j] \in Nat /\ h[m + 1] \in Nat /\ j \in 1..(m + 1) /\ m + 1 \in 1..(m + 1)
          /\ \A i \in 1..m : h[i] \in Nat
      OBVIOUS
    <3>3. \A i \in 1..(m + 1) : i \in 1..m \/ i = m + 1
      OBVIOUS
    <3>4. CASE h[m + 1] <= h[j]
      <4>1. \A i \in 1..(m + 1) : h[i] <= h[j]
        BY <3>1, <3>3, <3>4
      <4> QED
        BY <3>2, <4>1, Zenon
    <3>5. CASE h[j] <= h[m + 1]
      <4>1. \A i \in 1..(m + 1) : h[i] <= h[m + 1]
        BY <3>1, <3>2, <3>3, <3>5
      <4> QED
        BY <3>2, <4>1, Zenon
    <3> QED
      BY <3>2, <3>4, <3>5
  <2> QED
    BY <2>1, <2>2
<1> HIDE DEF Up
<1>3. \A m \in Nat : m \in Up
  BY <1>1, <1>2, Induction
<1>4. \E j \in 1..n : \A i \in 1..n : h[i] <= h[j]
  BY <1>3 DEF Up
<1>5. Found \subseteq Nat /\ h[1] \in Found
  OBVIOUS
<1>6. PICK x \in Found : \A y \in Found : x <= y
  BY <1>5, LeastNatural
<1> QED
  BY <1>4, <1>6

\* What Max and Min choose from the values of a sequence.
LEMMA MaxOfSequence ==
  ASSUME NEW n \in Nat \ {0}, NEW h, \A i \in 1..n : h[i] \in Nat
  PROVE  LET values == {h[i] : i \in 1..n}
         IN  /\ Max(values) \in Nat /\ Min(values) \in Nat
             /\ \A i \in 1..n : Min(values) <= h[i] /\ h[i] <= Max(values)
<1> DEFINE values == {h[i] : i \in 1..n}
<1>1. \E x \in values : \A y \in values : x >= y
  <2>1. PICK j \in 1..n : \A i \in 1..n : h[i] <= h[j]
    BY GreatestAndLeast
  <2>2. \A i \in 1..n : h[j] >= h[i]
    BY <2>1
  <2> QED
    BY <2>2
<1>2. \E x \in values : \A y \in values : x <= y
  <2>1. PICK j \in 1..n : \A i \in 1..n : h[j] <= h[i]
    BY GreatestAndLeast
  <2> QED
    BY <2>1
<1>3. Max(values) \in values /\ \A y \in values : Max(values) >= y
  BY <1>1, Zenon DEF Max
<1>4. Min(values) \in values /\ \A y \in values : Min(values) <= y
  BY <1>2, Zenon DEF Min
<1>5. values \subseteq Nat /\ \A i \in 1..n : h[i] \in values
  OBVIOUS
<1> HIDE DEF values
<1>6. \A i \in 1..n : Min(values) <= h[i] /\ h[i] <= Max(values)
  BY <1>3, <1>4, <1>5
<1> QED
  BY <1>3, <1>4, <1>5, <1>6 DEF values

\* Ascending goes through its set, in order and without a repetition: the members are
\* those of rank 1, 2 and so on.
LEMMA AscendingIsSorted ==
  ASSUME NEW S, S \subseteq Nat, IsFiniteSet(S)
  PROVE  /\ Ascending(S) \in Seq(S)
         /\ \A i, j \in DOMAIN Ascending(S) : i < j => Ascending(S)[i] < Ascending(S)[j]
         /\ \A t \in S : \E i \in DOMAIN Ascending(S) : Ascending(S)[i] = t
<1> DEFINE n == Cardinality(S)
           upTo(t) == {u \in S : u <= t}
           rank(t) == Cardinality(upTo(t))
           f == [t \in S |-> rank(t)]
<1>1. n \in Nat
  BY FS_CardinalityType
<1>2. \A t \in S : IsFiniteSet(upTo(t)) /\ rank(t) \in Nat /\ rank(t) <= n
  BY FS_Subset, FS_CardinalityType
<1>3. \A t \in S : rank(t) \in 1..n
  <2> TAKE t \in S
  <2>1. upTo(t) # {}
    OBVIOUS
  <2>2. rank(t) # 0
    BY <1>2, <2>1, FS_EmptySet
  <2> QED
    BY <1>1, <1>2, <2>2
<1>4. \A t, v \in S : t < v => rank(t) < rank(v)
  <2> SUFFICES ASSUME NEW t \in S, NEW v \in S, t < v
               PROVE  rank(t) < rank(v)
    OBVIOUS
  <2>1. \A u \in S : u <= t => u <= v
    <3> TAKE u \in S
    <3>1. u \in Nat /\ t \in Nat /\ v \in Nat
      OBVIOUS
    <3> QED
      BY <3>1
  <2>2. upTo(t) \in SUBSET upTo(v)
    BY <2>1
  <2>3. t \in Nat /\ v \in Nat
    OBVIOUS
  <2>4. v \in upTo(v) /\ v \notin upTo(t)
    BY <2>3
  <2>5. rank(t) <= rank(v) /\ rank(t) # rank(v)
    BY <1>2, <2>2, <2>4, FS_Subset
  <2> QED
    BY <1>2, <2>5
<1>5. f \in Injection(S, 1..n)
  <2>1. f \in [S -> 1..n]
    BY <1>3
  <2>2. \A t, v \in S : f[t] = f[v] => t = v
    BY <1>2, <1>4
  <2> QED
    BY <2>1, <2>2 DEF Injection, IsInjective
<1>6. f \in Surjection(S, 1..n)
  <2>1. IsFiniteSet(1..n) /\ Cardinality(1..n) = n
    BY <1>1, FS_Interval
  <2> QED
    BY <1>5, <2>1, FS_Injection
<1>7. \A i \in 1..n : \E t \in S : rank(t) = i
  BY <1>6 DEF Surjection
<1>8. Ascending(S) = [i \in 1..n |-> CHOOSE t \in S : rank(t) = i]
  BY DEF Ascending
<1>9. PICK g : g = f
  OBVIOUS
<1>10. /\ \A t \in S : g[t] \in 1..n
       /\ \A t, v \in S : t < v => g[t] < g[v]
  BY <1>3, <1>4, <1>9
<1>11. PICK a : a = Ascending(S)
  OBVIOUS
<1>12. a \in [1..n -> S] /\ \A i \in 1..n : g[a[i]] = i
  BY <1>7, <1>8, <1>9, <1>11
<1> HIDE DEF rank, n, f, upTo
<1>13. a \in Seq(S) /\ DOMAIN a = 1..n
  BY <1>1, <1>12
<1>14. \A i, j \in 1..n : i < j => a[i] < a[j]
  <2> SUFFICES ASSUME NEW i \in 1..n, NEW j \in 1..n, i < j
               PROVE  a[i] < a[j]
    OBVIOUS
  <2>1. a[i] \in S /\ a[j] \in S /\ g[a[i]] = i /\ g[a[j]] = j
    BY <1>12
  <2>2. i # j /\ ~(j < i)
    BY <1>1
  <2>3. a[i] # a[j] /\ ~(a[j] < a[i])
    BY <1>10, <2>1, <2>2, Zenon
  <2>4. a[i] \in Nat /\ a[j] \in Nat
    BY <2>1
  <2> QED
    BY <2>3, <2>4
<1>15. \A t \in S : a[g[t]] = t /\ g[t] \in 1..n
  <2> TAKE t \in S
  <2>1. g[t] \in 1..n
    BY <1>10
  <2> DEFINE v == a[g[t]]
  <2>2. v \in S /\ g[v] = g[t]
    BY <1>12, <2>1
  <2>3. g[t] \in Nat
    BY <1>1, <2>1
  <2>4. ~(g[t] < g[t])
    BY <2>3
  <2> HIDE DEF v
  <2>5. ~(v < t) /\ ~(t < v)
    BY <1>10, <2>2, <2>4, Zenon
  <2>6. t \in Nat /\ v \in Nat
    BY <2>2
  <2>7. v = t
    BY <2>5, <2>6
  <2> QED
    BY <2>1, <2>7 DEF v
<1> QED
  BY <1>11, <1>13, <1>14, <1>15

-----------------------------------------------------------------------------
(* The functions.                                                          *)

\* The values a candle is smoothed to keep it sound, whatever its neighbours are.
LEMMA SmoothedIsSound ==
  ASSUME NEW p \in Bar, NEW c \in Bar, NEW n \in Bar
  PROVE  Smoothed(p, c, n) \in Bar
<1> DEFINE price == (p.close + n.close) \div 2
           open == Lower(c.open, Lower((price * 101) \div 100, (p.close * 101) \div 100))
           high == Higher(open, Higher(price, c.low))
           low == Lower(open, Lower(price, high))
<1>1. p.close \in Nat /\ n.close \in Nat /\ c.open \in Nat /\ c.low \in Nat
  BY DEF Bar
<1>2. price \in Nat
  BY <1>1
<1>3. (price * 101) \div 100 \in Nat /\ (p.close * 101) \div 100 \in Nat
  BY <1>1, <1>2
<1> HIDE DEF price
<1>4. open \in Nat
  BY <1>1, <1>3 DEF Lower
<1> HIDE DEF open
<1>5. high \in Nat /\ open <= high /\ price <= high
  BY <1>1, <1>2, <1>4 DEF Higher
<1> HIDE DEF high
<1>6. low \in Nat /\ low <= open /\ low <= price
  BY <1>2, <1>4, <1>5 DEF Lower
<1> HIDE DEF low
<1>7. Smoothed(p, c, n) = [c EXCEPT !.open = open, !.high = high, !.close = price, !.low = low]
  BY Zenon DEF Smoothed, price, open, high, low
<1>8. c \in [t : Nat, open : Nat, high : Nat, low : Nat, close : Nat, volume : Nat]
  BY DEF Bar
<1>9. PICK s : s = Smoothed(p, c, n)
  OBVIOUS
<1>10. /\ s \in [t : Nat, open : Nat, high : Nat, low : Nat, close : Nat, volume : Nat]
       /\ s.open = open /\ s.high = high /\ s.close = price /\ s.low = low
  BY <1>2, <1>4, <1>5, <1>6, <1>7, <1>8, <1>9
<1>11. s \in Bar
  BY <1>5, <1>6, <1>10 DEF Bar, Proper
<1> QED
  BY <1>9, <1>11

\* A sorted series has the candles of the series, each once, and they are in order.
LEMMA SortedType ==
  ASSUME NEW s \in Seq(Bar)
  PROVE  /\ Sorted(s) \in Seq(Bar) /\ Len(Sorted(s)) = Len(s) /\ InOrder(Sorted(s))
         /\ \E f \in Bijection(1..Len(s), 1..Len(s)) : \A i \in 1..Len(s) : Sorted(s)[f[i]] = s[i]
<1> DEFINE n == Len(s)
           D == 1..n
           upTo(i) == {j \in DOMAIN s : s[j].t < s[i].t \/ (s[j].t = s[i].t /\ j <= i)}
           f == [i \in D |-> Cardinality(upTo(i))]
<1>1. n \in Nat /\ DOMAIN s = D /\ \A i \in D : s[i] \in Bar /\ s[i].t \in Nat
  <2>1. n \in Nat /\ DOMAIN s = D /\ \A i \in D : s[i] \in Bar
    OBVIOUS
  <2>2. \A c \in Bar : c.t \in Nat
    BY DEF Bar
  <2> QED
    BY <2>1, <2>2
<1>2. IsFiniteSet(D) /\ Cardinality(D) = n
  <2>1. n \in Nat
    OBVIOUS
  <2> QED
    BY <2>1, FS_Interval
<1>3. \A i \in D : upTo(i) \in SUBSET D /\ i \in upTo(i)
  BY <1>1
<1>4. \A i \in D : IsFiniteSet(upTo(i)) /\ Cardinality(upTo(i)) \in 1..n
  <2> TAKE i \in D
  <2>1. IsFiniteSet(upTo(i)) /\ Cardinality(upTo(i)) <= Cardinality(D)
    BY <1>2, <1>3, FS_Subset
  <2>2. Cardinality(upTo(i)) \in Nat
    BY <2>1, FS_CardinalityType
  <2>3. Cardinality(upTo(i)) # 0
    BY <1>3, <2>1, FS_EmptySet
  <2> QED
    BY <1>1, <1>2, <2>1, <2>2, <2>3
<1>5. \A i, j \in D : i # j => Cardinality(upTo(i)) # Cardinality(upTo(j))
  <2>1. ASSUME NEW i \in D, NEW j \in D, s[i].t < s[j].t \/ (s[i].t = s[j].t /\ i < j)
        PROVE  Cardinality(upTo(i)) # Cardinality(upTo(j))
    <3>1. upTo(i) \in SUBSET upTo(j)
      <4> SUFFICES ASSUME NEW k \in D, s[k].t < s[i].t \/ (s[k].t = s[i].t /\ k <= i)
                   PROVE  s[k].t < s[j].t \/ (s[k].t = s[j].t /\ k <= j)
        BY <1>1
      <4>1. s[i].t \in Nat /\ s[j].t \in Nat /\ s[k].t \in Nat /\ i \in Nat /\ j \in Nat /\ k \in Nat
        BY <1>1
      <4> QED
        BY <2>1, <4>1
    <3>2. j \in upTo(j) /\ j \notin upTo(i)
      <4>1. s[i].t \in Nat /\ s[j].t \in Nat /\ i \in Nat /\ j \in Nat
        BY <1>1
      <4> QED
        BY <1>1, <2>1, <4>1
    <3>3. upTo(i) # upTo(j)
      BY <3>2
    <3> QED
      BY <1>3, <1>4, <3>1, <3>3, FS_Subset
  <2>2. \A i, j \in D : i # j => \/ s[i].t < s[j].t \/ (s[i].t = s[j].t /\ i < j)
                                 \/ s[j].t < s[i].t \/ (s[j].t = s[i].t /\ j < i)
    BY <1>1
  <2> QED
    BY <2>1, <2>2
<1>6. f \in Injection(D, 1..n)
  BY <1>4, <1>5 DEF Injection, IsInjective
<1>7. f \in Surjection(D, 1..n)
  BY <1>2, <1>6, FS_Injection
<1>8. \A k \in D : \E i \in D : Cardinality(upTo(i)) = k
  BY <1>7 DEF Surjection
<1>9. Sorted(s) = [k \in D |-> s[CHOOSE i \in D : Cardinality(upTo(i)) = k]]
  BY <1>1 DEF Sorted
<1> HIDE DEF upTo
<1>10. \A k \in D : s[CHOOSE i \in D : Cardinality(upTo(i)) = k] \in Bar
  BY <1>1, <1>8
<1>11. Sorted(s) \in [D -> Bar]
  BY <1>9, <1>10
<1>12. \A i \in D : f[i] = Cardinality(upTo(i)) /\ f[i] \in D
  BY <1>4
<1>13. \A i \in D : Sorted(s)[f[i]] = s[i]
  <2> TAKE i \in D
  <2>1. \A j \in D : Cardinality(upTo(j)) = Cardinality(upTo(i)) => j = i
    BY <1>5
  <2>2. (CHOOSE j \in D : Cardinality(upTo(j)) = f[i]) = i
    BY <1>12, <2>1
  <2> QED
    BY <1>9, <1>12, <2>2
<1>14. f \in Bijection(D, D)
  BY <1>6, <1>7 DEF Bijection
<1>15. ASSUME NEW k \in D, NEW l \in D, k < l PROVE Sorted(s)[k].t <= Sorted(s)[l].t
  <2>1. PICK i \in D, j \in D : Cardinality(upTo(i)) = k /\ Cardinality(upTo(j)) = l
    BY <1>8
  <2>2. Sorted(s)[k] = s[i] /\ Sorted(s)[l] = s[j]
    BY <1>12, <1>13, <2>1
  <2>3. CASE s[j].t < s[i].t
    <3>1. upTo(j) \in SUBSET upTo(i)
      <4> SUFFICES ASSUME NEW x \in upTo(j) PROVE x \in upTo(i)
        OBVIOUS
      <4>1. x \in D /\ (s[x].t < s[j].t \/ (s[x].t = s[j].t /\ x <= j))
        BY <1>1 DEF upTo
      <4>2. s[x].t \in Nat /\ s[i].t \in Nat /\ s[j].t \in Nat
        BY <1>1, <4>1
      <4>3. s[x].t < s[i].t
        BY <2>3, <4>1, <4>2
      <4> QED
        BY <1>1, <4>1, <4>3 DEF upTo
    <3>2. Cardinality(upTo(j)) <= Cardinality(upTo(i))
      BY <1>4, <3>1, FS_Subset
    <3> QED
      BY <1>15, <2>1, <3>2
  <2>4. CASE ~(s[j].t < s[i].t)
    <3>1. s[i].t \in Nat /\ s[j].t \in Nat
      BY <1>1
    <3> QED
      BY <2>2, <2>4, <3>1
  <2> QED
    BY <2>3, <2>4
<1>16. Sorted(s) \in Seq(Bar) /\ Len(Sorted(s)) = n /\ DOMAIN Sorted(s) = D
  BY <1>1, <1>11
<1>17. InOrder(Sorted(s))
  BY <1>15, <1>16 DEF InOrder
<1> HIDE DEF f
<1> QED
  BY <1>13, <1>14, <1>16, <1>17

\* fill_missing_candles: the received candle, and after it candles at its close.
LEMMA StretchType ==
  ASSUME Frame \in Nat \ {0}, NEW c \in Bar, NEW t \in Nat
  PROVE  Stretch(c, t) \in Seq(Bar)
<1>1. c.t \in Nat /\ c.close \in Nat
  BY DEF Bar
<1> DEFINE n == (t - c.t - 1) \div Frame
<1>2. n \in Int
  BY <1>1
<1> HIDE DEF n
<1>3. ASSUME NEW k \in 1..n PROVE Synthetic(c, c.t + k * Frame) \in Bar
  <2>1. c.t + k * Frame \in Nat
    BY <1>1, <1>2
  <2> QED
    BY <1>1, <2>1 DEF Synthetic, Bar, Proper
<1>4. [k \in 1..n |-> Synthetic(c, c.t + k * Frame)] \in Seq(Bar)
  <2>1. CASE n \in Nat
    BY <1>3, <2>1
  <2>2. CASE n < 0
    <3>1. 1..n = {}
      BY <1>2, <2>2
    <3>2. [k \in 1..n |-> Synthetic(c, c.t + k * Frame)] = <<>>
      BY <3>1
    <3>3. <<>> \in Seq(Bar)
      OBVIOUS
    <3> QED
      BY <3>2, <3>3, Zenon
  <2> QED
    BY <1>2, <2>1, <2>2
<1>5. <<c>> \in Seq(Bar)
  OBVIOUS
<1> QED
  BY <1>4, <1>5 DEF Stretch, n

\* f is the concatenation of the first 1, 2, ..., n sequences of s.
Flat(f, s, n) == f = [i \in 1..n |-> IF i = 1 THEN s[i] ELSE f[i - 1] \o s[i]]

\* It exists, so FlattenSeq is its last value.
LEMMA FlatExists ==
  ASSUME NEW S, NEW s \in Seq(Seq(S))
  PROVE  \A n \in Nat : \E f : Flat(f, s, n)
<1> DEFINE Good == {n \in Nat : \E f : Flat(f, s, n)}
<1>1. 0 \in Good
  <2> DEFINE f == [i \in 1..0 |-> <<>>]
  <2>1. Flat(f, s, 0)
    BY DEF Flat
  <2> QED
    BY <2>1
<1>2. ASSUME NEW n \in Nat, n \in Good PROVE n + 1 \in Good
  <2>1. PICK f : Flat(f, s, n)
    BY <1>2
  <2> DEFINE g == [i \in 1..(n + 1) |->
                     IF i <= n THEN f[i] ELSE IF i = 1 THEN s[i] ELSE f[i - 1] \o s[i]]
  <2>2. ASSUME NEW i \in 1..(n + 1)
        PROVE  g[i] = IF i = 1 THEN s[i] ELSE g[i - 1] \o s[i]
    <3>1. i \in 1..n => f[i] = IF i = 1 THEN s[i] ELSE f[i - 1] \o s[i]
      BY <2>1 DEF Flat
    <3>2. i # 1 => i - 1 \in 1..n /\ i - 1 \in 1..(n + 1) /\ g[i - 1] = f[i - 1]
      OBVIOUS
    <3>3. i <= n => i \in 1..n
      OBVIOUS
    <3>4. g[i] = IF i <= n THEN f[i] ELSE IF i = 1 THEN s[i] ELSE f[i - 1] \o s[i]
      OBVIOUS
    <3> HIDE DEF g
    <3> QED
      BY <3>1, <3>2, <3>3, <3>4
  <2>3. Flat(g, s, n + 1)
    <3>1. g = [i \in 1..(n + 1) |-> g[i]]
      OBVIOUS
    <3> HIDE DEF g
    <3>2. g = [i \in 1..(n + 1) |-> IF i = 1 THEN s[i] ELSE g[i - 1] \o s[i]]
      BY <2>2, <3>1, Zenon
    <3> QED
      BY <3>2 DEF Flat
  <2> QED
    BY <2>3
<1> HIDE DEF Good
<1>3. \A n \in Nat : n \in Good
  BY <1>1, <1>2, Induction
<1> QED
  BY <1>3 DEF Good

\* Its recursion equation.
LEMMA FlatStep ==
  ASSUME NEW s, NEW n \in Nat, NEW f, Flat(f, s, n), NEW i \in 1..n
  PROVE  f[i] = IF i = 1 THEN s[i] ELSE f[i - 1] \o s[i]
  BY Zenon DEF Flat

\* FlattenSeq of a nonempty sequence is the last value of such a function.
LEMMA FlattenIsFlat ==
  ASSUME NEW S, NEW s \in Seq(Seq(S)), s # <<>>
  PROVE  \E f : Flat(f, s, Len(s)) /\ FlattenSeq(s) = f[Len(s)]
<1> DEFINE f == CHOOSE f : f = [i \in 1..Len(s) |-> IF i = 1 THEN s[i] ELSE f[i - 1] \o s[i]]
<1>1. Len(s) \in Nat /\ Len(s) # 0
  OBVIOUS
<1>2. \E g : Flat(g, s, Len(s))
  BY <1>1, FlatExists
<1>3. Flat(f, s, Len(s))
  BY <1>2, Zenon DEF Flat
<1>4. FlattenSeq(s) = f[Len(s)]
  BY <1>1, Zenon DEF FlattenSeq
<1> QED
  BY <1>3, <1>4

\* The concatenation of sequences of S is one.
LEMMA FlattenType ==
  ASSUME NEW S, NEW s \in Seq(Seq(S))
  PROVE  FlattenSeq(s) \in Seq(S)
<1>1. CASE s = <<>>
  <2>1. Len(<<>>) = 0
    OBVIOUS
  <2>2. FlattenSeq(<<>>) = <<>>
    BY <2>1, Zenon DEF FlattenSeq
  <2>3. <<>> \in Seq(S)
    OBVIOUS
  <2> QED
    BY <1>1, <2>2, <2>3, Zenon
<1>2. CASE s # <<>>
  <2> DEFINE n == Len(s)
  <2>1. n \in Nat \ {0}
    BY <1>2
  <2>2. PICK f : Flat(f, s, n) /\ FlattenSeq(s) = f[n]
    BY <1>2, FlattenIsFlat
  <2> DEFINE Good == {k \in Nat : k \in 1..n => f[k] \in Seq(S)}
  <2>3. 0 \in Good
    OBVIOUS
  <2>4. ASSUME NEW k \in Nat, k \in Good PROVE k + 1 \in Good
    <3> SUFFICES ASSUME k + 1 \in 1..n PROVE f[k + 1] \in Seq(S)
      OBVIOUS
    <3>1. PICK j \in 1..n : j = k + 1
      OBVIOUS
    <3>2. f[j] = IF j = 1 THEN s[j] ELSE f[j - 1] \o s[j]
      BY <2>1, <2>2, FlatStep
    <3>3. s[j] \in Seq(S) /\ j - 1 = k /\ (j # 1 => k \in 1..n)
      BY <3>1
    <3>4. j # 1 => f[j - 1] \in Seq(S)
      BY <2>4, <3>3
    <3>5. f[j] \in Seq(S)
      BY <3>2, <3>3, <3>4
    <3> QED
      BY <3>1, <3>5
  <2> HIDE DEF Good
  <2>5. \A k \in Nat : k \in Good
    BY <2>3, <2>4, Induction
  <2>6. n \in Good /\ n \in 1..n
    BY <2>1, <2>5
  <2> QED
    BY <2>2, <2>6 DEF Good
<1> QED
  BY <1>1, <1>2

-----------------------------------------------------------------------------
(* fill_missing_candles: where the candles of the filled series are.       *)

\* The times of the timeframe, numbered.
At(q) == q * Frame

\* What is needed of them: they are the multiples of the timeframe, in order, and between
\* two of them there are as many as their numbers are apart.
Evenly(F) ==
  /\ \A q \in Nat : q * F \in Nat /\ (q * F) % F = 0
  /\ \A t \in Nat : t % F = 0 => t \div F \in Nat /\ t = (t \div F) * F
  /\ \A q, r \in Nat : q < r => q * F < r * F
  /\ \A q, k \in Nat : q * F + k * F = (q + k) * F
  /\ \A q, r \in Nat : (r * F - q * F - 1) \div F = r - q - 1

\* They hold for every timeframe the cleaner knows.
LEMMA TimesAreEven == Evenly(Frame)
<1>1. Evenly(1)
  BY DEF Evenly
<1>2. Evenly(3)
  BY DEF Evenly
<1>3. Evenly(5)
  BY DEF Evenly
<1>4. Evenly(15)
  BY DEF Evenly
<1>5. Evenly(30)
  BY DEF Evenly
<1>6. Evenly(60)
  BY DEF Evenly
<1>7. Evenly(120)
  BY DEF Evenly
<1>8. Evenly(240)
  BY DEF Evenly
<1>9. Evenly(360)
  BY DEF Evenly
<1>10. Evenly(480)
  BY DEF Evenly
<1>11. Evenly(720)
  BY DEF Evenly
<1>12. Evenly(1440)
  BY DEF Evenly
<1>13. Evenly(4320)
  BY DEF Evenly
<1>14. Evenly(10080)
  BY DEF Evenly
<1>15. \/ Frame = 1 \/ Frame = 3 \/ Frame = 5 \/ Frame = 15 \/ Frame = 30 \/ Frame = 60 \/ Frame = 120
       \/ Frame = 240 \/ Frame = 360 \/ Frame = 480 \/ Frame = 720 \/ Frame = 1440 \/ Frame = 4320 \/ Frame = 10080
  BY FrameAssumption DEF Deltas
<1> QED
  BY <1>1, <1>2, <1>3, <1>4, <1>5, <1>6, <1>7, <1>8, <1>9, <1>10, <1>11, <1>12, <1>13, <1>14, <1>15

\* What is needed of the times, in terms of their numbers.
LEMMA TimesOfFrame ==
  /\ Frame \in Nat \ {0}
  /\ \A q \in Nat : At(q) \in Nat /\ At(q) % Frame = 0
  /\ \A t \in Nat : t % Frame = 0 => \E q \in Nat : t = At(q)
  /\ \A q, r \in Nat : q < r => At(q) < At(r)
  /\ \A q, k \in Nat : At(q) + k * Frame = At(q + k)
  /\ \A q, r \in Nat : (At(r) - At(q) - 1) \div Frame = r - q - 1
<1>1. Frame \in Nat \ {0}
  BY FrameAssumption DEF Deltas
<1>2. /\ \A q \in Nat : q * Frame \in Nat /\ (q * Frame) % Frame = 0
      /\ \A t \in Nat : t % Frame = 0 => t \div Frame \in Nat /\ t = (t \div Frame) * Frame
      /\ \A q, r \in Nat : q < r => q * Frame < r * Frame
      /\ \A q, k \in Nat : q * Frame + k * Frame = (q + k) * Frame
      /\ \A q, r \in Nat : (r * Frame - q * Frame - 1) \div Frame = r - q - 1
  BY TimesAreEven, Zenon DEF Evenly
<1>3. \A t \in Nat : t % Frame = 0 => \E q \in Nat : t = q * Frame
  BY <1>2, Zenon
<1> QED
  BY <1>1, <1>2, <1>3, Zenon DEF At

\* The sequence number i of s lies in F from off[i] on; the first m make up F.
Places(off, s, m, F) ==
  /\ \A i \in 1..m : /\ off[i] \in Nat /\ off[i] + Len(s[i]) <= Len(F)
                     /\ \A k \in 1..Len(s[i]) : F[off[i] + k] = s[i][k]
  /\ \A i, j \in 1..m : i < j => off[i] + Len(s[i]) <= off[j]
  /\ \A x \in 1..Len(F) : \E i \in 1..m : \E k \in 1..Len(s[i]) : x = off[i] + k

\* Where FlattenSeq puts the elements.
LEMMA FlattenPlaces ==
  ASSUME NEW S, NEW s \in Seq(Seq(S)), s # <<>>
  PROVE  \E off : Places(off, s, Len(s), FlattenSeq(s))
<1> DEFINE n == Len(s)
<1>1. n \in Nat \ {0} /\ \A i \in 1..n : s[i] \in Seq(S) /\ Len(s[i]) \in Nat
  OBVIOUS
<1>2. PICK f : Flat(f, s, n) /\ FlattenSeq(s) = f[n]
  BY FlattenIsFlat
<1> DEFINE off == [i \in 1..n |-> IF i = 1 THEN 0 ELSE Len(f[i - 1])]
           Good == {m \in Nat : m \in 1..n => f[m] \in Seq(S) /\ Places(off, s, m, f[m])}
<1>3. 0 \in Good
  OBVIOUS
<1>4. ASSUME NEW m \in Nat, m \in Good PROVE m + 1 \in Good
  <2> SUFFICES ASSUME m + 1 \in 1..n PROVE f[m + 1] \in Seq(S) /\ Places(off, s, m + 1, f[m + 1])
    OBVIOUS
  <2>1. PICK j \in 1..n : j = m + 1
    OBVIOUS
  <2>2. f[j] = IF j = 1 THEN s[j] ELSE f[j - 1] \o s[j]
    BY <1>1, <1>2, FlatStep
  <2>3. PICK x \in Seq(S) : x = s[j]
    BY <1>1
  <2>4. CASE m = 0
    <3>1. j = 1 /\ f[1] = x /\ off[1] = 0 /\ s[1] = x
      BY <2>1, <2>2, <2>3, <2>4
    <3>2. 1..1 = {1}
      OBVIOUS
    <3> HIDE DEF off
    <3>3. Places(off, s, 1, x)
      <4>1. \A k \in 1..Len(x) : x[0 + k] = x[k] /\ k = 0 + k
        OBVIOUS
      <4>2. 0 + Len(x) <= Len(x)
        OBVIOUS
      <4>3. /\ off[1] \in Nat /\ off[1] + Len(s[1]) <= Len(x)
            /\ \A k \in 1..Len(s[1]) : x[off[1] + k] = s[1][k]
        BY <3>1, <4>1, <4>2
      <4>4. \A y \in 1..Len(x) : \E k \in 1..Len(s[1]) : y = off[1] + k
        BY <3>1, <4>1
      <4>5. \A i, l \in 1..1 : i < l => off[i] + Len(s[i]) <= off[l]
        OBVIOUS
      <4> QED
        BY <3>2, <4>3, <4>4, <4>5, Zenon DEF Places
    <3> QED
      BY <2>1, <3>1, <3>3
  <2>5. CASE m # 0
    <3>1. m \in 1..n /\ j - 1 = m /\ j # 1
      BY <2>1, <2>5
    <3>2. PICK g \in Seq(S) : g = f[m] /\ Places(off, s, m, g)
      BY <1>4, <3>1
    <3>3. f[j] = g \o x /\ off[j] = Len(g)
      BY <2>1, <2>2, <2>3, <3>1, <3>2
    <3> HIDE DEF off
    <3>4. PICK h \in Seq(S) : h = g \o x
      <4>1. g \o x \in Seq(S)
        BY ConcatProperties
      <4> QED
        BY <4>1
    <3>5. /\ Len(g) \in Nat /\ Len(x) \in Nat /\ Len(h) = Len(g) + Len(x)
          /\ \A k \in 1..Len(g) : h[k] = g[k]
          /\ \A k \in 1..Len(x) : h[Len(g) + k] = x[k]
      BY <3>4
    <3>6. ASSUME NEW i \in 1..j
          PROVE  /\ off[i] \in Nat /\ off[i] + Len(s[i]) <= Len(h)
                 /\ \A k \in 1..Len(s[i]) : h[off[i] + k] = s[i][k]
      <4>1. CASE i = j
        <5>1. off[i] = Len(g) /\ s[i] = x
          BY <2>3, <3>3, <4>1
        <5>2. Len(g) \in Nat /\ Len(g) + Len(x) <= Len(h)
          BY <3>5
        <5> QED
          BY <3>5, <5>1, <5>2, Zenon
      <4>2. CASE i \in 1..m
        <5>1. PICK a, y : a = off[i] /\ y = s[i] /\ y \in Seq(S)
          BY <1>1, <3>1, <4>2
        <5>2. a \in Nat /\ a + Len(y) <= Len(g) /\ \A k \in 1..Len(y) : g[a + k] = y[k]
          BY <3>2, <4>2, <5>1 DEF Places
        <5>3. Len(y) \in Nat /\ \A k \in 1..Len(y) : a + k \in 1..Len(g)
          <6>1. Len(y) \in Nat
            BY <5>1
          <6> QED
            BY <3>5, <5>2, <6>1
        <5>4. a + Len(y) <= Len(h)
          BY <3>5, <5>2, <5>3
        <5>5. \A k \in 1..Len(y) : h[a + k] = y[k]
          BY <3>5, <5>2, <5>3
        <5> QED
          BY <5>1, <5>2, <5>4, <5>5
      <4> QED
        BY <2>1, <4>1, <4>2
    <3>7. ASSUME NEW i \in 1..j, NEW l \in 1..j, i < l PROVE off[i] + Len(s[i]) <= off[l]
      <4>1. i \in 1..m
        BY <2>1, <3>7
      <4>2. CASE l = j
        BY <3>2, <3>3, <4>1, <4>2 DEF Places
      <4>3. CASE l # j
        <5>1. l \in 1..m
          BY <2>1, <4>3
        <5> QED
          BY <3>2, <3>7, <4>1, <5>1 DEF Places
      <4> QED
        BY <4>2, <4>3
    <3>8. ASSUME NEW y \in 1..Len(h) PROVE \E i \in 1..j : \E k \in 1..Len(s[i]) : y = off[i] + k
      <4>1. CASE y \in 1..Len(g)
        <5>1. PICK i \in 1..m : \E k \in 1..Len(s[i]) : y = off[i] + k
          BY <3>2, <4>1 DEF Places
        <5>2. i \in 1..j
          BY <2>1
        <5> QED
          BY <5>1, <5>2
      <4>2. CASE y \notin 1..Len(g)
        <5>1. y - Len(g) \in 1..Len(x) /\ y = Len(g) + (y - Len(g)) /\ j \in 1..j
          BY <2>1, <3>5, <4>2
        <5>2. y - Len(g) \in 1..Len(s[j]) /\ y = off[j] + (y - Len(g))
          BY <2>3, <3>3, <5>1
        <5> QED
          BY <5>1, <5>2
      <4> QED
        BY <4>1, <4>2
    <3>9. Places(off, s, j, h)
      BY <3>6, <3>7, <3>8, Zenon DEF Places
    <3> QED
      BY <2>1, <3>3, <3>4, <3>9
  <2> QED
    BY <2>4, <2>5
<1> HIDE DEF Good
<1>5. \A m \in Nat : m \in Good
  BY <1>3, <1>4, Induction
<1>6. n \in 1..n /\ n \in Good
  BY <1>1, <1>5
<1>7. Places(off, s, n, FlattenSeq(s))
  BY <1>2, <1>6 DEF Good
<1> HIDE DEF off
<1> QED
  BY <1>7

\* u is the candle c of the time number q and one more for each time before number r.
Stretches(u, c, q, r) ==
  /\ Len(u) = Higher(1, r - q) /\ u[1] = c
  /\ \A k \in 1..Higher(1, r - q) : u[k].t = At(q + k - 1)

\* What is filled in after a candle lies on the times of the timeframe, up to the next.
LEMMA StretchShape ==
  ASSUME NEW c \in Bar, NEW q \in Nat, NEW r \in Nat, q <= r, c.t = At(q), NEW t, t = At(r)
  PROVE  Stretches(Stretch(c, t), c, q, r)
<1>1. (t - c.t - 1) \div Frame = r - q - 1
  BY TimesOfFrame
<1> DEFINE n == r - q - 1
           rest == [k \in 1..n |-> Synthetic(c, c.t + k * Frame)]
<1>2. Stretch(c, t) = <<c>> \o rest
  BY <1>1 DEF Stretch
<1>3. CASE q = r
  <2>1. 1..n = {}
    BY <1>3
  <2>2. rest = <<>>
    BY <2>1
  <2>3. <<c>> \o <<>> = <<c>>
    OBVIOUS
  <2>4. Stretch(c, t) = <<c>>
    BY <1>2, <2>2, <2>3, Zenon
  <2>5. Higher(1, r - q) = 1 /\ Len(<<c>>) = 1 /\ <<c>>[1] = c
    BY <1>3 DEF Higher
  <2>6. \A k \in 1..1 : k = 1 /\ q + k - 1 = q
    OBVIOUS
  <2> QED
    BY <2>4, <2>5, <2>6 DEF Stretches
<1>4. CASE q < r
  <2>1. n \in Nat /\ Higher(1, r - q) = n + 1
    BY <1>4 DEF Higher
  <2>2. \A k \in 1..n : Synthetic(c, c.t + k * Frame).t = At(q + k)
    <3> TAKE k \in 1..n
    <3>1. k \in Nat
      BY <2>1
    <3>2. c.t + k * Frame = At(q + k)
      BY <3>1, TimesOfFrame
    <3> QED
      BY <3>2 DEF Synthetic
  <2> HIDE DEF n
  <2>3. rest \in Seq({rest[k] : k \in 1..n}) /\ Len(rest) = n
    BY <2>1
  <2>4. \A k \in 1..n : rest[k].t = At(q + k)
    BY <2>2
  <2> HIDE DEF rest
  <2>5. PICK u : u = <<c>> \o rest
    OBVIOUS
  <2>6. Len(u) = n + 1 /\ u[1] = c /\ \A k \in 2..(n + 1) : u[k] = rest[k - 1]
    <3>1. PICK R : rest \in Seq(R)
      BY <2>3
    <3>2. <<c>> \in Seq(R \cup {c}) /\ rest \in Seq(R \cup {c}) /\ Len(<<c>>) = 1 /\ <<c>>[1] = c
      BY <3>1
    <3> QED
      BY <2>1, <2>3, <2>5, <3>2
  <2>7. ASSUME NEW k \in 1..(n + 1) PROVE u[k].t = At(q + k - 1)
    <3>1. CASE k = 1
      BY <2>6, <3>1
    <3>2. CASE k # 1
      <4>1. k - 1 \in 1..n /\ k \in 2..(n + 1) /\ q + (k - 1) = q + k - 1
        BY <2>1, <3>2
      <4> QED
        BY <2>4, <2>6, <4>1
    <3> QED
      BY <3>1, <3>2
  <2> QED
    BY <1>2, <2>1, <2>5, <2>6, <2>7 DEF Stretches
<1> QED
  BY <1>3, <1>4

\* How many candles stand for candle number i, at the times from number q[i] to before q[i + 1].
Steps(q, i, n) == IF i < n THEN Higher(1, q[i + 1] - q[i]) ELSE 1

\* F is the series s of n candles, at the times number q, filled up; candle i is at off[i] + 1.
Filled(F, s, n, q, off) ==
  /\ \A i \in 1..n : q[i] \in Nat /\ s[i].t = At(q[i])
  /\ \A i, j \in 1..n : i <= j => q[i] <= q[j]
  /\ \A i \in 1..n : /\ off[i] \in Nat /\ off[i] + Steps(q, i, n) <= Len(F) /\ F[off[i] + 1] = s[i]
                     /\ \A k \in 1..Steps(q, i, n) : F[off[i] + k].t = At(q[i] + k - 1)
  /\ \A i, j \in 1..n : i < j => off[i] + Steps(q, i, n) <= off[j]
  /\ \A x \in 1..Len(F) : \E i \in 1..n : \E k \in 1..Steps(q, i, n) : x = off[i] + k

\* This is what fill_missing_candles makes of a series in order.
LEMMA FillShape ==
  ASSUME NEW s \in Seq(Bar), s # <<>>, InOrder(s), \A i \in DOMAIN s : s[i].t % Frame = 0,
         NEW F, F = FlattenSeq([i \in DOMAIN s |-> Stretch(s[i], IF i < Len(s) THEN s[i + 1].t ELSE s[i].t)])
  PROVE  \E q, off : Filled(F, s, Len(s), q, off)
<1> DEFINE n == Len(s)
           next(i) == IF i < Len(s) THEN s[i + 1].t ELSE s[i].t
           p == [i \in DOMAIN s |-> Stretch(s[i], next(i))]
           q == [i \in 1..n |-> CHOOSE r \in Nat : s[i].t = At(r)]
<1>1. n \in Nat \ {0} /\ DOMAIN s = 1..n /\ \A i \in 1..n : s[i] \in Bar
  OBVIOUS
<1>2. \A i \in 1..n : s[i].t \in Nat /\ s[i].t % Frame = 0
  BY <1>1 DEF Bar
<1>3. \A i \in 1..n : q[i] \in Nat /\ s[i].t = At(q[i])
  <2> TAKE i \in 1..n
  <2>1. \E r \in Nat : s[i].t = At(r)
    BY <1>2, TimesOfFrame
  <2> QED
    BY <2>1
<1> HIDE DEF q
<1>4. ASSUME NEW i \in 1..n, NEW j \in 1..n, i <= j PROVE q[i] <= q[j]
  <2>1. q[i] \in Nat /\ q[j] \in Nat /\ s[i].t = At(q[i]) /\ s[j].t = At(q[j])
    BY <1>3
  <2>2. s[i].t \in Nat /\ s[j].t \in Nat /\ (i < j => s[i].t <= s[j].t)
    BY <1>1, <1>2 DEF InOrder
  <2>3. i = j \/ i < j
    BY <1>1, <1>4
  <2>4. q[j] < q[i] => At(q[j]) < At(q[i])
    BY <2>1, TimesOfFrame
  <2> QED
    BY <2>1, <2>2, <2>3, <2>4
<1>5. ASSUME NEW i \in 1..n
      PROVE  /\ Len(p[i]) = Steps(q, i, n) /\ p[i][1] = s[i] /\ p[i] \in Seq(Bar)
             /\ \A k \in 1..Steps(q, i, n) : p[i][k].t = At(q[i] + k - 1)
  <2>1. p[i] = Stretch(s[i], next(i))
    BY <1>1
  <2> HIDE DEF p
  <2>2. PICK r \in Nat : q[i] <= r /\ next(i) = At(r) /\ Higher(1, r - q[i]) = Steps(q, i, n)
    <3>1. CASE i < n
      <4>1. i + 1 \in 1..n /\ i <= i + 1
        BY <1>1, <3>1
      <4>2. q[i + 1] \in Nat /\ q[i] <= q[i + 1] /\ next(i) = At(q[i + 1])
        BY <1>3, <1>4, <3>1, <4>1
      <4> QED
        BY <3>1, <4>2 DEF Steps
    <3>2. CASE ~(i < n)
      <4>1. q[i] \in Nat /\ next(i) = At(q[i]) /\ q[i] - q[i] = 0
        BY <1>3, <3>2
      <4> QED
        BY <3>2, <4>1 DEF Steps, Higher
    <3> QED
      BY <3>1, <3>2
  <2>3. PICK c \in Bar, a \in Nat, t \in Nat : c = s[i] /\ a = q[i] /\ t = next(i) /\ c.t = At(a)
    <3>1. next(i) \in Nat
      BY <2>2, TimesOfFrame DEF At
    <3> HIDE DEF next
    <3> QED
      BY <3>1, <1>1, <1>3
  <2>4. /\ Len(Stretch(c, t)) = Higher(1, r - a) /\ Stretch(c, t)[1] = c
        /\ \A k \in 1..Higher(1, r - a) : Stretch(c, t)[k].t = At(a + k - 1)
    <3>1. r \in Nat /\ a \in Nat /\ c \in Bar /\ a <= r /\ c.t = At(a) /\ t = At(r)
      BY <2>2, <2>3
    <3> HIDE DEF next
    <3> QED
      BY <3>1, StretchShape DEF Stretches
  <2>5. Stretch(c, t) \in Seq(Bar)
    <3>1. t \in Nat /\ Frame \in Nat \ {0}
      BY <2>2, <2>3, TimesOfFrame
    <3> QED
      BY <3>1, StretchType
  <2> HIDE DEF next
  <2> QED
    BY <2>1, <2>2, <2>3, <2>4, <2>5
<1>6. p \in Seq(Seq(Bar)) /\ Len(p) = n /\ p # <<>>
  <2>1. DOMAIN p = 1..n /\ p = [i \in 1..n |-> p[i]]
    BY <1>1
  <2>2. \A i \in 1..n : p[i] \in Seq(Bar)
    BY <1>5
  <2> HIDE DEF p, n
  <2>3. p \in [1..n -> Seq(Bar)]
    BY <2>1, <2>2
  <2> QED
    BY <1>1, <2>3
<1>7. F = FlattenSeq(p)
  BY Zenon
<1> HIDE DEF p
<1>8. PICK off : Places(off, p, n, F)
  BY <1>6, <1>7, FlattenPlaces
<1>9. \A i \in 1..n : /\ off[i] \in Nat /\ off[i] + Steps(q, i, n) <= Len(F)
                      /\ \A k \in 1..Steps(q, i, n) : F[off[i] + k] = p[i][k]
  BY <1>5, <1>8 DEF Places
<1>10. \A i \in 1..n : /\ F[off[i] + 1] = s[i]
                       /\ \A k \in 1..Steps(q, i, n) : F[off[i] + k].t = At(q[i] + k - 1)
  <2> TAKE i \in 1..n
  <2>1. 1 \in 1..Steps(q, i, n)
    <3>1. i < n => i + 1 \in 1..n
      BY <1>1
    <3>2. i < n => q[i + 1] - q[i] \in Int
      BY <1>3, <3>1
    <3> QED
      BY <3>2 DEF Steps, Higher
  <2> QED
    BY <1>5, <1>9, <2>1
<1>11. \A i, j \in 1..n : i < j => off[i] + Steps(q, i, n) <= off[j]
  BY <1>5, <1>8 DEF Places
<1>12. \A x \in 1..Len(F) : \E i \in 1..n : \E k \in 1..Steps(q, i, n) : x = off[i] + k
  <2> TAKE x \in 1..Len(F)
  <2>1. PICK i \in 1..n : \E k \in 1..Len(p[i]) : x = off[i] + k
    BY <1>8 DEF Places
  <2> QED
    BY <1>5, <2>1
<1> HIDE DEF n
<1>13. Filled(F, s, n, q, off)
  BY <1>3, <1>4, <1>9, <1>10, <1>11, <1>12, Zenon DEF Filled
<1> QED
  BY <1>13 DEF n

\* The times are numbered one to one.
LEMMA TimesDiffer ==
  ASSUME NEW q \in Nat, NEW r \in Nat
  PROVE  (At(q) = At(r) <=> q = r) /\ (q <= r => At(q) <= At(r))
<1>1. At(q) \in Nat /\ At(r) \in Nat /\ (q < r => At(q) < At(r)) /\ (r < q => At(r) < At(q))
  BY TimesOfFrame
<1> QED
  BY <1>1

\* A candle and those filled in after it come before the next.
LEMMA StepsFit ==
  ASSUME NEW n \in Nat, NEW q, \A i \in 1..n : q[i] \in Nat,
         \A i, j \in 1..n : i <= j => q[i] <= q[j],
         NEW i \in 1..n, NEW k \in 1..Steps(q, i, n)
  PROVE  /\ Steps(q, i, n) \in Nat \ {0} /\ k \in Nat \ {0}
         /\ k # 1 => i + 1 \in 1..n /\ q[i] + k - 1 < q[i + 1]
<1>1. CASE i < n
  <2>1. i + 1 \in 1..n /\ i <= i + 1
    BY <1>1
  <2>2. q[i] \in Nat /\ q[i + 1] \in Nat /\ q[i] <= q[i + 1]
    BY <2>1
  <2>3. Steps(q, i, n) = Higher(1, q[i + 1] - q[i])
    BY <1>1 DEF Steps
  <2>4. CASE q[i + 1] - q[i] <= 1
    <3>1. Steps(q, i, n) = 1
      BY <2>2, <2>3, <2>4 DEF Higher
    <3> QED
      BY <3>1
  <2>5. CASE ~(q[i + 1] - q[i] <= 1)
    <3>1. Steps(q, i, n) = q[i + 1] - q[i]
      BY <2>2, <2>3, <2>5 DEF Higher
    <3>2. k \in 1..(q[i + 1] - q[i])
      BY <3>1
    <3> QED
      BY <2>1, <2>2, <2>5, <3>1, <3>2
  <2> QED
    BY <2>4, <2>5
<1>2. CASE ~(i < n)
  BY <1>2 DEF Steps
<1> QED
  BY <1>1, <1>2

\* The filled series is in order.
LEMMA FilledInOrder ==
  ASSUME NEW F, NEW s, NEW n \in Nat, NEW q, NEW off, Filled(F, s, n, q, off), Len(F) \in Nat, DOMAIN F = 1..Len(F)
  PROVE  InOrder(F)
<1>1. (\A i \in 1..n : q[i] \in Nat) /\ (\A i, j \in 1..n : i <= j => q[i] <= q[j])
  BY DEF Filled
<1> SUFFICES ASSUME NEW x \in 1..Len(F), NEW y \in 1..Len(F), x < y
             PROVE  F[x].t <= F[y].t
  BY DEF InOrder
<1>2. PICK i \in 1..n : \E k \in 1..Steps(q, i, n) : x = off[i] + k
  BY DEF Filled
<1>3. PICK k \in 1..Steps(q, i, n) : x = off[i] + k
  BY <1>2
<1>4. PICK j \in 1..n : \E l \in 1..Steps(q, j, n) : y = off[j] + l
  BY DEF Filled
<1>5. PICK l \in 1..Steps(q, j, n) : y = off[j] + l
  BY <1>4
<1>6. /\ q[i] \in Nat /\ q[j] \in Nat /\ off[i] \in Nat /\ off[j] \in Nat
      /\ F[x].t = At(q[i] + k - 1) /\ F[y].t = At(q[j] + l - 1)
      /\ (i < j => off[i] + Steps(q, i, n) <= off[j]) /\ (j < i => off[j] + Steps(q, j, n) <= off[i])
  BY <1>3, <1>5 DEF Filled
<1>7. /\ Steps(q, i, n) \in Nat \ {0} /\ k \in Nat \ {0}
      /\ k # 1 => i + 1 \in 1..n /\ q[i] + k - 1 < q[i + 1]
  BY <1>1, StepsFit
<1>8. Steps(q, j, n) \in Nat \ {0} /\ l \in Nat \ {0}
  BY <1>1, StepsFit
<1>9. q[i] + k - 1 <= q[j] + l - 1
  <2>1. PICK a \in Nat, b \in Nat, c \in Nat, d \in Nat, u \in Nat, v \in Nat :
          /\ a = q[i] /\ b = q[j] /\ c = off[i] /\ d = off[j]
          /\ u = Steps(q, i, n) /\ v = Steps(q, j, n)
    BY <1>6, <1>7, <1>8
  <2>2. /\ c + k < d + l /\ k \in 1..u /\ l \in 1..v /\ k \in Nat /\ l \in Nat
        /\ (i < j => c + u <= d) /\ (j < i => d + v <= c)
    BY <1>3, <1>5, <1>6, <1>7, <1>8, <2>1
  <2>3. a + k - 1 <= b + l - 1
    <3>1. CASE i = j
      <4>1. a = b /\ c = d
        BY <2>1, <3>1
      <4> QED
        BY <2>2, <4>1
    <3>2. CASE j < i
      BY <2>2, <3>2
    <3>3. CASE i < j
      <4>1. a <= b
        BY <1>1, <2>1, <3>3
      <4>2. CASE k = 1
        BY <2>2, <4>1, <4>2
      <4>3. CASE k # 1
        <5>1. i + 1 \in 1..n /\ i + 1 <= j /\ a + k - 1 < q[i + 1]
          BY <1>7, <2>1, <3>3, <4>3
        <5>2. q[i + 1] \in Nat /\ q[i + 1] <= b
          BY <1>1, <2>1, <5>1
        <5>3. PICK e \in Nat : e = q[i + 1]
          BY <5>2
        <5>4. a + k - 1 < e /\ e <= b
          BY <5>1, <5>2, <5>3
        <5> QED
          BY <2>2, <5>4
      <4> QED
        BY <4>2, <4>3
    <3> QED
      BY <3>1, <3>2, <3>3
  <2> QED
    BY <2>1, <2>3
<1>10. PICK a \in Nat, b \in Nat : a = q[i] + k - 1 /\ b = q[j] + l - 1
  <2>1. q[i] + k - 1 \in Nat
    <3>1. q[i] \in Nat /\ k \in Nat \ {0}
      BY <1>6, <1>7, Zenon
    <3> QED
      BY <3>1
  <2>2. q[j] + l - 1 \in Nat
    <3>1. q[j] \in Nat /\ l \in Nat \ {0}
      BY <1>6, <1>8, Zenon
    <3> QED
      BY <3>1
  <2> QED
    BY <2>1, <2>2
<1>11. At(a) <= At(b)
  BY <1>9, <1>10, TimesDiffer
<1> QED
  BY <1>6, <1>10, <1>11

\* At a time from the first to the last candle there are the candles of that time, or one
\* that was filled in.
LEMMA FilledCount ==
  ASSUME NEW F, NEW s, NEW n \in Nat, NEW q, NEW off, Filled(F, s, n, q, off), Len(F) \in Nat,
         n # 0, NEW r \in Nat, q[1] <= r, r <= q[n],
         NEW J, J = {x \in 1..Len(F) : F[x].t = At(r)}, NEW K, K = {i \in 1..n : s[i].t = At(r)}
  PROVE  Cardinality(J) = Higher(1, Cardinality(K))
<1>1. (\A i \in 1..n : q[i] \in Nat) /\ (\A i, j \in 1..n : i <= j => q[i] <= q[j])
  BY DEF Filled
<1>2. /\ \A i \in 1..n : off[i] \in Nat /\ off[i] + Steps(q, i, n) <= Len(F)
      /\ \A i, j \in 1..n : i < j => off[i] + Steps(q, i, n) <= off[j]
  BY DEF Filled
<1>3. \A i \in 1..n : i \in K <=> q[i] = r
  <2> TAKE i \in 1..n
  <2>1. q[i] \in Nat /\ s[i].t = At(q[i])
    BY DEF Filled
  <2> QED
    BY <2>1, TimesDiffer
<1>4. IsFiniteSet(K)
  <2>1. K \in SUBSET (1..n) /\ IsFiniteSet(1..n)
    BY FS_Interval
  <2> QED
    BY <2>1, FS_Subset, Zenon
<1>5. ASSUME NEW i \in 1..n, NEW k \in 1..Steps(q, i, n)
      PROVE  /\ off[i] + k \in 1..Len(F)
             /\ off[i] + k \in J <=> q[i] + k - 1 = r
  <2>1. off[i] \in Nat /\ q[i] \in Nat /\ F[off[i] + k].t = At(q[i] + k - 1) /\ off[i] + Steps(q, i, n) <= Len(F)
    BY DEF Filled
  <2>2. Steps(q, i, n) \in Nat \ {0} /\ k \in Nat \ {0}
    BY <1>1, StepsFit
  <2>3. off[i] + k \in 1..Len(F)
    BY <2>1, <2>2
  <2>4. PICK a \in Nat : a = q[i] + k - 1
    BY <2>1, <2>2
  <2>5. At(a) = At(r) <=> a = r
    BY TimesDiffer
  <2> QED
    BY <2>1, <2>3, <2>4, <2>5
<1>6. ASSUME NEW x \in J
      PROVE  \E i \in 1..n : \E k \in 1..Steps(q, i, n) : x = off[i] + k /\ q[i] + k - 1 = r
  <2>1. x \in 1..Len(F)
    OBVIOUS
  <2>2. PICK i \in 1..n : \E k \in 1..Steps(q, i, n) : x = off[i] + k
    BY <2>1 DEF Filled
  <2> QED
    BY <1>5, <2>2
<1>7. CASE K # {}
  <2> DEFINE g == [i \in K |-> off[i] + 1]
  <2>1. K \subseteq 1..n /\ \A i \in 1..n : 1 \in 1..Steps(q, i, n)
    <3>1. \A i \in 1..n : i < n => q[i + 1] - q[i] \in Int
      BY <1>1
    <3> QED
      BY <3>1 DEF Steps, Higher
  <2>2. \A i \in K : off[i] + 1 \in J
    <3> TAKE i \in K
    <3>1. i \in 1..n /\ q[i] = r /\ 1 \in 1..Steps(q, i, n)
      BY <1>3, <2>1
    <3>2. q[i] + 1 - 1 = r
      BY <3>1
    <3> QED
      BY <1>5, <3>1, <3>2
  <2>3. ASSUME NEW x \in J PROVE \E i \in K : x = off[i] + 1
    <3>1. PICK i \in 1..n : \E k \in 1..Steps(q, i, n) : x = off[i] + k /\ q[i] + k - 1 = r
      BY <1>6
    <3>2. PICK k \in 1..Steps(q, i, n) : x = off[i] + k /\ q[i] + k - 1 = r
      BY <3>1
    <3>3. /\ k \in Nat \ {0} /\ q[i] \in Nat
          /\ k # 1 => i + 1 \in 1..n /\ q[i] + k - 1 < q[i + 1]
      BY <1>1, StepsFit
    <3>4. CASE k = 1
      BY <1>3, <3>2, <3>3, <3>4
    <3>5. CASE k # 1
      <4>1. PICK j \in 1..n : q[j] = r
        BY <1>3, <1>7, <2>1
      <4>2. j <= i \/ i + 1 <= j
        OBVIOUS
      <4>3. (j <= i => q[j] <= q[i]) /\ (i + 1 <= j => q[i + 1] <= q[j])
        BY <1>1, <3>3, <3>5
      <4>4. q[i] < r /\ r < q[i + 1] /\ q[i + 1] \in Nat
        BY <1>1, <3>2, <3>3, <3>5
      <4> QED
        BY <3>3, <4>1, <4>2, <4>3, <4>4
    <3> QED
      BY <3>4, <3>5
  <2>4. \A i, j \in K : off[i] + 1 = off[j] + 1 => i = j
    <3> SUFFICES ASSUME NEW i \in K, NEW j \in K, off[i] + 1 = off[j] + 1, i < j PROVE FALSE
      <4>1. \A i, j \in K : i = j \/ i < j \/ j < i
        BY <2>1
      <4> QED
        BY <4>1
    <3>1. i \in 1..n /\ j \in 1..n /\ 1 \in 1..Steps(q, i, n)
      BY <2>1
    <3>2. Steps(q, i, n) \in Nat \ {0}
      BY <1>1, <3>1, StepsFit
    <3>3. off[i] + Steps(q, i, n) <= off[j] /\ off[i] \in Nat /\ off[j] \in Nat
      BY <1>2, <3>1
    <3> QED
      BY <3>2, <3>3
  <2>5. g \in Bijection(K, J)
    <3>1. g \in [K -> J]
      BY <2>2
    <3>2. \A i, j \in K : g[i] = g[j] => i = j
      BY <2>4
    <3>3. \A x \in J : \E i \in K : g[i] = x
      BY <2>3
    <3> HIDE DEF g
    <3> QED
      BY <3>1, <3>2, <3>3 DEF Bijection, Injection, IsInjective, Surjection
  <2>6. Cardinality(J) = Cardinality(K)
    BY <1>4, <2>5, FS_Bijection DEF ExistsBijection
  <2>7. Cardinality(K) \in Nat \ {0}
    BY <1>4, <1>7, FS_CardinalityType, FS_EmptySet
  <2> QED
    BY <2>6, <2>7 DEF Higher
<1>8. CASE K = {}
  <2> DEFINE later == {i \in 1..n : r < q[i]}
  <2>1. n \in 1..n /\ 1 \in 1..n
    OBVIOUS
  <2>2. n \in later
    <3>1. q[n] # r /\ q[n] \in Nat
      BY <1>1, <1>3, <1>8, <2>1
    <3> QED
      BY <2>1, <3>1
  <2>3. later \subseteq Nat
    OBVIOUS
  <2>4. PICK l \in later : \A i \in later : l <= i
    BY <2>2, <2>3, LeastNatural
  <2>5. l \in 1..n /\ r < q[l] /\ q[l] \in Nat
    BY <1>1, <2>4
  <2>6. l # 1
    BY <1>1, <2>1, <2>5
  <2>7. PICK i \in 1..n : i = l - 1 /\ i + 1 = l
    BY <2>5, <2>6
  <2>8. q[i] < r /\ q[i] \in Nat
    <3>1. i \notin later
      BY <2>4, <2>5, <2>7
    <3>2. q[i] \in Nat /\ q[i] # r
      BY <1>1, <1>3, <1>8
    <3> QED
      BY <3>1, <3>2
  <2>9. PICK k : k = r - q[i] + 1
    OBVIOUS
  <2>10. k \in 1..Steps(q, i, n) /\ q[i] + k - 1 = r
    <3>1. Steps(q, i, n) = Higher(1, q[l] - q[i])
      BY <2>5, <2>7 DEF Steps
    <3>2. Higher(1, q[l] - q[i]) = q[l] - q[i]
      BY <2>5, <2>8 DEF Higher
    <3> QED
      BY <2>5, <2>8, <2>9, <3>1, <3>2
  <2>11. off[i] + k \in J
    BY <1>5, <2>10
  <2>12. ASSUME NEW x \in J PROVE x = off[i] + k
    <3>1. PICK j \in 1..n : \E m \in 1..Steps(q, j, n) : x = off[j] + m /\ q[j] + m - 1 = r
      BY <1>6
    <3>2. PICK m \in 1..Steps(q, j, n) : x = off[j] + m /\ q[j] + m - 1 = r
      BY <3>1
    <3>3. /\ m \in Nat \ {0} /\ q[j] \in Nat
          /\ m # 1 => j + 1 \in 1..n /\ q[j] + m - 1 < q[j + 1]
      BY <1>1, StepsFit
    <3>4. m # 1
      BY <1>3, <1>8, <3>2, <3>3
    <3>5. q[j] < r /\ r < q[j + 1] /\ q[j + 1] \in Nat
      BY <1>1, <3>2, <3>3, <3>4
    <3>6. ~(j < i)
      <4>1. j < i => j + 1 <= i
        OBVIOUS
      <4>2. j + 1 <= i => q[j + 1] <= q[i]
        BY <1>1, <3>3, <3>4
      <4> QED
        BY <2>8, <3>5, <4>1, <4>2
    <3>7. ~(i < j)
      <4>1. i < j => l <= j
        BY <2>5, <2>7
      <4>2. l <= j => q[l] <= q[j]
        BY <1>1, <2>5
      <4> QED
        BY <2>5, <3>3, <3>5, <4>1, <4>2
    <3>8. j = i
      BY <3>6, <3>7
    <3>9. m = k
      BY <2>8, <2>9, <3>2, <3>3, <3>8
    <3> QED
      BY <3>2, <3>8, <3>9
  <2>13. J = {off[i] + k}
    BY <2>11, <2>12
  <2>14. Cardinality(J) = 1
    BY <2>13, FS_Singleton
  <2>15. Cardinality(K) = 0
    BY <1>8, FS_EmptySet
  <2> QED
    BY <2>14, <2>15 DEF Higher
<1> QED
  BY <1>7, <1>8

\* fill_missing_candles keeps every candle and adds sound ones, so that the series is whole
\* and its candles are on the times of the timeframe.
LEMMA FillMissingType ==
  ASSUME data \in Seq(Bar), OnTime(data), FillMissing
  PROVE  data' \in Seq(Bar) /\ OnTime(data') /\ IsWhole(data', data)
<1> DEFINE n == Len(data)
           D == 1..n
<1>1. n \in Nat /\ n >= 2 /\ DOMAIN data = D /\ 1 \in D /\ n \in D /\ \A i \in D : data[i] \in Bar
  BY DEF FillMissing
<1>2. PICK s : s = Sorted(data)
  OBVIOUS
<1>3. s \in Seq(Bar) /\ Len(s) = n /\ DOMAIN s = D /\ InOrder(s) /\ s # <<>>
  BY <1>1, <1>2, SortedType
<1>4. PICK f \in Bijection(D, D) : \A i \in D : s[f[i]] = data[i]
  BY <1>2, SortedType
<1>5. /\ \A i \in D : f[i] \in D
      /\ \A k \in D : \E i \in D : f[i] = k
      /\ \A i, j \in D : f[i] = f[j] => i = j
  BY <1>4 DEF Bijection, Injection, IsInjective, Surjection
<1>6. \A i \in DOMAIN s : s[i].t % Frame = 0
  <2> TAKE k \in DOMAIN s
  <2>1. PICK i \in D : f[i] = k
    BY <1>3, <1>5
  <2> QED
    BY <1>1, <1>4, <2>1 DEF OnTime
<1>7. data' = FlattenSeq([i \in DOMAIN s |-> Stretch(s[i], IF i < Len(s) THEN s[i + 1].t ELSE s[i].t)])
  BY <1>2, Zenon DEF FillMissing
<1> HIDE DEF n
<1>8. data' \in Seq(Bar)
  <2> DEFINE next(i) == IF i < Len(s) THEN s[i + 1].t ELSE s[i].t
             p == [i \in DOMAIN s |-> Stretch(s[i], next(i))]
  <2>1. \A c \in Bar : c.t \in Nat
    BY DEF Bar
  <2>2. \A i \in DOMAIN s : s[i] \in Bar
    BY <1>3
  <2>3. ASSUME NEW i \in DOMAIN s PROVE Stretch(s[i], next(i)) \in Seq(Bar)
    <3>1. i < Len(s) => i + 1 \in DOMAIN s
      BY <1>3
    <3>2. next(i) \in Nat
      BY <2>1, <2>2, <3>1
    <3>3. Frame \in Nat \ {0}
      BY TimesOfFrame
    <3> HIDE DEF next
    <3> QED
      BY <2>2, <3>2, <3>3, StretchType
  <2> HIDE DEF next
  <2>4. p \in Seq(Seq(Bar))
    BY <1>1, <1>3, <2>3
  <2>5. FlattenSeq(p) \in Seq(Bar)
    BY <2>4, FlattenType, Zenon
  <2> QED
    BY <1>7, <2>5, Zenon DEF next
<1>9. PICK F \in Seq(Bar) : F = data'
  BY <1>8
<1>10. Len(F) \in Nat /\ DOMAIN F = 1..Len(F)
  BY <1>9
<1>11. PICK q, off : Filled(F, s, n, q, off)
  <2>1. \E q, off : Filled(F, s, Len(s), q, off)
    BY <1>3, <1>6, <1>7, <1>9, FillShape
  <2> QED
    BY <1>3, <2>1
<1>12. /\ \A i \in D : /\ q[i] \in Nat /\ s[i].t = At(q[i]) /\ off[i] \in Nat
                       /\ F[off[i] + 1] = s[i] /\ off[i] + Steps(q, i, n) <= Len(F)
                       /\ \A k \in 1..Steps(q, i, n) : F[off[i] + k].t = At(q[i] + k - 1)
       /\ \A i, j \in D : i <= j => q[i] <= q[j]
       /\ \A x \in 1..Len(F) : \E i \in D : \E k \in 1..Steps(q, i, n) : x = off[i] + k
  BY <1>11, Zenon DEF Filled
<1>13. \A i \in D : \A k \in 1..Steps(q, i, n) : Steps(q, i, n) \in Nat \ {0} /\ k \in Nat \ {0}
  BY <1>1, <1>12, StepsFit
<1>14. OnTime(F)
  <2> SUFFICES ASSUME NEW x \in 1..Len(F) PROVE F[x].t % Frame = 0
    BY <1>10 DEF OnTime
  <2>1. PICK i \in D : \E k \in 1..Steps(q, i, n) : x = off[i] + k
    BY <1>12
  <2>2. PICK k \in 1..Steps(q, i, n) : x = off[i] + k
    BY <2>1
  <2>3. F[x].t = At(q[i] + k - 1)
    BY <1>12, <2>2, Zenon
  <2>4. q[i] + k - 1 \in Nat
    <3>1. q[i] \in Nat /\ k \in Nat \ {0}
      BY <1>12, <1>13, Zenon
    <3> QED
      BY <3>1
  <2> QED
    BY <2>3, <2>4, TimesOfFrame
<1>15. InOrder(F)
  BY <1>1, <1>10, <1>11, FilledInOrder
<1>16. \A i \in DOMAIN data : \E j \in DOMAIN F : F[j] = data[i]
  <2> TAKE i \in DOMAIN data
  <2>1. f[i] \in D /\ s[f[i]] = data[i]
    BY <1>1, <1>4, <1>5
  <2>2. PICK k \in D : k = f[i]
    BY <2>1
  <2>3. 1 \in 1..Steps(q, k, n)
    <3>1. k < n => k + 1 \in D
      BY <1>1
    <3>2. k < n => q[k + 1] - q[k] \in Int
      BY <1>12, <3>1
    <3> QED
      BY <3>2 DEF Steps, Higher
  <2>4. off[k] + 1 \in DOMAIN F
    <3>1. Steps(q, k, n) \in Nat \ {0}
      BY <1>13, <2>3
    <3>2. off[k] \in Nat /\ off[k] + Steps(q, k, n) <= Len(F)
      BY <1>12
    <3>3. off[k] + 1 \in 1..Len(F)
      BY <1>10, <3>1, <3>2
    <3> QED
      BY <1>10, <3>3
  <2> QED
    BY <1>12, <2>1, <2>2, <2>4
<1> DEFINE old == {data[i].t : i \in DOMAIN data}
<1>17. ASSUME NEW t \in Min(old)..Max(old), t % Frame = 0
       PROVE  Cardinality({j \in DOMAIN F : F[j].t = t})
                = Higher(1, Cardinality({i \in DOMAIN data : data[i].t = t}))
  <2>1. \A i \in D : s[i].t \in Nat
    BY <1>3 DEF Bar
  <2>2. \A y \in old : y \in Nat /\ s[1].t <= y /\ y <= s[n].t
    <3> TAKE y \in old
    <3>1. PICK i \in D : y = data[i].t
      BY <1>1
    <3>2. PICK k \in D : s[k].t = y
      BY <1>4, <1>5, <3>1
    <3>3. (1 < k => s[1].t <= s[k].t) /\ (k < n => s[k].t <= s[n].t)
      BY <1>1, <1>3 DEF InOrder
    <3>4. (1 = k \/ 1 < k) /\ (k = n \/ k < n)
      BY <1>1
    <3> QED
      BY <2>1, <3>2, <3>3, <3>4
  <2>3. s[1].t \in old /\ s[n].t \in old
    <3>1. PICK i \in D, j \in D : f[i] = 1 /\ f[j] = n
      BY <1>1, <1>5
    <3> QED
      BY <1>1, <1>4, <3>1
  <2> HIDE DEF old
  <2>4. Min(old) \in old
    <3>1. \E x \in old : \A y \in old : x <= y
      BY <2>2, <2>3
    <3> QED
      BY <3>1, Zenon DEF Min
  <2>5. Max(old) \in old
    <3>1. \E x \in old : \A y \in old : x >= y
      BY <2>2, <2>3
    <3> QED
      BY <3>1, Zenon DEF Max
  <2>6. t \in Nat /\ s[1].t <= t /\ t <= s[n].t
    <3>1. PICK a \in Nat, b \in Nat : a = Min(old) /\ b = Max(old)
      BY <2>2, <2>4, <2>5
    <3>2. t \in a..b /\ s[1].t <= a /\ b <= s[n].t
      BY <2>2, <2>4, <2>5, <3>1
    <3> QED
      BY <1>1, <2>1, <3>2
  <2>7. PICK r \in Nat : t = At(r)
    BY <1>17, <2>6, TimesOfFrame
  <2>8. q[1] <= r /\ r <= q[n]
    <3>1. q[1] \in Nat /\ q[n] \in Nat /\ At(q[1]) <= At(r) /\ At(r) <= At(q[n])
      BY <1>1, <1>12, <2>6, <2>7
    <3>2. (r < q[1] => At(r) < At(q[1])) /\ (q[n] < r => At(q[n]) < At(r))
      BY <3>1, TimesOfFrame
    <3>3. At(q[1]) \in Nat /\ At(q[n]) \in Nat /\ At(r) \in Nat
      BY <3>1, TimesOfFrame
    <3> QED
      BY <3>1, <3>2, <3>3
  <2> DEFINE J == {x \in 1..Len(F) : F[x].t = At(r)}
             K == {i \in 1..n : s[i].t = At(r)}
             I == {i \in DOMAIN data : data[i].t = t}
             g == [i \in I |-> f[i]]
  <2>9. Cardinality(J) = Higher(1, Cardinality(K))
    <3>1. \A x, y : x = J /\ y = K => Cardinality(x) = Higher(1, Cardinality(y))
      <4>1. n # 0
        BY <1>1
      <4> HIDE DEF J, K
      <4> QED
        BY <1>1, <1>10, <1>11, <2>8, <4>1, FilledCount, SMTT(30) DEF J, K
    <3> QED
      BY <3>1
  <2>10. g \in Bijection(I, K)
    <3>1. g \in [I -> K]
      BY <1>1, <1>4, <1>5, <2>7
    <3>2. \A i, j \in I : g[i] = g[j] => i = j
      BY <1>1, <1>5
    <3>3. \A k \in K : \E i \in I : g[i] = k
      <4> TAKE k \in K
      <4>1. PICK i \in D : f[i] = k
        BY <1>5
      <4>2. i \in I
        BY <1>1, <1>4, <2>7, <4>1
      <4> QED
        BY <4>1, <4>2
    <3> HIDE DEF g, I, K
    <3> QED
      BY <3>1, <3>2, <3>3 DEF Bijection, Injection, IsInjective, Surjection
  <2>11. Cardinality(K) = Cardinality(I)
    <3>1. I \in SUBSET D /\ IsFiniteSet(D)
      BY <1>1, FS_Interval
    <3>2. IsFiniteSet(I)
      BY <3>1, FS_Subset, Zenon
    <3> HIDE DEF g, I, K
    <3> QED
      BY <2>10, <3>2, FS_Bijection DEF ExistsBijection
  <2>12. J = {j \in DOMAIN F : F[j].t = t}
    BY <1>10, <2>7
  <2> QED
    BY <2>9, <2>11, <2>12, Zenon
<1> HIDE DEF old
<1>18. IsWhole(F, data)
  BY <1>15, <1>16, <1>17, Zenon DEF IsWhole, old
<1> QED
  BY <1>8, <1>9, <1>14, <1>18, Zenon

-----------------------------------------------------------------------------
(* remove_duplicates.                                                      *)

\* It keeps some of the candles, and their times.
LEMMA RemoveDuplicatesType ==
  ASSUME data \in Seq(Bar), OnTime(data), RemoveDuplicates
  PROVE  data' \in Seq(Bar) /\ OnTime(data') /\ Len(data') <= Len(data)
<1> DEFINE s == Sorted(data)
           I == {i \in DOMAIN s : \A j \in 1..(i - 1) : s[j].t # s[i].t}
           kept == Ascending(I)
<1>1. /\ s \in Seq(Bar) /\ Len(s) = Len(data)
      /\ \E f \in Bijection(1..Len(data), 1..Len(data)) : \A i \in 1..Len(data) : s[f[i]] = data[i]
  BY SortedType
<1>2. data' = [k \in DOMAIN kept |-> s[kept[k]]]
  BY Zenon DEF RemoveDuplicates
<1> HIDE DEF s
<1>3. Len(s) \in Nat /\ DOMAIN s = 1..Len(s) /\ \A i \in DOMAIN s : s[i] \in Bar
  BY <1>1
<1>4. \A i \in 1..Len(s) : s[i].t % Frame = 0
  <2> TAKE k \in 1..Len(s)
  <2>1. PICK f \in Bijection(1..Len(data), 1..Len(data)) : \A i \in 1..Len(data) : s[f[i]] = data[i]
    BY <1>1
  <2>2. PICK i \in 1..Len(data) : f[i] = k
    BY <1>1, <2>1 DEF Bijection, Surjection
  <2>3. i \in DOMAIN data /\ s[k] = data[i]
    BY <2>1, <2>2
  <2> QED
    BY <2>3 DEF OnTime
<1>5. I \in SUBSET (1..Len(s)) /\ I \subseteq Nat
  BY <1>3
<1>6. IsFiniteSet(I) /\ Cardinality(I) <= Len(s)
  <2>1. PICK D, n : D = 1..n /\ n = Len(s)
    OBVIOUS
  <2>2. IsFiniteSet(D) /\ Cardinality(D) = Len(s)
    <3>1. n \in Nat
      BY <1>3, <2>1
    <3>2. IsFiniteSet(1..n) /\ Cardinality(1..n) = n
      <4>1. IsFiniteSet(1..n) /\ Cardinality(1..n) = IF 1 > n THEN 0 ELSE n - 1 + 1
        BY <3>1, FS_Interval
      <4> QED
        BY <3>1, <4>1
    <3> QED
      BY <2>1, <3>2
  <2> HIDE DEF I
  <2> QED
    BY <1>5, <2>1, <2>2, FS_Subset
<1> HIDE DEF I
<1>7. kept \in Seq(I) /\ DOMAIN kept = 1..Cardinality(I)
  <2>1. kept \in Seq(I)
    BY <1>5, <1>6, AscendingIsSorted
  <2>2. DOMAIN kept = 1..Cardinality(I)
    BY Zenon DEF Ascending
  <2> QED
    BY <2>1, <2>2
<1> HIDE DEF kept
<1>8. Len(kept) \in Nat /\ DOMAIN kept = 1..Len(kept) /\ \A k \in 1..Len(kept) : kept[k] \in I
  <2>1. ASSUME NEW S, NEW x \in Seq(S)
        PROVE  Len(x) \in Nat /\ DOMAIN x = 1..Len(x) /\ \A k \in 1..Len(x) : x[k] \in S
    OBVIOUS
  <2> QED
    BY <1>7, <2>1, Zenon
<1>9. Len(kept) <= Len(s)
  <2>1. Cardinality(I) \in Nat
    BY <1>6, FS_CardinalityType
  <2>2. Len(kept) = Cardinality(I)
    BY <1>7, <1>8, <2>1
  <2> QED
    BY <1>6, <2>2
<1>10. ASSUME NEW k \in 1..Len(kept) PROVE s[kept[k]] \in Bar /\ s[kept[k]].t % Frame = 0
  <2>1. kept[k] \in DOMAIN s
    BY <1>3, <1>5, <1>8
  <2> QED
    BY <1>3, <1>4, <2>1
<1>11. [k \in 1..Len(kept) |-> s[kept[k]]] \in Seq(Bar)
  BY <1>8, <1>10
<1>12. data' = [k \in 1..Len(kept) |-> s[kept[k]]]
  BY <1>2, <1>8, Zenon
<1>13. OnTime(data') /\ Len(data') = Len(kept)
  BY <1>8, <1>10, <1>12 DEF OnTime
<1> QED
  BY <1>1, <1>9, <1>11, <1>12, <1>13

-----------------------------------------------------------------------------
(* smooth_price_spikes, through the function its definition is recursive in. *)

\* g is the series d, smoothed up to its candle n.
SmoothTo(g, d, n) ==
  g = [i \in 1..n |->
         IF i \in 2..(Len(d) - 1) /\ IsSpike(g[i - 1].close, d[i].close, d[i + 1].close)
         THEN Smoothed(g[i - 1], d[i], d[i + 1]) ELSE d[i]]

\* what its candle i is when the one before is p
OneSmoothed(p, d, i) ==
  IF i \in 2..(Len(d) - 1) /\ IsSpike(p.close, d[i].close, d[i + 1].close)
  THEN Smoothed(p, d[i], d[i + 1]) ELSE d[i]

\* Its recursion equation.
LEMMA SmoothToStep ==
  ASSUME NEW g, NEW d, NEW n, SmoothTo(g, d, n), NEW i \in 1..n
  PROVE  g[i] = OneSmoothed(g[i - 1], d, i)
  BY Zenon DEF SmoothTo, OneSmoothed

\* It exists.
LEMMA SmoothExists ==
  ASSUME NEW d
  PROVE  \A n \in Nat : \E g : SmoothTo(g, d, n)
<1> DEFINE Good == {n \in Nat : \E g : SmoothTo(g, d, n)}
<1>1. 0 \in Good
  <2> DEFINE g == [i \in 1..0 |-> <<>>]
  <2>1. SmoothTo(g, d, 0)
    BY DEF SmoothTo
  <2> QED
    BY <2>1
<1>2. ASSUME NEW n \in Nat, n \in Good PROVE n + 1 \in Good
  <2>1. PICK f : SmoothTo(f, d, n)
    BY <1>2
  <2> DEFINE g == [i \in 1..(n + 1) |-> IF i <= n THEN f[i] ELSE OneSmoothed(f[i - 1], d, i)]
  <2>2. ASSUME NEW i \in 1..(n + 1)
        PROVE  g[i] = OneSmoothed(g[i - 1], d, i)
    <3>1. i \in 1..n => f[i] = OneSmoothed(f[i - 1], d, i)
      BY <2>1, SmoothToStep
    <3>2. i # 1 => i - 1 \in 1..n /\ i - 1 \in 1..(n + 1) /\ g[i - 1] = f[i - 1]
      OBVIOUS
    <3>3. i <= n => i \in 1..n
      OBVIOUS
    <3>4. g[i] = IF i <= n THEN f[i] ELSE OneSmoothed(f[i - 1], d, i)
      OBVIOUS
    <3> HIDE DEF g
    <3>5. g[i] = OneSmoothed(f[i - 1], d, i)
      BY <3>1, <3>3, <3>4
    <3>6. CASE i # 1
      BY <3>2, <3>5, <3>6
    <3>7. CASE i = 1
      <4>1. i \notin 2..(Len(d) - 1)
        BY <3>7
      <4>2. OneSmoothed(f[i - 1], d, i) = d[i] /\ OneSmoothed(g[i - 1], d, i) = d[i]
        BY <4>1, Zenon DEF OneSmoothed
      <4> QED
        BY <3>5, <4>2
    <3> QED
      BY <3>6, <3>7
  <2>3. SmoothTo(g, d, n + 1)
    <3>1. g = [i \in 1..(n + 1) |-> g[i]]
      OBVIOUS
    <3> HIDE DEF g
    <3>2. g = [i \in 1..(n + 1) |-> OneSmoothed(g[i - 1], d, i)]
      BY <2>2, <3>1, Zenon
    <3> QED
      BY <3>2, Zenon DEF SmoothTo, OneSmoothed
  <2> QED
    BY <2>3
<1> HIDE DEF Good
<1>3. \A n \in Nat : n \in Good
  BY <1>1, <1>2, Induction
<1> QED
  BY <1>3 DEF Good

\* Candle by candle the series stays sound, however far the smoothing has come.
LEMMA SmoothType ==
  ASSUME data \in Seq(Bar), OnTime(data), Smooth
  PROVE  data' \in Seq(Bar) /\ OnTime(data') /\ Len(data') = Len(data)
<1> DEFINE n == Len(data)
           s == CHOOSE g : g = [i \in 1..n |->
                  IF i \in 2..(n - 1) /\ IsSpike(g[i - 1].close, data[i].close, data[i + 1].close)
                  THEN Smoothed(g[i - 1], data[i], data[i + 1]) ELSE data[i]]
<1>1. n \in Nat /\ \A i \in 1..n : data[i] \in Bar
  OBVIOUS
<1>2. data' = s
  BY Zenon DEF Smooth
<1>3. \E g : SmoothTo(g, data, n)
  BY <1>1, SmoothExists
<1>4. SmoothTo(s, data, n)
  BY <1>3, Zenon DEF SmoothTo
<1> HIDE DEF s
<1>5. DOMAIN s = 1..n /\ s = [i \in 1..n |-> s[i]]
  BY <1>4, Zenon DEF SmoothTo
<1> DEFINE Good == {k \in Nat : k \in 1..n => s[k] \in Bar}
<1>6. 0 \in Good
  OBVIOUS
<1>7. ASSUME NEW k \in Nat, k \in Good PROVE k + 1 \in Good
  <2> SUFFICES ASSUME k + 1 \in 1..n PROVE s[k + 1] \in Bar
    OBVIOUS
  <2>1. PICK j \in 1..n : j = k + 1
    OBVIOUS
  <2>2. s[j] = OneSmoothed(s[j - 1], data, j)
    BY <1>4, SmoothToStep
  <2>3. data[j] \in Bar /\ j - 1 = k /\ (j # 1 => k \in 1..n)
    BY <1>1, <2>1
  <2>4. CASE j \in 2..(n - 1)
    <3>1. s[j - 1] \in Bar /\ data[j + 1] \in Bar
      BY <1>1, <1>7, <2>3, <2>4
    <3>2. Smoothed(s[j - 1], data[j], data[j + 1]) \in Bar
      BY <2>3, <3>1, SmoothedIsSound
    <3> QED
      BY <2>1, <2>2, <2>3, <3>2 DEF OneSmoothed
  <2>5. CASE j \notin 2..(n - 1)
    BY <2>1, <2>2, <2>3, <2>5 DEF OneSmoothed
  <2> QED
    BY <2>4, <2>5
<1> HIDE DEF Good
<1>8. \A k \in Nat : k \in Good
  BY <1>6, <1>7, Induction
<1>9. \A i \in 1..n : s[i] \in Bar
  BY <1>1, <1>8 DEF Good
<1>10. s \in Seq(Bar)
  <2>1. [i \in 1..n |-> s[i]] \in Seq(Bar)
    BY <1>1, <1>9
  <2> QED
    BY <1>5, <2>1
<1>11. ASSUME NEW i \in 1..n PROVE s[i].t = data[i].t
  <2>1. s[i] = OneSmoothed(s[i - 1], data, i)
    BY <1>4, SmoothToStep
  <2>2. data[i] \in Bar
    BY <1>1
  <2>3. ASSUME NEW c \in Bar, NEW p, NEW m PROVE Smoothed(p, c, m).t = c.t
    BY DEF Smoothed, Bar
  <2>4. s[i] = data[i] \/ s[i] = Smoothed(s[i - 1], data[i], data[i + 1])
    BY <2>1, Zenon DEF OneSmoothed
  <2>5. Smoothed(s[i - 1], data[i], data[i + 1]).t = data[i].t
    BY <2>2, <2>3, Zenon
  <2> QED
    BY <2>4, <2>5, Zenon
<1>12. OnTime(s) /\ Len(s) = n
  BY <1>1, <1>5, <1>11 DEF OnTime
<1> QED
  BY <1>2, <1>10, <1>12

-----------------------------------------------------------------------------
(* The aggregates are sound.                                               *)

\* A candle of a higher timeframe is between its low and its high, as those it is made of are.
LEMMA GroupIsSound ==
  ASSUME NEW g \in Seq(Bar), Len(g) # 0, NEW m
  PROVE  Proper(Group(g, m))
<1> DEFINE n == Len(g)
           highs == [i \in 1..n |-> g[i].high]
           lows == [i \in 1..n |-> g[i].low]
<1>1. n \in Nat \ {0} /\ DOMAIN g = 1..n /\ \A i \in 1..n : g[i] \in Bar
  OBVIOUS
<1>2. \A c \in Bar : /\ c.open \in Nat /\ c.high \in Nat /\ c.low \in Nat /\ c.close \in Nat
                     /\ c.low <= c.open /\ c.open <= c.high /\ c.low <= c.close /\ c.close <= c.high
  BY DEF Bar, Proper
<1>3. \A i \in 1..n : highs[i] \in Nat /\ lows[i] \in Nat
  BY <1>1, <1>2
<1>4. {g[i].high : i \in DOMAIN g} = {highs[i] : i \in 1..n}
  BY <1>1
<1>5. {g[i].low : i \in DOMAIN g} = {lows[i] : i \in 1..n}
  BY <1>1
<1>6. PICK high, low : /\ high = Max({g[i].high : i \in DOMAIN g})
                       /\ low = Min({g[i].low : i \in DOMAIN g})
  OBVIOUS
<1> HIDE DEF n
<1>7. high \in Nat /\ \A i \in 1..n : highs[i] <= high
  <2> HIDE DEF highs
  <2>1. Max({highs[i] : i \in 1..n}) \in Nat /\ \A j \in 1..n : highs[j] <= Max({highs[i] : i \in 1..n})
    BY <1>1, <1>3, MaxOfSequence
  <2>2. high = Max({highs[i] : i \in 1..n})
    BY <1>4, <1>6, Zenon
  <2> QED
    BY <2>1, <2>2, Zenon
<1>8. low \in Nat /\ \A i \in 1..n : low <= lows[i]
  <2> HIDE DEF lows
  <2>1. Min({lows[i] : i \in 1..n}) \in Nat /\ \A j \in 1..n : Min({lows[i] : i \in 1..n}) <= lows[j]
    BY <1>1, <1>3, MaxOfSequence
  <2>2. low = Min({lows[i] : i \in 1..n})
    BY <1>5, <1>6, Zenon
  <2> QED
    BY <2>1, <2>2, Zenon
<1>9. \A i \in 1..n : g[i].high <= high /\ low <= g[i].low
  BY <1>7, <1>8
<1>10. 1 \in 1..n /\ n \in 1..n
  BY <1>1
<1>11. low <= g[1].open /\ g[1].open <= high
  BY <1>1, <1>2, <1>7, <1>8, <1>9, <1>10
<1>12. low <= g[n].close /\ g[n].close <= high
  BY <1>1, <1>2, <1>7, <1>8, <1>9, <1>10
<1>13. PICK a : a = Group(g, m)
  OBVIOUS
<1>14. a.open = g[1].open /\ a.close = g[n].close /\ a.high = high /\ a.low = low
  BY <1>6, <1>13 DEF Group, Last, n
<1> QED
  BY <1>11, <1>12, <1>13, <1>14 DEF Proper

\* No group is empty: the next one begins after it began.
LEMMA GroupsType ==
  ASSUME NEW s \in Seq(Bar), NEW m, NEW k \in DOMAIN Groups(s, m)
  PROVE  Groups(s, m)[k] \in Seq(Bar) /\ Len(Groups(s, m)[k]) # 0
<1> DEFINE B == {i \in DOMAIN s : i > 1 => Floor(s[i].t, m) # Floor(s[i - 1].t, m)}
           begin == Ascending(B)
           end == IF k < Len(begin) THEN begin[k + 1] - 1 ELSE Len(s)
<1>1. Len(s) \in Nat /\ DOMAIN s = 1..Len(s) /\ \A i \in 1..Len(s) : s[i] \in Bar
  OBVIOUS
<1>2. B \in SUBSET (1..Len(s)) /\ B \subseteq Nat
  BY <1>1
<1>3. IsFiniteSet(B)
  <2>1. IsFiniteSet(1..Len(s))
    BY <1>1, FS_Interval
  <2> QED
    BY <1>2, <2>1, FS_Subset, Zenon
<1>4. Groups(s, m) = [j \in DOMAIN begin |->
        SubSeq(s, begin[j], IF j < Len(begin) THEN begin[j + 1] - 1 ELSE Len(s))]
  BY Zenon DEF Groups
<1> HIDE DEF B
<1>5. begin \in Seq(B) /\ \A i, j \in DOMAIN begin : i < j => begin[i] < begin[j]
  BY <1>2, <1>3, AscendingIsSorted
<1> HIDE DEF begin
<1>6. Len(begin) \in Nat /\ DOMAIN begin = 1..Len(begin) /\ \A j \in 1..Len(begin) : begin[j] \in B
  BY <1>5
<1>7. k \in 1..Len(begin) /\ Groups(s, m)[k] = SubSeq(s, begin[k], end)
  BY <1>4, <1>6
<1>8. begin[k] \in 1..Len(s)
  BY <1>2, <1>6, <1>7
<1>9. end \in 1..Len(s) /\ begin[k] <= end
  <2>1. CASE k < Len(begin)
    <3>1. k + 1 \in 1..Len(begin) /\ k < k + 1
      BY <1>6, <1>7, <2>1
    <3>2. begin[k + 1] \in 1..Len(s)
      BY <1>2, <1>6, <3>1
    <3>3. begin[k] < begin[k + 1]
      BY <1>5, <1>6, <1>7, <3>1
    <3> QED
      BY <1>1, <1>8, <2>1, <3>2, <3>3
  <2>2. CASE ~(k < Len(begin))
    BY <1>1, <1>8, <2>2
  <2> QED
    BY <2>1, <2>2
<1>10. PICK lo, hi : lo = begin[k] /\ hi = end
  OBVIOUS
<1>11. /\ lo \in 1..Len(s) /\ hi \in 1..Len(s) /\ lo <= hi
       /\ Groups(s, m)[k] = SubSeq(s, lo, hi)
  BY <1>7, <1>8, <1>9, <1>10
<1>12. SubSeq(s, lo, hi) \in Seq(Bar) /\ Len(SubSeq(s, lo, hi)) = hi - lo + 1
  BY <1>1, <1>11
<1> QED
  BY <1>1, <1>11, <1>12

\* So every aggregate of a sound series is sound.
LEMMA AggregatesAreSound ==
  ASSUME NEW s \in Seq(Bar), NEW m, NEW i \in DOMAIN Aggregated(s, m)
  PROVE  Proper(Aggregated(s, m)[i])
<1>1. DOMAIN Aggregated(s, m) = DOMAIN Groups(s, m)
  BY Zenon DEF Aggregated
<1>2. i \in DOMAIN Groups(s, m) /\ Aggregated(s, m)[i] = Group(Groups(s, m)[i], m)
  BY <1>1, Zenon DEF Aggregated
<1> QED
  BY <1>2, GroupsType, GroupIsSound

-----------------------------------------------------------------------------
(* Sums over finite sets, in whatever order they are taken.                *)

\* ch chooses a member of every nonempty subset of S, and v gives every member a number.
Chooses(ch, S) == \A T \in SUBSET S : T # {} => ch[T] \in T
Valued(v, S) == \A x \in S : v[x] \in Nat

\* f adds up v over the subsets of S with at most n members, one chosen member at a time.
SubsetsUpTo(S, n) == {T \in SUBSET S : Cardinality(T) <= n}
PartSum(f, S, v, ch, n) ==
  f = [T \in SubsetsUpTo(S, n) |-> IF T = {} THEN 0 ELSE f[T \ {ch[T]}] + v[ch[T]]]

\* S can be added up; f adds it up, whichever operand is written first.
Summable(S, v, ch) == IsFiniteSet(S) /\ Valued(v, S) /\ Chooses(ch, S)

AddsUp(f, S, v, ch) ==
  /\ Summable(S, v, ch)
  /\ f[{}] = 0
  /\ \A T \in SUBSET S : T # {} => \/ f[T] = f[T \ {ch[T]}] + v[ch[T]]
                                   \/ f[T] = v[ch[T]] + f[T \ {ch[T]}]

\* the two ways in which the folds of the community modules write it
SumThenValue(f, S, v, ch) ==
  f = [T \in SUBSET S |-> IF T = {} THEN 0 ELSE f[T \ {ch[T]}] + v[ch[T]]]
ValueThenSum(f, S, v, ch) ==
  f = [T \in SUBSET S |-> IF T = {} THEN 0 ELSE v[ch[T]] + f[T \ {ch[T]}]]

\* One member less.
LEMMA SmallerSubset ==
  ASSUME NEW S, IsFiniteSet(S), NEW T \in SUBSET S, NEW x \in T
  PROVE  /\ T \ {x} \in SUBSET S /\ IsFiniteSet(T) /\ IsFiniteSet(T \ {x})
         /\ Cardinality(T) \in Nat \ {0} /\ Cardinality(T \ {x}) = Cardinality(T) - 1
<1>1. IsFiniteSet(T)
  BY FS_Subset
<1>2. IsFiniteSet(T \ {x}) /\ Cardinality(T \ {x}) = Cardinality(T) - 1
  BY <1>1, FS_RemoveElement
<1>3. Cardinality(T) \in Nat /\ Cardinality(T \ {x}) \in Nat
  BY <1>1, <1>2, FS_CardinalityType
<1> QED
  BY <1>1, <1>2, <1>3

LEMMA PartSumExists ==
  ASSUME NEW S, IsFiniteSet(S), NEW v, NEW ch, Chooses(ch, S)
  PROVE  \A n \in Nat : \E f : PartSum(f, S, v, ch, n)
<1> DEFINE Good == {n \in Nat : \E f : PartSum(f, S, v, ch, n)}
<1>1. \A T \in SUBSET S : Cardinality(T) \in Nat
  BY FS_Subset, FS_CardinalityType
<1>2. 0 \in Good
  <2> DEFINE f == [T \in SubsetsUpTo(S, 0) |-> 0]
  <2>1. \A T \in SubsetsUpTo(S, 0) : T = {}
    <3> TAKE T \in SubsetsUpTo(S, 0)
    <3>1. T \in SUBSET S /\ Cardinality(T) <= 0 /\ IsFiniteSet(T)
      BY FS_Subset DEF SubsetsUpTo
    <3>2. Cardinality(T) = 0
      BY <1>1, <3>1
    <3> QED
      BY <3>1, <3>2, FS_EmptySet
  <2>2. \A T \in SubsetsUpTo(S, 0) : f[T] = IF T = {} THEN 0 ELSE f[T \ {ch[T]}] + v[ch[T]]
    BY <2>1
  <2>3. f = [T \in SubsetsUpTo(S, 0) |-> f[T]]
    OBVIOUS
  <2> HIDE DEF f
  <2>4. PartSum(f, S, v, ch, 0)
    BY <2>2, <2>3, Zenon DEF PartSum
  <2> QED
    BY <2>4
<1>3. ASSUME NEW n \in Nat, n \in Good PROVE n + 1 \in Good
  <2>1. PICK f : PartSum(f, S, v, ch, n)
    BY <1>3
  <2> DEFINE g == [T \in SubsetsUpTo(S, n + 1) |->
                     IF T \in SubsetsUpTo(S, n) THEN f[T] ELSE f[T \ {ch[T]}] + v[ch[T]]]
  <2>2. ASSUME NEW T \in SubsetsUpTo(S, n + 1)
        PROVE  g[T] = IF T = {} THEN 0 ELSE g[T \ {ch[T]}] + v[ch[T]]
    <3>1. T \in SUBSET S /\ Cardinality(T) <= n + 1
      BY DEF SubsetsUpTo
    <3>2. g[T] = IF T \in SubsetsUpTo(S, n) THEN f[T] ELSE f[T \ {ch[T]}] + v[ch[T]]
      BY Zenon
    <3>3. T \in SubsetsUpTo(S, n) => f[T] = IF T = {} THEN 0 ELSE f[T \ {ch[T]}] + v[ch[T]]
      BY <2>1, Zenon DEF PartSum
    <3>4. CASE T = {}
      <4>1. Cardinality(T) = 0
        BY <3>4, FS_EmptySet
      <4>2. T \in SubsetsUpTo(S, n)
        BY <3>1, <4>1 DEF SubsetsUpTo
      <4> QED
        BY <3>2, <3>3, <3>4, <4>2, Zenon
    <3>5. CASE T # {}
      <4>1. ch[T] \in T
        BY <3>1, <3>5 DEF Chooses
      <4>0. PICK U : U = T \ {ch[T]}
        OBVIOUS
      <4>2. U \in SUBSET S /\ Cardinality(T) \in Nat /\ Cardinality(U) = Cardinality(T) - 1
        <5>1. PICK x \in T : x = ch[T]
          BY <4>1
        <5>2. T \ {x} \in SUBSET S /\ Cardinality(T) \in Nat /\ Cardinality(T \ {x}) = Cardinality(T) - 1
          BY <3>1, SmallerSubset
        <5> QED
          BY <4>0, <5>1, <5>2
      <4>3. Cardinality(U) <= n /\ Cardinality(U) <= n + 1
        BY <3>1, <4>2
      <4>4. U \in SubsetsUpTo(S, n) /\ U \in SubsetsUpTo(S, n + 1)
        BY <4>2, <4>3 DEF SubsetsUpTo
      <4>5. g[U] = f[U]
        BY <4>4
      <4> HIDE DEF g
      <4>6. g[T] = f[U] + v[ch[T]]
        BY <3>2, <3>3, <3>5, <4>0, Zenon
      <4> QED
        BY <3>5, <4>0, <4>5, <4>6, Zenon
    <3> QED
      BY <3>4, <3>5
  <2>3. g = [T \in SubsetsUpTo(S, n + 1) |-> g[T]]
    OBVIOUS
  <2> HIDE DEF g
  <2>4. PartSum(g, S, v, ch, n + 1)
    BY <2>2, <2>3, Zenon DEF PartSum
  <2> QED
    BY <2>4
<1> HIDE DEF Good
<1>4. \A n \in Nat : n \in Good
  BY <1>2, <1>3, Induction
<1> QED
  BY <1>4 DEF Good

\* the sum of a set is that of the rest and any one member
TakesAny(f, S, v) ==
  \A T \in SUBSET S : f[T] \in Nat /\ \A x \in T : f[T] = f[T \ {x}] + v[x]

\* The sum of a set does not depend on the choices: any member may be taken last.
LEMMA SumTakesAny ==
  ASSUME NEW S, NEW v, NEW ch, NEW f, AddsUp(f, S, v, ch)
  PROVE  TakesAny(f, S, v)
<1> DEFINE Good == {n \in Nat : \A T \in SUBSET S : Cardinality(T) <= n =>
                      f[T] \in Nat /\ \A x \in T : f[T] = f[T \ {x}] + v[x]}
<1>0. IsFiniteSet(S) /\ Valued(v, S) /\ Chooses(ch, S)
  BY DEF AddsUp, Summable
<1>1. \A T \in SUBSET S : IsFiniteSet(T) /\ Cardinality(T) \in Nat
  BY <1>0, FS_Subset, FS_CardinalityType
<1>2. 0 \in Good
  <2> SUFFICES ASSUME NEW T \in SUBSET S, Cardinality(T) <= 0
               PROVE  f[T] \in Nat /\ \A x \in T : f[T] = f[T \ {x}] + v[x]
    OBVIOUS
  <2>1. T = {}
    BY <1>1, FS_EmptySet
  <2> QED
    BY <2>1 DEF AddsUp
<1>3. ASSUME NEW n \in Nat, n \in Good PROVE n + 1 \in Good
  <2> SUFFICES ASSUME NEW T \in SUBSET S, Cardinality(T) = n + 1
               PROVE  f[T] \in Nat /\ \A x \in T : f[T] = f[T \ {x}] + v[x]
    <3>1. \A T \in SUBSET S : Cardinality(T) <= n + 1 => Cardinality(T) <= n \/ Cardinality(T) = n + 1
      BY <1>1
    <3> QED
      BY <1>3, <3>1
  <2>0. PICK c, U : c = ch[T] /\ U = T \ {c}
    OBVIOUS
  <2>1. T # {}
    BY FS_EmptySet
  <2>2. c \in T
    BY <1>0, <2>0, <2>1 DEF Chooses
  <2>3. U \in SUBSET S /\ Cardinality(U) = n
    <3>1. U \in SUBSET S /\ Cardinality(U) = Cardinality(T) - 1
      BY <2>0, <2>2, <1>0, SmallerSubset
    <3> QED
      BY <3>1
  <2>4. f[U] \in Nat /\ \A x \in U : f[U] = f[U \ {x}] + v[x]
    <3>1. Cardinality(U) <= n
      BY <2>3
    <3> QED
      BY <1>3, <2>3, <3>1
  <2>5. v[c] \in Nat
    BY <1>0, <2>2 DEF Valued
  <2>6. f[T] = f[U] + v[c] /\ f[T] \in Nat
    <3>1. f[T] = f[U] + v[c] \/ f[T] = v[c] + f[U]
      BY <2>0, <2>1, Zenon DEF AddsUp
    <3> QED
      BY <2>4, <2>5, <3>1
  <2>7. ASSUME NEW x \in T PROVE f[T] = f[T \ {x}] + v[x]
    <3>1. CASE x = c
      BY <2>0, <2>6, <3>1
    <3>2. CASE x # c
      <4>0. PICK W : W = T \ {x}
        OBVIOUS
      <4>1. x \in U /\ c \in W
        BY <2>0, <2>2, <3>2, <4>0
      <4>2. W \in SUBSET S /\ Cardinality(W) = n
        <5>1. W \in SUBSET S /\ Cardinality(W) = Cardinality(T) - 1
          BY <4>0, <1>0, SmallerSubset
        <5> QED
          BY <5>1
      <4>3. f[W] \in Nat /\ f[W] = f[W \ {c}] + v[c]
        <5>1. Cardinality(W) <= n
          BY <4>2
        <5> QED
          BY <1>3, <4>1, <4>2, <5>1
      <4>4. f[U] = f[U \ {x}] + v[x]
        BY <2>4, <4>1
      <4>5. W \ {c} = U \ {x}
        BY <2>0, <4>0
      <4>6. f[U \ {x}] \in Nat
        <5>1. U \ {x} \in SUBSET S /\ Cardinality(U \ {x}) = Cardinality(U) - 1
          BY <2>3, <4>1, <1>0, SmallerSubset
        <5>2. Cardinality(U \ {x}) <= n
          BY <2>3, <5>1
        <5> QED
          BY <1>3, <5>1, <5>2
      <4>7. v[x] \in Nat
        BY <1>0 DEF Valued
      <4>8. f[T] = f[W] + v[x]
        <5>1. PICK a, b, d, e : a = f[U \ {x}] /\ b = v[x] /\ d = v[c] /\ e = f[W \ {c}]
          OBVIOUS
        <5>2. a \in Nat /\ b \in Nat /\ d \in Nat /\ e = a
          BY <2>5, <4>5, <4>6, <4>7, <5>1
        <5>3. f[T] = (a + b) + d /\ f[W] = a + d
          BY <2>6, <4>3, <4>4, <5>1, <5>2
        <5> QED
          BY <5>1, <5>2, <5>3
      <4> QED
        BY <4>0, <4>8, Zenon
    <3> QED
      BY <3>1, <3>2
  <2> QED
    BY <2>6, <2>7
<1> HIDE DEF Good
<1>4. \A n \in Nat : n \in Good
  BY <1>2, <1>3, Induction
<1>5. ASSUME NEW T \in SUBSET S PROVE f[T] \in Nat /\ \A x \in T : f[T] = f[T \ {x}] + v[x]
  <2>1. PICK n \in Nat : n = Cardinality(T)
    BY <1>1
  <2>2. n \in Good /\ Cardinality(T) <= n
    BY <1>4, <2>1
  <2> QED
    BY <2>2, Zenon DEF Good
<1> QED
  BY <1>5, Zenon DEF TakesAny

\* Both are sums.
LEMMA SumAddsUp ==
  ASSUME NEW S, NEW v, NEW ch, Summable(S, v, ch), NEW f,
         SumThenValue(f, S, v, ch) \/ ValueThenSum(f, S, v, ch)
  PROVE  AddsUp(f, S, v, ch)
<1>1. {} \in SUBSET S
  OBVIOUS
<1>2. CASE SumThenValue(f, S, v, ch)
  BY <1>1, <1>2, Zenon DEF AddsUp, SumThenValue
<1>3. CASE ValueThenSum(f, S, v, ch)
  BY <1>1, <1>3, Zenon DEF AddsUp, ValueThenSum
<1> QED
  BY <1>2, <1>3

\* It is found for every finite set, with the operands in either order.
LEMMA AddsUpExists ==
  ASSUME NEW S, NEW v, NEW ch, Summable(S, v, ch)
  PROVE  \E f : SumThenValue(f, S, v, ch) /\ ValueThenSum(f, S, v, ch)
<1>0. IsFiniteSet(S) /\ Valued(v, S) /\ Chooses(ch, S)
  BY DEF Summable
<1>1. PICK n \in Nat : n = Cardinality(S)
  BY <1>0, FS_CardinalityType
<1>2. PICK f : PartSum(f, S, v, ch, n)
  BY <1>0, <1>1, PartSumExists
<1>3. SubsetsUpTo(S, n) = SUBSET S
  BY <1>0, <1>1, FS_Subset DEF SubsetsUpTo
<1>4. f = [T \in SUBSET S |-> IF T = {} THEN 0 ELSE f[T \ {ch[T]}] + v[ch[T]]]
  BY <1>2, <1>3, Zenon DEF PartSum
<1>5. AddsUp(f, S, v, ch)
  BY <1>4, SumAddsUp DEF SumThenValue
<1>6. \A T \in SUBSET S : f[T] = IF T = {} THEN 0 ELSE f[T \ {ch[T]}] + v[ch[T]]
  BY <1>4, Zenon
<1>7. ASSUME NEW T \in SUBSET S
      PROVE  f[T] = IF T = {} THEN 0 ELSE v[ch[T]] + f[T \ {ch[T]}]
  <2>1. CASE T = {}
    BY <1>6, <2>1
  <2>2. CASE T # {}
    <3>1. PICK x \in T : x = ch[T]
      BY <1>0, <2>2 DEF Chooses
    <3>2. T \ {x} \in SUBSET S
      OBVIOUS
    <3>3. f[T \ {x}] \in Nat
      BY <1>5, <3>2, SumTakesAny DEF TakesAny
    <3>4. v[x] \in Nat
      BY <1>0 DEF Valued
    <3>5. f[T] = f[T \ {x}] + v[x]
      BY <1>6, <2>2, <3>1
    <3>6. f[T] = v[x] + f[T \ {x}]
      BY <3>3, <3>4, <3>5
    <3> QED
      BY <2>2, <3>1, <3>6
  <2> QED
    BY <2>1, <2>2
<1>8. f = [T \in SUBSET S |-> f[T]]
  BY <1>4, Zenon
<1>9. f = [T \in SUBSET S |-> IF T = {} THEN 0 ELSE v[ch[T]] + f[T \ {ch[T]}]]
  BY <1>7, <1>8, Zenon
<1> QED
  BY <1>4, <1>9 DEF SumThenValue, ValueThenSum

\* the values v of 1..k are the values w from lo on
Shifted(v, w, lo, k) == \A i \in 1..k : v[i] = w[lo + i - 1]

\* Then their sums are the same.
LEMMA SameSum ==
  ASSUME NEW lo \in Nat, NEW k \in Nat, NEW v, NEW w, Shifted(v, w, lo, k),
         NEW c, NEW f, AddsUp(f, 1..k, v, c),
         NEW d, NEW g, AddsUp(g, lo..(lo + k - 1), w, d)
  PROVE  f[1..k] = g[lo..(lo + k - 1)]
<1> DEFINE S == 1..k
           T == lo..(lo + k - 1)
<1>1. \A A \in SUBSET S : f[A] \in Nat /\ \A x \in A : f[A] = f[A \ {x}] + v[x]
  <2>1. AddsUp(f, S, v, c)
    OBVIOUS
  <2> HIDE DEF S
  <2>2. TakesAny(f, S, v)
    BY <2>1, SumTakesAny, Zenon
  <2> QED
    BY <2>2, Zenon DEF TakesAny
<1>2. \A A \in SUBSET T : g[A] \in Nat /\ \A x \in A : g[A] = g[A \ {x}] + w[x]
  <2>1. AddsUp(g, T, w, d)
    OBVIOUS
  <2> HIDE DEF T
  <2>2. TakesAny(g, T, w)
    BY <2>1, SumTakesAny, Zenon
  <2> QED
    BY <2>2, Zenon DEF TakesAny
<1> DEFINE Same == {j \in Nat : j <= k => f[1..j] = g[lo..(lo + j - 1)]}
<1>3. 0 \in Same
  <2>1. 1..0 = {} /\ lo..(lo + 0 - 1) = {}
    OBVIOUS
  <2> QED
    BY <2>1 DEF AddsUp
<1>4. ASSUME NEW j \in Nat, j \in Same PROVE j + 1 \in Same
  <2> SUFFICES ASSUME j + 1 <= k PROVE f[1..(j + 1)] = g[lo..(lo + (j + 1) - 1)]
    OBVIOUS
  <2>1. PICK A, B : A = 1..(j + 1) /\ B = lo..(lo + j)
    OBVIOUS
  <2>2. A \in SUBSET S /\ j + 1 \in A /\ A \ {j + 1} = 1..j
    BY <2>1
  <2>3. B \in SUBSET T /\ lo + j \in B /\ B \ {lo + j} = lo..(lo + j - 1)
    BY <2>1
  <2>4. f[A] = f[1..j] + v[j + 1]
    <3>1. f[A] = f[A \ {j + 1}] + v[j + 1]
      BY <1>1, <2>2, Zenon
    <3> QED
      BY <2>2, <3>1, Zenon
  <2>5. g[B] = g[lo..(lo + j - 1)] + w[lo + j]
    <3>1. g[B] = g[B \ {lo + j}] + w[lo + j]
      BY <1>2, <2>3, Zenon
    <3> QED
      BY <2>3, <3>1, Zenon
  <2>6. j + 1 \in S /\ lo + (j + 1) - 1 = lo + j
    OBVIOUS
  <2>7. v[j + 1] = w[lo + j]
    BY <2>6 DEF Shifted
  <2>8. f[1..j] = g[lo..(lo + j - 1)]
    BY <1>4
  <2>9. f[A] = g[B]
    BY <2>4, <2>5, <2>7, <2>8
  <2> QED
    BY <2>1, <2>6, <2>9
<1> HIDE DEF Same
<1>5. \A j \in Nat : j \in Same
  BY <1>3, <1>4, Induction
<1> QED
  BY <1>5 DEF Same

\* Every nonempty set of numbers up to n has a greatest.
LEMMA GreatestOfSet ==
  ASSUME NEW n \in Nat, NEW T \in SUBSET (1..n), T # {}
  PROVE  Max(T) \in T /\ \A y \in T : Max(T) >= y
<1> DEFINE D == {n - x : x \in T}
<1>1. D \subseteq Nat /\ D # {}
  <2>1. \A x \in T : x \in 1..n
    OBVIOUS
  <2>2. \A x \in T : n - x \in Nat
    BY <2>1
  <2> QED
    BY <2>2
<1>2. PICK y \in D : \A z \in D : y <= z
  BY <1>1, LeastNatural
<1>3. PICK x \in T : y = n - x
  OBVIOUS
<1>4. \A z \in T : n - x <= n - z
  BY <1>2, <1>3
<1>5. \A z \in T : x >= z
  <2> TAKE z \in T
  <2>1. z \in 1..n /\ x \in 1..n
    OBVIOUS
  <2> QED
    BY <1>4, <2>1
<1> QED
  BY <1>5, Zenon DEF Max

\* The volume of an aggregate is the sum that MapThenSumSet takes over the same candles.
LEMMA SameVolume ==
  ASSUME NEW s \in Seq(Bar), NEW lo \in 1..Len(s), NEW hi \in 1..Len(s), lo <= hi,
         NEW g, g = SubSeq(s, lo, hi)
  PROVE  FoldLeft(LAMBDA sum, c : sum + c.volume, 0, g) = MapThenSumSet(LAMBDA i : s[i].volume, lo..hi)
<1> DEFINE k == hi - lo + 1
           S == 1..k
           T == lo..hi
           v == [i \in S |-> g[i].volume]
           w == [i \in T |-> s[i].volume]
           c == [A \in SUBSET S |-> Max(A)]
           d == [A \in SUBSET T |-> CHOOSE x \in A : TRUE]
<1>1. k \in Nat /\ T = lo..(lo + k - 1) /\ IsFiniteSet(S) /\ IsFiniteSet(T)
  BY FS_Interval
<1>2. DOMAIN g = S /\ \A i \in S : g[i] = s[lo + i - 1] /\ lo + i - 1 \in T /\ lo + i - 1 \in 1..Len(s)
  OBVIOUS
<1>3. \A b \in Bar : b.volume \in Nat
  BY DEF Bar
<1>4. \A i \in 1..Len(s) : s[i] \in Bar
  OBVIOUS
<1>5. \A i \in T : i \in 1..Len(s)
  OBVIOUS
<1>6. Valued(v, S) /\ Valued(w, T) /\ \A i \in S : v[i] = w[lo + i - 1]
  BY <1>2, <1>3, <1>4, <1>5 DEF Valued
<1>7. Chooses(c, S)
  BY <1>1, GreatestOfSet DEF Chooses
<1>8. Chooses(d, T)
  BY DEF Chooses
<1>0. Summable(S, v, c) /\ Summable(T, w, d)
  BY <1>1, <1>6, <1>7, <1>8 DEF Summable
<1> DEFINE f == CHOOSE f : f = [A \in SUBSET DOMAIN g |->
                  IF A = {} THEN 0 ELSE f[A \ {Max(A)}] + g[Max(A)].volume]
           h == CHOOSE h : h = [A \in SUBSET (lo..hi) |->
                  IF A = {} THEN 0
                  ELSE s[CHOOSE x \in A : TRUE].volume + h[A \ {CHOOSE x \in A : TRUE}]]
<1>9. FoldLeft(LAMBDA sum, b : sum + b.volume, 0, g) = f[DOMAIN g]
  BY Zenon DEF FoldLeft, MapThenFoldSet
<1>10. MapThenSumSet(LAMBDA i : s[i].volume, lo..hi) = h[lo..hi]
  BY Zenon DEF MapThenSumSet, MapThenFoldSet
<1>11. AddsUp(f, S, v, c)
  <2>1. PICK e : e = [A \in SUBSET S |-> IF A = {} THEN 0 ELSE e[A \ {c[A]}] + v[c[A]]]
    <3> HIDE DEF S, v, c
    <3>1. PICK e : SumThenValue(e, S, v, c)
      BY <1>0, AddsUpExists, Zenon
    <3> QED
      BY <3>1, Zenon DEF SumThenValue
  <2>2. ASSUME NEW A \in SUBSET S
        PROVE  e[A] = IF A = {} THEN 0 ELSE e[A \ {Max(A)}] + g[Max(A)].volume
    <3>1. e[A] = IF A = {} THEN 0 ELSE e[A \ {c[A]}] + v[c[A]]
      BY <2>1, Zenon
    <3>2. A # {} => c[A] \in S
      BY <1>7 DEF Chooses
    <3>3. c[A] = Max(A)
      BY Zenon
    <3>4. A # {} => v[c[A]] = g[Max(A)].volume
      BY <3>2, <3>3, Zenon
    <3> QED
      BY <3>1, <3>3, <3>4, Zenon
  <2>3. e = [A \in SUBSET DOMAIN g |-> e[A]]
    BY <1>2, <2>1, Zenon
  <2>4. e = [A \in SUBSET DOMAIN g |-> IF A = {} THEN 0 ELSE e[A \ {Max(A)}] + g[Max(A)].volume]
    BY <1>2, <2>2, <2>3, Zenon
  <2>5. f = [A \in SUBSET DOMAIN g |-> IF A = {} THEN 0 ELSE f[A \ {Max(A)}] + g[Max(A)].volume]
    BY <2>4, Zenon
  <2> HIDE DEF f
  <2>6. \A A \in SUBSET S : f[A] = IF A = {} THEN 0 ELSE f[A \ {Max(A)}] + g[Max(A)].volume
    BY <1>2, <2>5, Zenon
  <2>7. ASSUME NEW A \in SUBSET S, A # {} PROVE f[A] = f[A \ {c[A]}] + v[c[A]]
    <3>1. f[A] = f[A \ {Max(A)}] + g[Max(A)].volume
      BY <2>6, <2>7
    <3>2. c[A] = Max(A)
      BY Zenon
    <3>3. c[A] \in S
      BY <1>7, <2>7 DEF Chooses
    <3> QED
      BY <3>1, <3>2, <3>3, Zenon
  <2>8. f[{}] = 0
    <3>1. {} \in SUBSET S
      OBVIOUS
    <3> QED
      BY <2>6, <3>1, Zenon
  <2> QED
    BY <1>0, <2>7, <2>8, Zenon DEF AddsUp
<1>12. AddsUp(h, T, w, d)
  <2>1. PICK e : e = [A \in SUBSET T |-> IF A = {} THEN 0 ELSE w[d[A]] + e[A \ {d[A]}]]
    <3> HIDE DEF T, w, d
    <3>1. PICK e : ValueThenSum(e, T, w, d)
      BY <1>0, AddsUpExists, Zenon
    <3> QED
      BY <3>1, Zenon DEF ValueThenSum
  <2>2. ASSUME NEW A \in SUBSET T
        PROVE  e[A] = IF A = {} THEN 0
                      ELSE s[CHOOSE x \in A : TRUE].volume + e[A \ {CHOOSE x \in A : TRUE}]
    <3>1. e[A] = IF A = {} THEN 0 ELSE w[d[A]] + e[A \ {d[A]}]
      BY <2>1, Zenon
    <3>2. A # {} => d[A] \in T
      BY <1>8 DEF Chooses
    <3>3. d[A] = CHOOSE x \in A : TRUE
      BY Zenon
    <3>4. A # {} => w[d[A]] = s[CHOOSE x \in A : TRUE].volume
      BY <3>2, <3>3, Zenon
    <3> QED
      BY <3>1, <3>3, <3>4, Zenon
  <2>3. e = [A \in SUBSET T |-> e[A]]
    BY <2>1, Zenon
  <2>4. e = [A \in SUBSET (lo..hi) |->
               IF A = {} THEN 0
               ELSE s[CHOOSE x \in A : TRUE].volume + e[A \ {CHOOSE x \in A : TRUE}]]
    BY <2>2, <2>3, Zenon
  <2>5. h = [A \in SUBSET (lo..hi) |->
               IF A = {} THEN 0
               ELSE s[CHOOSE x \in A : TRUE].volume + h[A \ {CHOOSE x \in A : TRUE}]]
    BY <2>4, Zenon
  <2> HIDE DEF h
  <2>6. \A A \in SUBSET T : h[A] = IF A = {} THEN 0
          ELSE s[CHOOSE x \in A : TRUE].volume + h[A \ {CHOOSE x \in A : TRUE}]
    BY <2>5, Zenon
  <2>7. ASSUME NEW A \in SUBSET T, A # {} PROVE h[A] = w[d[A]] + h[A \ {d[A]}]
    <3>1. h[A] = s[CHOOSE x \in A : TRUE].volume + h[A \ {CHOOSE x \in A : TRUE}]
      BY <2>6, <2>7, Zenon
    <3>2. d[A] = CHOOSE x \in A : TRUE
      BY Zenon
    <3>3. d[A] \in T
      BY <1>8, <2>7 DEF Chooses
    <3> QED
      BY <3>1, <3>2, <3>3, Zenon
  <2>8. h[{}] = 0
    <3>1. {} \in SUBSET T
      OBVIOUS
    <3> QED
      BY <2>6, <3>1, Zenon
  <2> QED
    BY <1>0, <2>7, <2>8, Zenon DEF AddsUp
<1> HIDE DEF f, h, v, w, c, d
<1>13. f[S] = h[T]
  <2>1. lo \in Nat
    OBVIOUS
  <2>2. PICK n \in Nat : n = k
    BY <1>1
  <2>3. S = 1..n /\ T = lo..(lo + n - 1)
    BY <1>1, <2>2
  <2>4. AddsUp(f, 1..n, v, c) /\ AddsUp(h, lo..(lo + n - 1), w, d) /\ Shifted(v, w, lo, n)
    BY <1>6, <1>11, <1>12, <2>3, Zenon DEF Shifted
  <2> HIDE DEF S, T, k
  <2>5. f[1..n] = h[lo..(lo + n - 1)]
    BY <2>1, <2>2, <2>4, SameSum
  <2> QED
    BY <2>3, <2>5, Zenon
<1> QED
  BY <1>2, <1>9, <1>10, <1>13, Zenon

-----------------------------------------------------------------------------
(* The periods of a series in order.                                       *)

\* The periods of aggregate_to_higher_timeframe that begin at Floor.
Coarse == {60, 240, 1440}

\* _floor_timestamp gives the beginning of the period, so that two times have one floor
\* exactly when they lie in one period, and later times lie in later periods.
LEMMA FloorIsPeriod ==
  ASSUME NEW m \in Coarse, NEW t \in Nat
  PROVE  /\ Floor(t, m) = m * (t \div m) /\ Floor(t, m) % m = 0
         /\ Floor(t, m) \div m = t \div m /\ t \div m \in Nat
<1>1. CASE m = 60
  <2>1. Floor(t, 60) = t - (t % 60)
    BY DEF Floor
  <2>2. /\ t - (t % 60) = 60 * (t \div 60) /\ (t - (t % 60)) % 60 = 0
        /\ (t - (t % 60)) \div 60 = t \div 60 /\ t \div 60 \in Nat
    OBVIOUS
  <2> QED
    BY <1>1, <2>1, <2>2
<1>2. CASE m = 240
  <2>1. Floor(t, 240) = (t - (t % 1440)) + ((((t % 1440) \div 60) \div 4) * 4) * 60
    BY DEF Floor
  <2>2. @ = 240 * (t \div 240)
    OBVIOUS
  <2>3. t \div 240 \in Nat /\ (240 * (t \div 240)) % 240 = 0 /\ (240 * (t \div 240)) \div 240 = t \div 240
    OBVIOUS
  <2> QED
    BY <1>2, <2>1, <2>2, <2>3
<1>3. CASE m = 1440
  <2>1. Floor(t, 1440) = t - (t % 1440)
    BY DEF Floor
  <2>2. /\ t - (t % 1440) = 1440 * (t \div 1440) /\ (t - (t % 1440)) % 1440 = 0
        /\ (t - (t % 1440)) \div 1440 = t \div 1440 /\ t \div 1440 \in Nat
    OBVIOUS
  <2> QED
    BY <1>3, <2>1, <2>2
<1> QED
  BY <1>1, <1>2, <1>3 DEF Coarse

\* Later times are not in earlier periods.
LEMMA PeriodsAscend ==
  ASSUME NEW m \in Coarse, NEW t \in Nat, NEW u \in Nat, t <= u
  PROVE  t \div m <= u \div m
<1>1. CASE m = 60
  BY <1>1
<1>2. CASE m = 240
  BY <1>2
<1>3. CASE m = 1440
  BY <1>3
<1> QED
  BY <1>1, <1>2, <1>3 DEF Coarse

\* The places of a sequence of periods at which a new one begins.
Begins(p, n) == {i \in 1..n : i > 1 => p[i] # p[i - 1]}

Rising(p, n) == /\ \A i \in 1..n : p[i] \in Nat
                /\ \A i, j \in 1..n : i <= j => p[i] <= p[j]

\* From one beginning to before the next, and only there, lies one period.
LEMMA RunIsPeriod ==
  ASSUME NEW n \in Nat, NEW p, Rising(p, n),
         NEW lo \in Begins(p, n), NEW hi \in 1..n, lo <= hi,
         \A i \in (lo + 1)..hi : i \notin Begins(p, n), hi = n \/ hi + 1 \in Begins(p, n)
  PROVE  {i \in 1..n : p[i] = p[lo]} = lo..hi
<1>1. lo \in 1..n /\ (lo > 1 => p[lo] # p[lo - 1])
  BY DEF Begins
<1> DEFINE Same == {d \in Nat : lo + d <= hi => p[lo + d] = p[lo]}
<1>2. 0 \in Same
  BY <1>1
<1>3. ASSUME NEW d \in Nat, d \in Same PROVE d + 1 \in Same
  <2> SUFFICES ASSUME lo + (d + 1) <= hi PROVE p[lo + (d + 1)] = p[lo]
    OBVIOUS
  <2>1. p[lo + d] = p[lo]
    BY <1>1, <1>3
  <2>2. PICK i \in (lo + 1)..hi : i = lo + (d + 1) /\ i - 1 = lo + d
    BY <1>1
  <2>3. i \in 1..n /\ i > 1
    BY <1>1
  <2>4. p[i] = p[i - 1]
    BY <2>3, Zenon DEF Begins
  <2> QED
    BY <2>1, <2>2, <2>4
<1> HIDE DEF Same
<1>4. \A d \in Nat : d \in Same
  BY <1>2, <1>3, Induction
<1>5. ASSUME NEW i \in lo..hi PROVE p[i] = p[lo]
  <2>1. i - lo \in Nat /\ lo + (i - lo) = i
    BY <1>1
  <2>2. i - lo \in Same
    BY <1>4, <2>1
  <2> QED
    BY <2>1, <2>2 DEF Same
<1>6. ASSUME NEW i \in 1..n, i < lo PROVE p[i] # p[lo]
  <2>1. lo - 1 \in 1..n /\ i <= lo - 1 /\ lo - 1 <= lo /\ lo > 1
    BY <1>1, <1>6
  <2>2. p[i] <= p[lo - 1] /\ p[lo - 1] <= p[lo]
    BY <1>1, <2>1 DEF Rising
  <2>3. p[i] \in Nat /\ p[lo - 1] \in Nat /\ p[lo] \in Nat
    BY <1>1, <2>1 DEF Rising
  <2> QED
    BY <1>1, <2>1, <2>2, <2>3
<1>7. ASSUME NEW i \in 1..n, i > hi PROVE p[i] # p[lo]
  <2>1. hi + 1 \in 1..n /\ hi + 1 <= i /\ hi <= hi + 1 /\ (hi + 1) - 1 = hi /\ hi + 1 > 1
    BY <1>7
  <2>2. hi + 1 \in Begins(p, n)
    BY <1>7
  <2>3. p[hi + 1] # p[hi]
    BY <2>1, <2>2 DEF Begins
  <2>4. p[hi] <= p[hi + 1] /\ p[hi + 1] <= p[i]
    BY <2>1 DEF Rising
  <2>5. p[hi] = p[lo]
    BY <1>1, <1>5
  <2>6. p[i] \in Nat /\ p[hi] \in Nat /\ p[hi + 1] \in Nat
    BY <2>1 DEF Rising
  <2> QED
    BY <2>3, <2>4, <2>5, <2>6
<1>8. \A i \in 1..n : p[i] = p[lo] <=> i \in lo..hi
  <2> TAKE i \in 1..n
  <2>1. i < lo \/ i \in lo..hi \/ i > hi
    BY <1>1
  <2>2. i \in lo..hi => ~(i < lo) /\ ~(i > hi)
    BY <1>1
  <2> QED
    BY <1>5, <1>6, <1>7, <2>1, <2>2
<1>9. \A i \in lo..hi : i \in 1..n
  BY <1>1
<1> QED
  BY <1>8, <1>9

\* What Ascending makes of the beginnings: the group number k reaches from the beginning
\* number k to before the next, and there are as many groups as periods.
LEMMA BeginsInOrder ==
  ASSUME NEW n \in Nat, NEW p, Rising(p, n),
         NEW b, b = Ascending(Begins(p, n))
  PROVE  /\ Len(b) \in Nat /\ DOMAIN b = 1..Len(b)
         /\ \A k \in 1..Len(b) : b[k] \in Begins(p, n) /\ b[k] \in 1..n
         /\ \A j, k \in 1..Len(b) : j < k => b[j] < b[k]
         /\ \A i \in Begins(p, n) : \E k \in 1..Len(b) : b[k] = i
<1>1. Begins(p, n) \in SUBSET (1..n) /\ Begins(p, n) \subseteq Nat
  BY DEF Begins
<1>2. IsFiniteSet(Begins(p, n))
  <2>1. IsFiniteSet(1..n)
    BY FS_Interval
  <2> QED
    BY <1>1, <2>1, FS_Subset, Zenon
<1>3. /\ b \in Seq(Begins(p, n))
      /\ \A i, j \in DOMAIN b : i < j => b[i] < b[j]
      /\ \A t \in Begins(p, n) : \E i \in DOMAIN b : b[i] = t
  BY <1>1, <1>2, AscendingIsSorted
<1>4. Len(b) \in Nat /\ DOMAIN b = 1..Len(b) /\ \A k \in 1..Len(b) : b[k] \in Begins(p, n)
  BY <1>3
<1> QED
  BY <1>1, <1>3, <1>4

LEMMA GroupIsRun ==
  ASSUME NEW n \in Nat, NEW p, Rising(p, n),
         NEW b, b = Ascending(Begins(p, n)), NEW k \in 1..Len(b),
         NEW hi, hi = IF k < Len(b) THEN b[k + 1] - 1 ELSE n
  PROVE  /\ b[k] \in 1..n /\ hi \in 1..n /\ b[k] <= hi
         /\ {i \in 1..n : p[i] = p[b[k]]} = b[k]..hi
<1>1. /\ Len(b) \in Nat
      /\ \A j \in 1..Len(b) : b[j] \in Begins(p, n) /\ b[j] \in 1..n
      /\ \A i, j \in 1..Len(b) : i < j => b[i] < b[j]
      /\ \A i \in Begins(p, n) : \E j \in 1..Len(b) : b[j] = i
  <2>1. \A i \in Begins(p, n) : i \in 1..n
    BY DEF Begins
  <2> QED
    BY <2>1, BeginsInOrder
<1>2. b[k] \in 1..n /\ b[k] \in Begins(p, n)
  BY <1>1
<1>3. CASE k < Len(b)
  <2>1. k + 1 \in 1..Len(b) /\ k < k + 1
    BY <1>1, <1>3
  <2>2. b[k + 1] \in 1..n /\ b[k] < b[k + 1] /\ b[k + 1] \in Begins(p, n)
    BY <1>1, <2>1
  <2>3. hi = b[k + 1] - 1
    BY <1>3
  <2>4. hi \in 1..n /\ b[k] <= hi /\ hi + 1 = b[k + 1]
    BY <1>2, <2>2, <2>3
  <2>5. ASSUME NEW i \in (b[k] + 1)..hi, i \in Begins(p, n) PROVE FALSE
    <3>1. PICK j \in 1..Len(b) : b[j] = i
      BY <1>1, <2>5
    <3>2. b[k] < b[j] /\ b[j] < b[k + 1] /\ b[j] \in Nat
      BY <1>2, <2>2, <2>4, <3>1
    <3>3. CASE j < k
      <4>1. b[j] < b[k]
        BY <1>1, <3>3
      <4> QED
        BY <1>2, <3>2, <4>1
    <3>4. CASE j > k + 1
      <4>1. b[k + 1] < b[j]
        BY <1>1, <2>1, <3>4
      <4> QED
        BY <2>2, <3>2, <4>1
    <3>5. CASE j = k \/ j = k + 1
      BY <1>2, <2>2, <3>2, <3>5
    <3>6. j \in Nat /\ k \in Nat
      OBVIOUS
    <3> QED
      BY <3>3, <3>4, <3>5, <3>6
  <2>6. {i \in 1..n : p[i] = p[b[k]]} = b[k]..hi
    <3>1. PICK lo : lo = b[k]
      OBVIOUS
    <3>2. /\ lo \in Begins(p, n) /\ lo <= hi /\ hi + 1 \in Begins(p, n)
          /\ \A i \in (lo + 1)..hi : i \notin Begins(p, n)
      BY <1>2, <2>2, <2>4, <2>5, <3>1
    <3>3. {i \in 1..n : p[i] = p[lo]} = lo..hi
      BY <2>4, <3>2, RunIsPeriod
    <3> QED
      BY <3>1, <3>3
  <2> QED
    BY <1>2, <2>4, <2>6
<1>4. CASE ~(k < Len(b))
  <2>1. k = Len(b) /\ hi = n
    BY <1>1, <1>4
  <2>2. hi \in 1..n /\ b[k] <= hi
    BY <1>2, <2>1
  <2>3. ASSUME NEW i \in (b[k] + 1)..hi, i \in Begins(p, n) PROVE FALSE
    <3>1. PICK j \in 1..Len(b) : b[j] = i
      BY <1>1, <2>3
    <3>2. b[k] < b[j] /\ b[j] \in Nat
      BY <1>2, <3>1
    <3>3. j < k \/ j = k
      BY <1>1, <2>1
    <3>4. j < k => b[j] < b[k]
      BY <1>1
    <3> QED
      BY <1>2, <3>2, <3>3, <3>4
  <2>4. {i \in 1..n : p[i] = p[b[k]]} = b[k]..hi
    <3>1. PICK lo : lo = b[k]
      OBVIOUS
    <3>2. /\ lo \in Begins(p, n) /\ lo <= hi /\ hi = n
          /\ \A i \in (lo + 1)..hi : i \notin Begins(p, n)
      BY <1>2, <2>1, <2>2, <2>3, <3>1
    <3>3. {i \in 1..n : p[i] = p[lo]} = lo..hi
      BY <2>2, <3>2, RunIsPeriod
    <3> QED
      BY <3>1, <3>3
  <2> QED
    BY <1>2, <2>2, <2>4
<1> QED
  BY <1>3, <1>4

\* There are as many beginnings as periods.
LEMMA OneBeginPerPeriod ==
  ASSUME NEW n \in Nat, NEW p, Rising(p, n), NEW b, b = Ascending(Begins(p, n))
  PROVE  Len(b) = Cardinality({p[i] : i \in 1..n})
<1> DEFINE P == {p[i] : i \in 1..n}
           f == [k \in 1..Len(b) |-> p[b[k]]]
<1>1. /\ Len(b) \in Nat
      /\ \A j \in 1..Len(b) : b[j] \in Begins(p, n) /\ b[j] \in 1..n
      /\ \A i, j \in 1..Len(b) : i < j => b[i] < b[j]
      /\ \A i \in Begins(p, n) : \E j \in 1..Len(b) : b[j] = i
  BY BeginsInOrder
<1>2. ASSUME NEW j \in 1..Len(b), NEW k \in 1..Len(b), j < k PROVE p[b[j]] # p[b[k]]
  <2>1. PICK lo, hi : lo = b[j] /\ hi = b[k]
    OBVIOUS
  <2>2. /\ lo \in 1..n /\ hi \in 1..n /\ lo < hi /\ hi \in Begins(p, n)
    BY <1>1, <1>2, <2>1
  <2>3. hi > 1 /\ hi - 1 \in 1..n /\ lo <= hi - 1 /\ hi - 1 <= hi
    BY <2>2
  <2>4. p[hi] # p[hi - 1]
    BY <2>2, <2>3 DEF Begins
  <2>5. p[lo] <= p[hi - 1] /\ p[hi - 1] <= p[hi]
    BY <2>2, <2>3 DEF Rising
  <2>6. p[lo] \in Nat /\ p[hi - 1] \in Nat /\ p[hi] \in Nat
    BY <2>2, <2>3 DEF Rising
  <2>7. p[lo] # p[hi]
    BY <2>4, <2>5, <2>6
  <2> QED
    BY <2>1, <2>7
<1>3. ASSUME NEW i \in 1..n PROVE \E k \in 1..Len(b) : p[b[k]] = p[i]
  <2> DEFINE mine == {j \in 1..n : p[j] = p[i]}
  <2>1. mine \subseteq Nat /\ i \in mine
    OBVIOUS
  <2>2. PICK j \in mine : \A l \in mine : j <= l
    BY <2>1, LeastNatural
  <2>3. j \in Begins(p, n)
    <3>1. SUFFICES ASSUME j > 1, p[j] = p[j - 1] PROVE FALSE
      BY DEF Begins
    <3>2. j - 1 \in 1..n
      BY <3>1
    <3>3. j - 1 \in mine
      BY <3>1, <3>2
    <3> QED
      BY <2>2, <3>3
  <2>4. PICK k \in 1..Len(b) : b[k] = j
    BY <1>1, <2>3
  <2> QED
    BY <2>4
<1>4. f \in Injection(1..Len(b), P)
  <2>1. f \in [1..Len(b) -> P]
    BY <1>1
  <2>2. \A j, k \in 1..Len(b) : j # k => j < k \/ k < j
    BY <1>1
  <2>3. \A j, k \in 1..Len(b) : f[j] = f[k] => j = k
    BY <1>2, <2>2
  <2> QED
    BY <2>1, <2>3 DEF Injection, IsInjective
<1>5. f \in Surjection(1..Len(b), P)
  <2>1. \A v \in P : \E k \in 1..Len(b) : f[k] = v
    BY <1>3
  <2> QED
    BY <1>4, <2>1 DEF Surjection, Injection
<1>6. IsFiniteSet(1..Len(b)) /\ Cardinality(1..Len(b)) = Len(b)
  <2>1. PICK l \in Nat : l = Len(b)
    BY <1>1
  <2>2. IsFiniteSet(1..l) /\ Cardinality(1..l) = l
    BY FS_Interval
  <2> QED
    BY <2>1, <2>2
<1>7. ExistsBijection(1..Len(b), P)
  BY <1>4, <1>5 DEF ExistsBijection, Bijection
<1> QED
  BY <1>6, <1>7, FS_Bijection

\* the period of each candle of s
Periods(s, m) == [i \in 1..Len(s) |-> s[i].t \div m]

\* In a series in order the periods rise, and the groups begin where they change.
LEMMA PeriodsRise ==
  ASSUME NEW s \in Seq(Bar), InOrder(s), NEW m \in Coarse
  PROVE  /\ Len(s) \in Nat /\ Rising(Periods(s, m), Len(s))
         /\ {i \in DOMAIN s : i > 1 => Floor(s[i].t, m) # Floor(s[i - 1].t, m)}
              = Begins(Periods(s, m), Len(s))
<1> DEFINE n == Len(s)
           p == Periods(s, m)
<1>1. n \in Nat /\ DOMAIN s = 1..n /\ \A i \in 1..n : s[i] \in Bar
  OBVIOUS
<1>2. \A i \in 1..n : s[i].t \in Nat
  BY <1>1 DEF Bar
<1>3. \A i \in 1..n : p[i] = s[i].t \div m
  BY DEF Periods
<1> HIDE DEF p, n
<1>4. ASSUME NEW i \in 1..n
      PROVE  p[i] \in Nat /\ Floor(s[i].t, m) = m * p[i] /\ Floor(s[i].t, m) \div m = p[i]
  <2>1. PICK t \in Nat : t = s[i].t
    BY <1>2
  <2>2. Floor(t, m) = m * (t \div m) /\ Floor(t, m) \div m = t \div m /\ t \div m \in Nat
    BY FloorIsPeriod
  <2>3. p[i] = t \div m
    BY <1>3, <2>1
  <2> QED
    BY <2>1, <2>2, <2>3
<1>5. ASSUME NEW i \in 1..n, NEW j \in 1..n, i <= j PROVE p[i] <= p[j]
  <2>1. PICK t \in Nat, u \in Nat : t = s[i].t /\ u = s[j].t
    BY <1>2
  <2>2. t <= u
    <3>1. CASE i = j
      BY <2>1, <3>1
    <3>2. CASE i # j
      <4>1. i < j
        BY <1>1, <1>5, <3>2
      <4> QED
        BY <1>1, <2>1, <4>1 DEF InOrder
    <3> QED
      BY <3>1, <3>2
  <2>3. t \div m <= u \div m
    BY <2>2, PeriodsAscend
  <2> QED
    BY <1>3, <2>1, <2>3
<1>6. Rising(p, n)
  BY <1>4, <1>5 DEF Rising
<1>7. ASSUME NEW i \in 1..n, NEW j \in 1..n
      PROVE  Floor(s[i].t, m) # Floor(s[j].t, m) <=> p[i] # p[j]
  BY <1>4
<1>8. ASSUME NEW i \in 1..n
      PROVE  (i > 1 => Floor(s[i].t, m) # Floor(s[i - 1].t, m)) <=> (i > 1 => p[i] # p[i - 1])
  <2>1. i > 1 => i - 1 \in 1..n
    BY <1>1
  <2> QED
    BY <1>7, <2>1
<1>9. {i \in DOMAIN s : i > 1 => Floor(s[i].t, m) # Floor(s[i - 1].t, m)} = Begins(p, n)
  BY <1>1, <1>8, Zenon DEF Begins
<1> QED
  BY <1>1, <1>6, <1>9 DEF n, p

\* The candle number k of the aggregate is made of the candles lo to hi of the series,
\* which are those of one period.
LEMMA GroupOfPeriod ==
  ASSUME NEW s \in Seq(Bar), InOrder(s), NEW m \in Coarse, NEW k \in DOMAIN Aggregated(s, m)
  PROVE  \E lo, hi \in 1..Len(s) :
           /\ lo <= hi /\ Aggregated(s, m)[k] = Group(SubSeq(s, lo, hi), m)
           /\ {i \in DOMAIN s : s[i].t \div m = s[lo].t \div m} = lo..hi
<1> DEFINE n == Len(s)
           p == Periods(s, m)
           b == Ascending(Begins(p, n))
           end(j) == IF j < Len(b) THEN b[j + 1] - 1 ELSE n
<1>1. n \in Nat /\ Rising(p, n) /\ DOMAIN s = 1..n
  BY PeriodsRise
<1>2. Groups(s, m) = [j \in DOMAIN b |-> SubSeq(s, b[j], end(j))]
  BY PeriodsRise, Zenon DEF Groups
<1>3. DOMAIN b = 1..Len(b)
  BY <1>1, BeginsInOrder
<1>4. k \in 1..Len(b) /\ Aggregated(s, m)[k] = Group(SubSeq(s, b[k], end(k)), m)
  BY <1>2, <1>3, Zenon DEF Aggregated
<1>5. PICK lo, hi : lo = b[k] /\ hi = end(k)
  OBVIOUS
<1>6. /\ lo \in 1..n /\ hi \in 1..n /\ lo <= hi
      /\ {i \in 1..n : p[i] = p[lo]} = lo..hi
  <2> HIDE DEF p, b, n
  <2>1. \A x : x = Ascending(Begins(p, n)) => (k \in 1..Len(x) =>
          \A h : h = (IF k < Len(x) THEN x[k + 1] - 1 ELSE n) =>
            /\ x[k] \in 1..n /\ h \in 1..n /\ x[k] <= h
            /\ {i \in 1..n : p[i] = p[x[k]]} = x[k]..h)
    BY <1>1, GroupIsRun
  <2> QED
    BY <1>4, <1>5, <2>1, Zenon DEF b
<1>7. \A i \in 1..n : p[i] = s[i].t \div m
  BY DEF Periods
<1>8. {i \in DOMAIN s : s[i].t \div m = s[lo].t \div m} = lo..hi
  <2> HIDE DEF p, n
  <2>1. \A i \in 1..n : p[i] = p[lo] <=> s[i].t \div m = s[lo].t \div m
    BY <1>6, <1>7
  <2> QED
    BY <1>1, <1>6, <2>1, Zenon
<1> HIDE DEF b
<1> QED
  BY <1>4, <1>5, <1>6, <1>8

\* aggregate_to_higher_timeframe makes of them what a candle of the period is.
LEMMA GroupIsCandle ==
  ASSUME NEW s \in Seq(Bar), NEW m \in Coarse, NEW lo \in 1..Len(s), NEW hi \in 1..Len(s), lo <= hi,
         {i \in DOMAIN s : s[i].t \div m = s[lo].t \div m} = lo..hi,
         NEW a, a = Group(SubSeq(s, lo, hi), m)
  PROVE  IsCandleOf(a, m, s)
<1> DEFINE mine == {i \in DOMAIN s : s[i].t \div m = a.t \div m}
<1>1. PICK g : g = SubSeq(s, lo, hi)
  OBVIOUS
<1>2. Len(s) \in Nat /\ DOMAIN s = 1..Len(s) /\ \A i \in 1..Len(s) : s[i] \in Bar
  OBVIOUS
<1>3. /\ g \in Seq(Bar) /\ Len(g) = hi - lo + 1 /\ DOMAIN g = 1..(hi - lo + 1)
      /\ \A i \in 1..(hi - lo + 1) : g[i] = s[lo + i - 1]
  BY <1>1, <1>2
<1>4. g[1] = s[lo] /\ Last(g) = s[hi]
  <2>1. 1 \in 1..(hi - lo + 1) /\ hi - lo + 1 \in 1..(hi - lo + 1) /\ lo + 1 - 1 = lo /\ lo + (hi - lo + 1) - 1 = hi
    OBVIOUS
  <2>2. g[1] = s[lo] /\ g[hi - lo + 1] = s[hi]
    BY <1>3, <2>1
  <2> QED
    BY <1>3, <2>2 DEF Last
<1>5. /\ a.t = Floor(s[lo].t, m) /\ a.open = s[lo].open /\ a.close = s[hi].close
      /\ a.high = Max({g[i].high : i \in DOMAIN g}) /\ a.low = Min({g[i].low : i \in DOMAIN g})
      /\ a.volume = FoldLeft(LAMBDA sum, c : sum + c.volume, 0, g)
  <2>1. PICK x, y, z : /\ x = Max({g[i].high : i \in DOMAIN g}) /\ y = Min({g[i].low : i \in DOMAIN g})
                       /\ z = FoldLeft(LAMBDA sum, c : sum + c.volume, 0, g)
    OBVIOUS
  <2>2. a = [t |-> Floor(g[1].t, m), open |-> g[1].open, close |-> Last(g).close,
             high |-> x, low |-> y, volume |-> z]
    BY <1>1, <2>1, Zenon DEF Group
  <2>3. /\ a.t = Floor(g[1].t, m) /\ a.open = g[1].open /\ a.close = Last(g).close
        /\ a.high = x /\ a.low = y /\ a.volume = z
    BY <2>2
  <2> QED
    BY <1>4, <2>1, <2>3, Zenon
<1>6. a.t % m = 0 /\ a.t \div m = s[lo].t \div m
  <2>1. PICK t \in Nat : t = s[lo].t
    BY <1>2 DEF Bar
  <2>2. Floor(t, m) % m = 0 /\ Floor(t, m) \div m = t \div m
    BY FloorIsPeriod
  <2> QED
    BY <1>5, <2>1, <2>2
<1>7. mine = lo..hi
  BY <1>6
<1>8. lo \in lo..hi /\ hi \in lo..hi
  OBVIOUS
<1>9. Min(lo..hi) = lo
  <2>1. lo \in lo..hi /\ \A y \in lo..hi : lo <= y
    OBVIOUS
  <2>2. Min(lo..hi) \in lo..hi /\ \A y \in lo..hi : Min(lo..hi) <= y
    BY <2>1, Zenon DEF Min
  <2> QED
    BY <2>1, <2>2
<1>10. Max(lo..hi) = hi
  <2>1. hi \in lo..hi /\ \A y \in lo..hi : hi >= y
    OBVIOUS
  <2>2. Max(lo..hi) \in lo..hi /\ \A y \in lo..hi : Max(lo..hi) >= y
    BY <2>1, Zenon DEF Max
  <2> QED
    BY <2>1, <2>2
<1>11. \A i \in DOMAIN g : \E j \in lo..hi : g[i] = s[j]
  <2> TAKE i \in DOMAIN g
  <2>1. lo + i - 1 \in lo..hi /\ g[i] = s[lo + i - 1]
    BY <1>3
  <2> QED
    BY <2>1
<1>12. \A j \in lo..hi : \E i \in DOMAIN g : g[i] = s[j]
  <2> TAKE j \in lo..hi
  <2>1. j - lo + 1 \in 1..(hi - lo + 1) /\ lo + (j - lo + 1) - 1 = j
    OBVIOUS
  <2>2. g[j - lo + 1] = s[j]
    BY <1>3, <2>1
  <2> QED
    BY <1>3, <2>1, <2>2
<1>13. {g[i].high : i \in DOMAIN g} = {s[i].high : i \in lo..hi}
  <2>1. \A x : x \in {g[i].high : i \in DOMAIN g} <=> \E i \in DOMAIN g : x = g[i].high
    OBVIOUS
  <2>2. \A x : x \in {s[i].high : i \in lo..hi} <=> \E i \in lo..hi : x = s[i].high
    OBVIOUS
  <2>3. \A x : (\E i \in DOMAIN g : x = g[i].high) <=> \E i \in lo..hi : x = s[i].high
    BY <1>11, <1>12, Zenon
  <2> QED
    BY <2>1, <2>2, <2>3, Zenon
<1>14. {g[i].low : i \in DOMAIN g} = {s[i].low : i \in lo..hi}
  <2>1. \A x : x \in {g[i].low : i \in DOMAIN g} <=> \E i \in DOMAIN g : x = g[i].low
    OBVIOUS
  <2>2. \A x : x \in {s[i].low : i \in lo..hi} <=> \E i \in lo..hi : x = s[i].low
    OBVIOUS
  <2>3. \A x : (\E i \in DOMAIN g : x = g[i].low) <=> \E i \in lo..hi : x = s[i].low
    BY <1>11, <1>12, Zenon
  <2> QED
    BY <2>1, <2>2, <2>3, Zenon
<1>15. a.volume = MapThenSumSet(LAMBDA i : s[i].volume, lo..hi)
  <2>1. FoldLeft(LAMBDA sum, c : sum + c.volume, 0, g) = MapThenSumSet(LAMBDA i : s[i].volume, lo..hi)
    BY <1>1, SameVolume
  <2> QED
    BY <1>5, <2>1, Zenon
<1>16. a.high = Max({s[i].high : i \in mine}) /\ a.low = Min({s[i].low : i \in mine})
  BY <1>5, <1>7, <1>13, <1>14, Zenon
<1>17. a.volume = MapThenSumSet(LAMBDA i : s[i].volume, mine)
  BY <1>7, <1>15, Zenon
<1>18. mine # {} /\ a.open = s[Min(mine)].open /\ a.close = s[Max(mine)].close
  BY <1>5, <1>7, <1>8, <1>9, <1>10, Zenon
<1> HIDE DEF mine
<1>19. IsCandleOf(a, m, s)
  BY <1>6, <1>16, <1>17, <1>18, Zenon DEF IsCandleOf, mine
<1> QED
  BY <1>19

\* There is one for every period that has any.
LEMMA OneGroupPerPeriod ==
  ASSUME NEW s \in Seq(Bar), InOrder(s), NEW m \in Coarse
  PROVE  Len(Aggregated(s, m)) = Cardinality({s[i].t \div m : i \in DOMAIN s})
<1> DEFINE n == Len(s)
           p == Periods(s, m)
           b == Ascending(Begins(p, n))
           end(j) == IF j < Len(b) THEN b[j + 1] - 1 ELSE n
<1>1. n \in Nat /\ Rising(p, n) /\ DOMAIN s = 1..n
  BY PeriodsRise
<1>2. Groups(s, m) = [j \in DOMAIN b |-> SubSeq(s, b[j], end(j))]
  BY PeriodsRise, Zenon DEF Groups
<1>3. DOMAIN b = 1..Len(b) /\ Len(b) \in Nat
  BY <1>1, BeginsInOrder
<1>4. DOMAIN Aggregated(s, m) = 1..Len(b)
  BY <1>2, <1>3, Zenon DEF Aggregated
<1>5. Len(Aggregated(s, m)) = Len(b)
  <2>1. Aggregated(s, m) = [k \in 1..Len(b) |-> Group(Groups(s, m)[k], m)]
    BY <1>2, <1>3, Zenon DEF Aggregated
  <2> HIDE DEF b
  <2> QED
    BY <1>3, <2>1
<1>6. Len(b) = Cardinality({p[i] : i \in 1..n})
  BY <1>1, OneBeginPerPeriod
<1>7. {p[i] : i \in 1..n} = {s[i].t \div m : i \in DOMAIN s}
  <2>1. \A i \in 1..n : p[i] = s[i].t \div m
    BY DEF Periods
  <2> QED
    BY <1>1, <2>1
<1> QED
  BY <1>5, <1>6, <1>7

\* So the aggregates of any series are faithful.
LEMMA AggregateOfSeries ==
  ASSUME data \in Seq(Bar)
  PROVE  AggregateIsFaithful
<1> SUFFICES ASSUME InOrder(data), NEW m \in Targets \cap {60, 240, 1440}
             PROVE  /\ OnePerPeriod(m)
                    /\ \A k \in DOMAIN Aggregated(data, m) : IsCandleOf(Aggregated(data, m)[k], m, data)
  BY DEF AggregateIsFaithful
<1>1. m \in Coarse
  BY DEF Coarse
<1>2. OnePerPeriod(m)
  BY <1>1, OneGroupPerPeriod DEF OnePerPeriod
<1>3. ASSUME NEW k \in DOMAIN Aggregated(data, m)
      PROVE  IsCandleOf(Aggregated(data, m)[k], m, data)
  <2>1. PICK lo \in 1..Len(data), hi \in 1..Len(data) :
           /\ lo <= hi /\ Aggregated(data, m)[k] = Group(SubSeq(data, lo, hi), m)
           /\ {i \in DOMAIN data : data[i].t \div m = data[lo].t \div m} = lo..hi
    BY <1>1, GroupOfPeriod
  <2> QED
    BY <1>1, <2>1, GroupIsCandle
<1> QED
  BY <1>2, <1>3

-----------------------------------------------------------------------------
(* The invariant, and what follows.                                        *)

\* The inductive invariant: a sequence of sound candles on the times of the timeframe.
SeriesInv == data \in Seq(Bar) /\ OnTime(data)

\* The rows the series starts from are such.
LEMMA InitType == SeriesInit => SeriesInv
<1>1. Openings \subseteq Nat /\ Prices \subseteq Nat /\ MaxCandles \in Nat
  BY SeriesAssumption
<1>2. Candle \subseteq Bar /\ \A c \in Candle : c.t % Frame = 0
  <2> SUFFICES ASSUME NEW c \in Candle PROVE c \in Bar /\ c.t % Frame = 0
    OBVIOUS
  <2>1. c \in [t : Openings, open : Prices, high : Prices, low : Prices, close : Prices, volume : {1}] /\ Proper(c)
    BY Zenon DEF Candle
  <2>2. ASSUME NEW V, V \subseteq Nat,
               c \in [t : Openings, open : Prices, high : Prices, low : Prices, close : Prices, volume : V]
        PROVE  c \in [t : Nat, open : Nat, high : Nat, low : Nat, close : Nat, volume : Nat]
    BY <1>1, <2>2
  <2>3. {1} \subseteq Nat
    OBVIOUS
  <2>4. c \in [t : Nat, open : Nat, high : Nat, low : Nat, close : Nat, volume : Nat]
    BY <2>1, <2>2, <2>3, Zenon
  <2>5. c.t % Frame = 0
    BY <2>1, SeriesAssumption
  <2> QED
    BY <2>1, <2>4, <2>5, Zenon DEF Bar
<1> SUFFICES ASSUME SeriesInit PROVE SeriesInv
  OBVIOUS
<1>3. PICK n \in 0..MaxCandles : data \in [1..n -> Candle]
  BY Zenon DEF SeriesInit, BoundedSeq, SeqOf
<1>4. data \in Seq(Bar) /\ DOMAIN data = 1..n /\ \A i \in 1..n : data[i] \in Candle
  BY <1>1, <1>2, <1>3
<1> QED
  BY <1>2, <1>4 DEF SeriesInv, OnTime

\* Every function keeps it, and only filling makes the series longer.
LEMMA SeriesStep ==
  ASSUME SeriesInv, [SeriesNext]_data
  PROVE  SeriesInv' /\ (Len(data') > Len(data) => IsWhole(data', data))
<1>1. data \in Seq(Bar) /\ OnTime(data) /\ Len(data) \in Nat
  BY DEF SeriesInv
<1>2. CASE FillMissing
  BY <1>1, <1>2, FillMissingType DEF SeriesInv
<1>3. CASE RemoveDuplicates
  <2>1. data' \in Seq(Bar) /\ OnTime(data') /\ Len(data') <= Len(data)
    BY <1>1, <1>3, RemoveDuplicatesType
  <2>2. Len(data') \in Nat
    BY <2>1
  <2> QED
    BY <1>1, <2>1, <2>2 DEF SeriesInv
<1>4. CASE Smooth
  <2>1. data' \in Seq(Bar) /\ OnTime(data') /\ Len(data') = Len(data)
    BY <1>1, <1>4, SmoothType
  <2> QED
    BY <1>1, <2>1 DEF SeriesInv
<1>5. CASE UNCHANGED data
  <2>1. OnTime(data')
    BY <1>1, <1>5
  <2> QED
    BY <1>1, <1>5, <2>1 DEF SeriesInv
<1> QED
  BY <1>2, <1>3, <1>4, <1>5 DEF SeriesNext

LEMMA SeriesInvariance == SeriesSpec => []SeriesInv
<1>1. SeriesInv /\ [SeriesNext]_data => SeriesInv'
  BY SeriesStep
<1> QED
  BY <1>1, InitType, PTL DEF SeriesSpec

\* Whatever DataCleaner does to the series, its candles, and those of its aggregates to any
\* timeframe, lie between their low and their high.
THEOREM SeriesStaysSound == SeriesSpec => []SeriesIsSound
<1>1. SeriesInv => SeriesIsSound
  <2> SUFFICES ASSUME SeriesInv PROVE SeriesIsSound
    OBVIOUS
  <2>1. data \in Seq(Bar)
    BY DEF SeriesInv
  <2>2. \A i \in DOMAIN data : Proper(data[i])
    BY <2>1 DEF Bar
  <2> QED
    BY <2>1, <2>2, AggregatesAreSound DEF SeriesIsSound
<1> QED
  BY <1>1, SeriesInvariance, PTL

\* fill_missing_candles leaves no time of the timeframe out, adds none twice and loses no
\* candle, however long the gaps are; the other functions never make a series longer.
THEOREM FilledIsWhole == SeriesSpec => FillIsWhole
<1>1. SeriesInv /\ [SeriesNext]_data => [Len(data') > Len(data) => IsWhole(data', data)]_data
  BY SeriesStep
<1> QED
  BY <1>1, SeriesInvariance, PTL DEF SeriesSpec, FillIsWhole

\* aggregate_to_higher_timeframe makes of a series in order exactly the candles of its hours,
\* four hours or days, with open, close, extremes and volume.
THEOREM AggregatesAreFaithful == SeriesSpec => []AggregateIsFaithful
<1>1. SeriesInv => AggregateIsFaithful
  BY AggregateOfSeries DEF SeriesInv
<1> QED
  BY <1>1, SeriesInvariance, PTL
=============================================================================

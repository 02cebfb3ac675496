--------------------------- MODULE GapFillProofs ---------------------------
(***************************************************************************)
(* That the round robin of the recovery makes no symbol wait for longer    *)
(* than a round of the whole list, and type correctness, for lists, rounds *)
(* and windows of any length.                                              *)
(***************************************************************************)
EXTENDS GapFill, FiniteSetTheorems, TLAPS

-----------------------------------------------------------------------------
(* The members of a set in order.                                          *)

\* Ascending goes through its set, in order and without a repetition: the members are
\* those of rank 1, 2 and so on.
LEMMA AscendingIsSorted ==
  ASSUME NEW S, S \subseteq Nat, IsFiniteSet(S)
  PROVE  /\ Ascending(S) \in Seq(S)
         /\ \A i, j \in DOMAIN Ascending(S) : i < j => Ascending(S)[i] < Ascending(S)[j]
         /\ \A t \in S : \E i \in DOMAIN Ascending(S) : Ascending(S)[i] = t
<1> DEFINE n == Cardinality(S)
           upTo(t) == {u \in S : u <= t}
           rank(t) == Cardinality(upTo(t))
           f == [t \in S |-> rank(t)]
<1>1. n \in Nat
  BY FS_CardinalityType
<1>2. \A t \in S : IsFiniteSet(upTo(t)) /\ rank(t) \in Nat /\ rank(t) <= n
  BY FS_Subset, FS_CardinalityType
<1>3. \A t \in S : rank(t) \in 1..n
  <2> TAKE t \in S
  <2>1. upTo(t) # {}
    OBVIOUS
  <2>2. rank(t) # 0
    BY <1>2, <2>1, FS_EmptySet
  <2> QED
    BY <1>1, <1>2, <2>2
<1>4. \A t, v \in S : t < v => rank(t) < rank(v)
  <2> SUFFICES ASSUME NEW t \in S, NEW v \in S, t < v
               PROVE  rank(t) < rank(v)
    OBVIOUS
  <2>1. \A u \in S : u <= t => u <= v
    <3> TAKE u \in S
    <3>1. u \in Nat /\ t \in Nat /\ v \in Nat
      OBVIOUS
    <3> QED
      BY <3>1
  <2>2. upTo(t) \in SUBSET upTo(v)
    BY <2>1
  <2>3. t \in Nat /\ v \in Nat
    OBVIOUS
  <2>4. v \in upTo(v) /\ v \notin upTo(t)
    BY <2>3
  <2>5. rank(t) <= rank(v) /\ rank(t) # rank(v)
    BY <1>2, <2>2, <2>4, FS_Subset
  <2> QED
    BY <1>2, <2>5
<1>5. f \in Injection(S, 1..n)
  <2>1. f \in [S -> 1..n]
    BY <1>3
  <2>2. \A t, v \in S : f[t] = f[v] => t = v
    BY <1>2, <1>4
  <2> QED
    BY <2>1, <2>2 DEF Injection, IsInjective
<1>6. f \in Surjection(S, 1..n)
  <2>1. IsFiniteSet(1..n) /\ Cardinality(1..n) = n
    BY <1>1, FS_Interval
  <2> QED
    BY <1>5, <2>1, FS_Injection
<1>7. \A i \in 1..n : \E t \in S : rank(t) = i
  BY <1>6 DEF Surjection
<1>8. Ascending(S) = [i \in 1..n |-> CHOOSE t \in S : rank(t) = i]
  BY DEF Ascending
<1>9. PICK g : g = f
  OBVIOUS
<1>10. /\ \A t \in S : g[t] \in 1..n
       /\ \A t, v \in S : t < v => g[t] < g[v]
  BY <1>3, <1>4, <1>9
<1>11. PICK a : a = Ascending(S)
  OBVIOUS
<1>12. a \in [1..n -> S] /\ \A i \in 1..n : g[a[i]] = i
  BY <1>7, <1>8, <1>9, <1>11
<1> HIDE DEF rank, n, f, upTo
<1>13. a \in Seq(S) /\ DOMAIN a = 1..n
  BY <1>1, <1>12
<1>14. \A i, j \in 1..n : i < j => a[i] < a[j]
  <2> SUFFICES ASSUME NEW i \in 1..n, NEW j \in 1..n, i < j
               PROVE  a[i] < a[j]
    OBVIOUS
  <2>1. a[i] \in S /\ a[j] \in S /\ g[a[i]] = i /\ g[a[j]] = j
    BY <1>12
  <2>2. i # j /\ ~(j < i)
    BY <1>1
  <2>3. a[i] # a[j] /\ ~(a[j] < a[i])
    BY <1>10, <2>1, <2>2, Zenon
  <2>4. a[i] \in Nat /\ a[j] \in Nat
    BY <2>1
  <2> QED
    BY <2>3, <2>4
<1>15. \A t \in S : a[g[t]] = t /\ g[t] \in 1..n
  <2> TAKE t \in S
  <2>1. g[t] \in 1..n
    BY <1>10
  <2> DEFINE v == a[g[t]]
  <2>2. v \in S /\ g[v] = g[t]
    BY <1>12, <2>1
  <2>3. g[t] \in Nat
    BY <1>1, <2>1
  <2>4. ~(g[t] < g[t])
    BY <2>3
  <2> HIDE DEF v
  <2>5. ~(v < t) /\ ~(t < v)
    BY <1>10, <2>2, <2>4, Zenon
  <2>6. t \in Nat /\ v \in Nat
    BY <2>2
  <2>7. v = t
    BY <2>5, <2>6
  <2> QED
    BY <2>1, <2>7 DEF v
<1> QED
  BY <1>11, <1>13, <1>14, <1>15

-----------------------------------------------------------------------------
(* Types.                                                                  *)

\* Candles are finitely many natural numbers.
LEMMA CandlesFinite ==
  ASSUME NEW S, S \subseteq Candles
  PROVE  S \subseteq Nat /\ IsFiniteSet(S)
<1>1. Candles \subseteq 0..Horizon /\ Horizon \in Nat
  BY TimeAssumption DEF Candles
<1>2. IsFiniteSet(0..Horizon)
  BY <1>1, FS_Interval
<1>3. S \in SUBSET (0..Horizon) /\ S \subseteq Nat
  BY <1>1
<1>4. IsFiniteSet(S)
  BY <1>2, <1>3, FS_Subset, Zenon
<1> QED
  BY <1>3, <1>4

\* the gaps that are reported
Gap == (0..Horizon) \X (0..Horizon)

\* A remainder is less than its divisor.
LEMMA RemainderType ==
  ASSUME NEW a \in Nat, NEW d \in Nat \ {0}
  PROVE  a % d \in 0..(d - 1)
  BY SMTT(20)

\* A multiple of Delta just not less than a.
LEMMA RoundedUp ==
  ASSUME NEW a \in Nat
  PROVE  Delta * ((a + Delta - 1) \div Delta) \in 0..(a + Delta)
<1> DEFINE b == a + Delta - 1
<1>1. b \in Nat /\ Delta \in Nat \ {0}
  BY TimeAssumption
<1> HIDE DEF b
<1>2. b \div Delta \in Nat /\ b = Delta * (b \div Delta) + (b % Delta) /\ b % Delta \in 0..(Delta - 1)
  BY <1>1, SMTT(20)
<1>3. Delta * (b \div Delta) \in Nat
  BY <1>1, <1>2
<1>4. Delta * (b \div Delta) <= b
  BY <1>1, <1>2, <1>3
<1> QED
  BY <1>1, <1>3, <1>4 DEF b

\* The rows of a request.
LEMMA KlinesType ==
  ASSUME NEW g
  PROVE  Klines(g) \in Seq(Row)
<1> DEFINE S == {c \in Candles : InWindow(c, g) /\ c <= now}
           A == Ascending(S)
<1>1. A \in Seq(S)
  BY CandlesFinite, AscendingIsSorted
<1> HIDE DEF A
<1>2. A \in Seq(Candles)
  BY <1>1
<1>3. Klines(g) = [i \in DOMAIN A |-> [at |-> A[i], kind |-> IF Closed(A[i]) THEN "final" ELSE "partial"]]
  BY DEF Klines, A
<1>4. \A i \in DOMAIN A : [at |-> A[i], kind |-> IF Closed(A[i]) THEN "final" ELSE "partial"] \in Row
  BY <1>2 DEF Row
<1>5. Len(A) \in Nat /\ DOMAIN A = 1..Len(A)
  BY <1>2
<1> QED
  BY <1>3, <1>4, <1>5

\* A row put on the queue is dropped if the queue is full.
LEMMA EnqueueType ==
  ASSUME queue \in Seq(Row), Len(queue) <= QueueCap, NEW r \in Row, Enqueue(r)
  PROVE  queue' \in Seq(Row) /\ Len(queue') <= QueueCap
  BY CapAssumption DEF Enqueue

\* Of more than one row something remains when the first is taken.
LEMMA LongTail ==
  ASSUME NEW X, NEW s \in Seq(X), Len(s) > 1
  PROVE  Tail(s) \in Seq(X) /\ Tail(s) # <<>>
<1>1. Len(s) \in Nat /\ s # <<>> /\ Tail(s) \in Seq(X)
  OBVIOUS
<1>2. Len(Tail(s)) = Len(s) - 1
  BY <1>1
<1>3. Len(Tail(s)) # 0
  BY <1>1, <1>2
<1>4. Len(<<>>) = 0
  OBVIOUS
<1> QED
  BY <1>1, <1>3, <1>4, Zenon

\* What is known of the gaps and the rows that are not dealt with.
PlaceOK ==
  /\ rec \in {"idle", "query", "gap", "fetch", "rows"}
  /\ gaps \in Seq(Gap) /\ rows \in Seq(Row)
  /\ (rec \in {"gap", "fetch", "rows"} <=> gaps # <<>>) /\ (rec = "rows" <=> rows # <<>>)

LEMMA AfterGapType ==
  ASSUME NEW gs \in Seq(Gap), AfterGap(gs)
  PROVE  PlaceOK'
  BY DEF AfterGap, PlaceOK

OtherOK ==
  /\ now \in Window..Horizon /\ fed \in 0..(Horizon + Delta)
  /\ queue \in Seq(Row) /\ Len(queue) <= QueueCap
  /\ table \in [Candles -> {"none", "partial", "final"}]
  /\ others \in 1..MaxOthers /\ place \in 0..(others - 1) /\ changes \in 0..MaxChanges
  /\ index \in 0..(MaxOthers - 1) /\ turns \in 0..Slots /\ waited \in Nat
  /\ window \in (0..Horizon) \X (0..Horizon) /\ faults \in 0..MaxFaults

LEMMA TypeParts == TypeOK <=> PlaceOK /\ OtherOK
  BY DEF TypeOK, PlaceOK, OtherOK, Gap

LEMMA TypeInit == Init => TypeOK
<1> SUFFICES ASSUME Init PROVE PlaceOK /\ OtherOK
  BY TypeParts
<1>1. Window \in Nat \ {0} /\ Horizon \in Nat /\ Horizon >= Window /\ Delta \in Nat \ {0}
  BY TimeAssumption
<1>2. fed \in 0..(Horizon + Delta)
  BY <1>1, RoundedUp DEF Init
<1>3. PlaceOK
  BY DEF Init, PlaceOK
<1>4. OtherOK
  BY <1>1, <1>2, RoundAssumption, CapAssumption DEF Init, OtherOK
<1> QED
  BY <1>3, <1>4

LEMMA TypeStep == TypeOK /\ [Next]_vars => TypeOK'
<1> SUFFICES ASSUME TypeOK, [Next]_vars PROVE PlaceOK' /\ OtherOK'
  BY TypeParts, PTL
<1>a. PlaceOK /\ OtherOK
  BY TypeParts
<1>b. /\ Window \in Nat \ {0} /\ Horizon \in Nat /\ Horizon >= Window /\ Delta \in Nat \ {0}
      /\ Slots \in Nat \ {0} /\ MaxOthers \in Nat \ {0} /\ MaxChanges \in Nat
      /\ Asked \in 0..Window /\ QueueCap \in Nat \ {0} /\ MaxFaults \in Nat
  BY TimeAssumption, RoundAssumption, CapAssumption
<1> USE DEF listVars, roundVars, recVars
<1>1. UNCHANGED recVars => PlaceOK' /\ window' = window
  BY <1>a DEF PlaceOK
<1>2. CASE Tick
  BY <1>a, <1>b, <1>1, <1>2 DEF Tick, OtherOK
<1>3. ASSUME NEW lost \in BOOLEAN, FeedNext(lost)
      PROVE  PlaceOK' /\ OtherOK'
  <2>1. fed' \in 0..(Horizon + Delta)
    BY <1>3, <1>b DEF FeedNext, Candles
  <2>2. queue' \in Seq(Row) /\ Len(queue') <= QueueCap
    <3>1. [at |-> fed, kind |-> "final"] \in Row
      BY <1>3 DEF FeedNext, Row
    <3> QED
      BY <1>a, <1>3, <3>1, EnqueueType DEF FeedNext, OtherOK
  <2> QED
    BY <1>a, <1>1, <1>3, <2>1, <2>2 DEF FeedNext, OtherOK
<1>4. CASE Flush
  <2>1. Head(queue) \in Row /\ Tail(queue) \in Seq(Row) /\ Len(Tail(queue)) <= QueueCap
    BY <1>a, <1>b, <1>4 DEF Flush, OtherOK
  <2>2. Head(queue).at \in Candles /\ Head(queue).kind \in {"none", "partial", "final"}
    BY <2>1 DEF Row
  <2> QED
    BY <1>a, <1>1, <1>4, <2>1, <2>2 DEF Flush, OtherOK
<1>5. CASE SymbolsChange
  <2>1. others' \in 1..MaxOthers /\ place' \in 0..(others' - 1)
    BY <1>a, <1>b, <1>5 DEF SymbolsChange, AddSymbols, OtherOK
  <2>2. changes' \in 0..MaxChanges
    BY <1>a, <1>b, <1>5 DEF SymbolsChange, OtherOK
  <2> QED
    BY <1>a, <1>1, <1>5, <2>1, <2>2 DEF SymbolsChange, OtherOK
<1>6. CASE RecoverSymbolData
  <2> DEFINE found == Klines(<<now - Asked, now>>)
             taken == Least(Len(found), QueueCap - Len(queue))
  <2>1. found \in Seq(Row)
    BY KlinesType
  <2> HIDE DEF found
  <2>2. taken \in 0..Len(found) /\ taken <= QueueCap - Len(queue)
    BY <1>a, <1>b, <2>1 DEF Least, OtherOK
  <2>3. queue' = queue \o SubSeq(found, 1, taken)
    BY <1>6 DEF RecoverSymbolData, found
  <2> HIDE DEF taken
  <2>4. SubSeq(found, 1, taken) \in Seq(Row) /\ Len(SubSeq(found, 1, taken)) = taken
    BY <2>1, <2>2
  <2>5. queue' \in Seq(Row) /\ Len(queue') <= QueueCap
    BY <1>a, <1>b, <2>2, <2>3, <2>4 DEF OtherOK
  <2>6. changes' \in 0..MaxChanges /\ UNCHANGED <<now, fed, table, others, place, roundVars, recVars, faults>>
    BY <1>a, <1>b, <1>6 DEF RecoverSymbolData, OtherOK
  <2> QED
    BY <1>a, <1>1, <2>5, <2>6 DEF OtherOK
<1>7. CASE NextRound
  <2>1. ASSUME TakesTurns
        PROVE  index' \in 0..(MaxOthers - 1) /\ turns' \in 0..Slots
    <3>1. index + Slots \in Nat /\ others \in Nat \ {0}
      BY <1>a, <1>b DEF OtherOK
    <3>2. index' \in 0..(others - 1)
      BY <2>1, <3>1, RemainderType DEF TakesTurns
    <3> DEFINE I == {i \in 0..(Slots - 1) : (index + i) % others = place}
    <3>3. I \in SUBSET (0..(Slots - 1))
      OBVIOUS
    <3>4. IsFiniteSet(0..(Slots - 1)) /\ Cardinality(0..(Slots - 1)) = Slots
      BY <1>b, FS_Interval
    <3>5. Cardinality(I) <= Slots /\ Cardinality(I) \in Nat
      BY <3>3, <3>4, FS_Subset, FS_CardinalityType
    <3> QED
      BY <1>a, <1>b, <2>1, <3>2, <3>5 DEF TakesTurns, OtherOK
  <2>2. index' \in 0..(MaxOthers - 1) /\ turns' \in 0..Slots
    BY <1>a, <1>7, <2>1 DEF NextRound, OtherOK
  <2>3. faults' \in 0..MaxFaults
    BY <1>a, <1>b, <1>7 DEF NextRound, Fails, OtherOK
  <2>4. waited' \in Nat
    BY <1>a, <1>7 DEF NextRound, OtherOK
  <2> QED
    BY <1>a, <1>1, <1>7, <2>2, <2>3, <2>4 DEF NextRound, OtherOK
<1>8. CASE CheckGaps
  <2>1. PlaceOK'
    BY <1>a, <1>8 DEF CheckGaps, PlaceOK
  <2>2. window' \in (0..Horizon) \X (0..Horizon) /\ turns' \in 0..Slots
    BY <1>a, <1>b, <1>8 DEF CheckGaps, OtherOK
  <2> QED
    BY <1>a, <1>8, <2>1, <2>2 DEF CheckGaps, OtherOK
<1>9. CASE GapsFound
  <2>1. <<window>> \in Seq(Gap) /\ <<>> \in Seq(Gap)
    BY <1>a DEF OtherOK, Gap
  <2>2. AfterGap(<<window>>) \/ AfterGap(<<>>)
    BY <1>9, Zenon DEF GapsFound
  <2>3. PlaceOK'
    BY <2>1, <2>2, AfterGapType
  <2>4. faults' \in 0..MaxFaults
    BY <1>a, <1>b, <1>9 DEF GapsFound, Fails, OtherOK
  <2> QED
    BY <1>a, <1>9, <2>3, <2>4 DEF GapsFound, OtherOK
<1>10. CASE TakeGap
  <2>1. gaps \in Seq(Gap) /\ gaps # <<>>
    BY <1>a, <1>10 DEF TakeGap, PlaceOK
  <2>2. Tail(gaps) \in Seq(Gap)
    BY <2>1
  <2>3. AfterGap(Tail(gaps)) => PlaceOK'
    BY <2>2, AfterGapType
  <2>4. PlaceOK'
    BY <1>a, <1>10, <2>1, <2>3 DEF TakeGap, PlaceOK
  <2> QED
    BY <1>a, <1>10, <2>4 DEF TakeGap, OtherOK
<1>11. CASE Fetched
  <2>1. gaps \in Seq(Gap) /\ gaps # <<>> /\ Klines(gaps[1]) \in Seq(Row)
    BY <1>a, <1>11, KlinesType DEF Fetched, PlaceOK
  <2>2. AfterGap(Tail(gaps)) => PlaceOK'
    <3>1. Tail(gaps) \in Seq(Gap)
      BY <2>1
    <3> QED
      BY <3>1, AfterGapType
  <2>3. PlaceOK'
    BY <1>a, <1>11, <2>1, <2>2 DEF Fetched, PlaceOK
  <2>4. faults' \in 0..MaxFaults
    BY <1>a, <1>b, <1>11 DEF Fetched, Fails, OtherOK
  <2> QED
    BY <1>a, <1>11, <2>3, <2>4 DEF Fetched, OtherOK
<1>12. CASE RowChecked
  <2>1. gaps \in Seq(Gap) /\ gaps # <<>> /\ rows \in Seq(Row) /\ rows # <<>> /\ rows[1] \in Row
    BY <1>a, <1>12 DEF RowChecked, PlaceOK
  <2>2. AfterGap(Tail(gaps)) => PlaceOK'
    <3>1. Tail(gaps) \in Seq(Gap)
      BY <2>1
    <3> QED
      BY <3>1, AfterGapType
  <2>3. PlaceOK'
    <3>1. CASE Len(rows) > 1
      <4>1. Tail(rows) \in Seq(Row) /\ Tail(rows) # <<>>
        BY <2>1, <3>1, LongTail
      <4> QED
        BY <1>a, <1>12, <3>1, <4>1 DEF RowChecked, PlaceOK
    <3>2. CASE ~(Len(rows) > 1)
      BY <1>12, <2>2, <3>2 DEF RowChecked
    <3> QED
      BY <3>1, <3>2
  <2>4. queue' \in Seq(Row) /\ Len(queue') <= QueueCap
    BY <1>a, <1>12, <2>1, EnqueueType DEF RowChecked, OtherOK
  <2> QED
    BY <1>a, <1>12, <2>3, <2>4 DEF RowChecked, OtherOK
<1>13. CASE UNCHANGED vars
  BY <1>a, <1>1, <1>13 DEF vars, OtherOK
<1> QED
  BY <1>2, <1>3, <1>4, <1>5, <1>6, <1>7, <1>8, <1>9, <1>10, <1>11, <1>12, <1>13
     DEF Next, FeedStep, RecStep

\* The types of GapFill: the queue within its capacity, the symbol within its list, the
\* index within the longest one, and a gap in hand exactly while one is dealt with.
THEOREM TypeCorrect == Spec => []TypeOK
<1>1. Init => TypeOK
  BY TypeInit
<1>2. TypeOK /\ [Next]_vars => TypeOK'
  BY TypeStep
<1> QED
  BY <1>1, <1>2, PTL DEF Spec

-----------------------------------------------------------------------------
(* The round robin.                                                        *)

\* What a remainder is, and that a number of that form is the remainder.
LEMMA RemainderOf ==
  ASSUME NEW a \in Int, NEW n \in Nat \ {0}
  PROVE  /\ a % n \in 0..(n - 1)
         /\ \E q \in Int : a = n * q + (a % n)
<1>1. a = n * (a \div n) + (a % n) /\ a % n \in 0..(n - 1) /\ a \div n \in Int
  BY SMTT(20)
<1> QED
  BY <1>1

LEMMA OneRemainder ==
  ASSUME NEW n \in Nat \ {0}, NEW q \in Int, NEW r \in 0..(n - 1),
         NEW p \in Int, NEW s \in 0..(n - 1), n * q + r = n * p + s
  PROVE  r = s
<1>1. n * (q - p) = s - r
  OBVIOUS
<1>2. s - r < n /\ r - s < n
  OBVIOUS
<1>3. CASE q > p
  <2>1. n * (q - p - 1) >= 0
    BY <1>3
  <2> QED
    BY <1>1, <1>2, <2>1
<1>4. CASE q < p
  <2>1. n * (p - q - 1) >= 0
    BY <1>4
  <2> QED
    BY <1>1, <1>2, <2>1
<1>5. CASE q = p
  BY <1>1, <1>5
<1> QED
  BY <1>3, <1>4, <1>5

\* Steps around a circle add up.
LEMMA AroundInSteps ==
  ASSUME NEW a \in Int, NEW b \in Int, NEW n \in Nat \ {0}
  PROVE  ((a % n) + b) % n = (a + b) % n
<1> DEFINE m == a % n
           r == (m + b) % n
           s == (a + b) % n
<1>1. m \in 0..(n - 1)
  BY RemainderOf
<1>2. PICK u \in Int : a = n * u + m
  BY RemainderOf
<1> HIDE DEF m
<1>3. m + b \in Int /\ a + b \in Int
  BY <1>1
<1>4. r \in 0..(n - 1) /\ \E v \in Int : m + b = n * v + r
  BY <1>3, RemainderOf
<1>5. s \in 0..(n - 1) /\ \E w \in Int : a + b = n * w + s
  BY <1>3, RemainderOf
<1>6. PICK v \in Int : m + b = n * v + r
  BY <1>4
<1>7. PICK w \in Int : a + b = n * w + s
  BY <1>5
<1> HIDE DEF r, s
<1>8. n * (u + v) + r = n * w + s
  BY <1>1, <1>2, <1>4, <1>5, <1>6, <1>7
<1>9. r = s
  <2>1. u + v \in Int
    OBVIOUS
  <2> QED
    BY <1>4, <1>5, <1>8, <2>1, OneRemainder
<1> QED
  BY <1>9 DEF r, s, m

\* From any place on a circle there is a way to any other that is shorter than the circle.
LEMMA SomeWay ==
  ASSUME NEW i \in Nat, NEW n \in Nat \ {0}, NEW p \in 0..(n - 1)
  PROVE  \E d \in 0..(n - 1) : (i + d) % n = p
<1>1. PICK e \in Int : e + i = p
  <2>1. p - i \in Int /\ (p - i) + i = p
    OBVIOUS
  <2> QED
    BY <2>1
<1>2. PICK d \in 0..(n - 1) : d = e % n
  BY RemainderOf
<1>3. i \in Int
  OBVIOUS
<1>4. (d + i) % n = p % n
  BY <1>1, <1>2, <1>3, AroundInSteps
<1>5. p % n = p
  <2>1. p \in Int /\ p = n * 0 + p
    OBVIOUS
  <2>2. PICK q \in Int : p = n * q + (p % n)
    BY <2>1, RemainderOf
  <2>3. p % n \in 0..(n - 1)
    BY <2>1, RemainderOf
  <2> QED
    BY <2>1, <2>2, <2>3, OneRemainder
<1>6. i + d = d + i
  OBVIOUS
<1> QED
  BY <1>4, <1>5, <1>6

\* The symbol is so near to the index that its turn comes in time.
Near(i, n, p, w) == \E d \in Nat : (i + d) % n = p /\ w * Slots + d < n
OnTheWay == Near(index, others, place, waited)

\* Where no rounds have been waited for, any place is near enough.
LEMMA NearAtFirst ==
  ASSUME NEW i \in Nat, NEW n \in Nat \ {0}, NEW p \in 0..(n - 1)
  PROVE  Near(i, n, p, 0)
<1>1. PICK d \in 0..(n - 1) : (i + d) % n = p
  BY SomeWay
<1>2. d \in Nat /\ 0 * Slots + d < n
  BY RoundAssumption
<1> QED
  BY <1>1, <1>2 DEF Near

\* A round that does not reach the symbol brings it nearer by as many symbols as it checks.
LEMMA NearerByARound ==
  ASSUME NEW i \in Nat, NEW n \in Nat \ {0}, NEW p \in 0..(n - 1), NEW w \in Nat,
         Near(i, n, p, w), \A k \in 0..(Slots - 1) : (i + k) % n # p
  PROVE  Near((i + Slots) % n, n, p, w + 1)
<1>1. PICK d \in Nat : (i + d) % n = p /\ w * Slots + d < n
  BY DEF Near
<1>2. Slots \in Nat \ {0}
  BY RoundAssumption
<1>3. d >= Slots
  BY <1>1, <1>2
<1>4. PICK e \in Nat : d = Slots + e
  <2>1. d - Slots \in Nat /\ d = Slots + (d - Slots)
    BY <1>2, <1>3
  <2> QED
    BY <2>1
<1>5. (((i + Slots) % n) + e) % n = p
  <2>1. PICK a \in Int : a = i + Slots
    BY <1>2
  <2>2. a + e = i + d /\ e \in Int
    BY <1>2, <1>4, <2>1
  <2>3. ((a % n) + e) % n = (a + e) % n
    BY <2>2, AroundInSteps
  <2> QED
    BY <1>1, <2>1, <2>2, <2>3
<1>6. (w + 1) * Slots + e = w * Slots + d
  BY <1>1, <1>2, <1>4
<1> QED
  BY <1>1, <1>4, <1>5, <1>6 DEF Near

\* The inductive step: a round, or a change of the list, leaves the symbol near enough.
LEMMA WayStep == TypeOK /\ OnTheWay /\ [Next]_vars => OnTheWay'
<1> SUFFICES ASSUME TypeOK, OnTheWay, [Next]_vars PROVE OnTheWay'
  OBVIOUS
<1>a. /\ index \in Nat /\ others \in Nat \ {0} /\ place \in 0..(others - 1) /\ waited \in Nat
      /\ Slots \in Nat \ {0}
  BY RoundAssumption DEF TypeOK
<1> USE DEF listVars, roundVars, recVars
<1>1. CASE UNCHANGED <<index, others, place, waited>>
  BY <1>1 DEF OnTheWay
<1>2. CASE SymbolsChange
  <2>1. others' \in Nat \ {0} /\ place' \in 0..(others' - 1)
    BY <1>a, <1>2 DEF SymbolsChange, AddSymbols
  <2>2. index' = index /\ waited' = 0
    BY <1>2 DEF SymbolsChange
  <2> QED
    BY <1>a, <2>1, <2>2, NearAtFirst DEF OnTheWay
<1>3. CASE NextRound
  <2>1. CASE TakesTurns /\ waited' = (IF turns' > 0 THEN 0 ELSE waited + 1)
    <3> DEFINE I == {i \in 0..(Slots - 1) : (index + i) % others = place}
    <3>1. turns' = Cardinality(I) /\ index' = (index + Slots) % others /\ UNCHANGED <<others, place>>
      BY <1>3, <2>1 DEF NextRound, TakesTurns
    <3>2. IsFiniteSet(0..(Slots - 1)) /\ I \in SUBSET (0..(Slots - 1))
      BY <1>a, FS_Interval
    <3>3. IsFiniteSet(I) /\ Cardinality(I) \in Nat
      BY <3>2, FS_Subset, FS_CardinalityType, Zenon
    <3>4. index + Slots \in Int /\ index' \in Nat
      BY <1>a, <3>1, RemainderOf
    <3>5. CASE turns' > 0
      <4>1. waited' = 0
        BY <2>1, <3>5
      <4> QED
        BY <1>a, <3>1, <3>4, <4>1, NearAtFirst DEF OnTheWay
    <3>6. CASE ~(turns' > 0)
      <4>1. Cardinality(I) = 0 /\ waited' = waited + 1
        BY <2>1, <3>1, <3>3, <3>6
      <4>2. I = {}
        BY <3>3, <4>1, FS_EmptySet
      <4>3. \A k \in 0..(Slots - 1) : (index + k) % others # place
        BY <4>2
      <4>4. Near((index + Slots) % others, others, place, waited + 1)
        BY <1>a, <4>3, NearerByARound DEF OnTheWay
      <4> QED
        BY <3>1, <4>1, <4>4 DEF OnTheWay
    <3> QED
      BY <3>5, <3>6
  <2>2. CASE Fails /\ UNCHANGED roundVars
    BY <1>1, <1>3, <2>2 DEF NextRound
  <2> QED
    BY <1>3, <2>1, <2>2 DEF NextRound
<1> QED
  BY <1>1, <1>2, <1>3 DEF Next, vars, Tick, FeedStep, FeedNext, Flush, RecoverSymbolData,
       RecStep, CheckGaps, GapsFound, TakeGap, Fetched, RowChecked

\* _check_and_recover_gaps: for a list of any length and any number of symbols in a round,
\* a symbol has had its turn before the rounds since its last one have had room for the
\* whole list, as long as the list stays as it is.
THEOREM TurnsComeRound == Spec => []NobodyWaitsLong
<1>1. Init => OnTheWay
  <2> SUFFICES ASSUME Init PROVE OnTheWay
    OBVIOUS
  <2>1. index \in Nat /\ others \in Nat \ {0} /\ place \in 0..(others - 1) /\ waited = 0
    BY RoundAssumption DEF Init
  <2> QED
    BY <2>1, NearAtFirst DEF OnTheWay
<1>2. TypeOK /\ OnTheWay /\ [Next]_vars => OnTheWay'
  BY WayStep
<1>3. TypeOK /\ OnTheWay => NobodyWaitsLong
  <2> SUFFICES ASSUME TypeOK, OnTheWay PROVE waited * Slots < others
    BY DEF NobodyWaitsLong
  <2>1. PICK d \in Nat : waited * Slots + d < others
    BY DEF OnTheWay, Near
  <2>2. waited * Slots \in Nat /\ others \in Nat
    BY RoundAssumption DEF TypeOK
  <2> QED
    BY <2>1, <2>2
<1> QED
  BY <1>1, <1>2, <1>3, TypeCorrect, PTL DEF Spec

-----------------------------------------------------------------------------
(* The endpoint that reports on the recovery loop, whose theorems are few: *)
(* what the verdict of /health is, and type correctness, for any limits.   *)

CONSTANTS FailureLimit, StaleAfter

VARIABLES phase, enabled, publisher, bus, failures, published, running, looping, cycled,
          database, sockets, request, reply, answer

Health == INSTANCE HealthReport

\* LimitAssumption of HealthReport
HealthLimits == FailureLimit \in Nat /\ StaleAfter \in Nat

Verdicts == {"healthy", "degraded", "unhealthy"}

\* The age of a publish or a cycle stays within its range as time passes.
LEMMA OlderIsAge ==
  ASSUME HealthLimits, NEW age \in Health!Ages
  PROVE  Health!Older(age) \in Health!Ages
BY DEF HealthLimits, Health!Older, Health!Ages, Health!Never

LEMMA PartsReport ==
  ASSUME sockets \in Health!SubStatuses
  PROVE  {Health!DatabaseStatus, sockets, Health!RecoveryStatus, Health!NatsStatus} \subseteq Health!SubStatuses
<1>1. Health!DatabaseStatus \in Health!SubStatuses /\ Health!RecoveryStatus \in Health!SubStatuses
  BY DEF Health!DatabaseStatus, Health!RecoveryStatus, Health!SubStatuses
<1>2. Health!NatsStatus \in Health!SubStatuses
  BY DEF Health!NatsStatus, Health!SubStatuses
<1> QED
  BY <1>1, <1>2

\* health_check(): the verdict is that of the worst part, in whatever order _absorb gets
\* them: unhealthy exactly if one has failed, healthy exactly if all are ok.
THEOREM VerdictIsWorst ==
  ASSUME sockets \in Health!SubStatuses
  PROVE  LET parts == {Health!DatabaseStatus, sockets, Health!RecoveryStatus, Health!NatsStatus}
         IN  /\ Health!Verdict \in Verdicts
             /\ Health!Verdict = "unhealthy" <=> "failed" \in parts
             /\ Health!Verdict = "healthy" <=> parts = {"ok"}
<1>1. /\ Health!DatabaseStatus \in Health!SubStatuses /\ Health!RecoveryStatus \in Health!SubStatuses
      /\ Health!NatsStatus \in Health!SubStatuses
  BY PartsReport
<1> QED
  BY <1>1 DEF Health!Verdict, Health!Absorb, Verdicts, Health!SubStatuses

\* The types of HealthReport: the failure count stops just over its limit, and a
\* recovery service that says it runs has a loop.
THEOREM HealthTypeCorrect ==
  ASSUME HealthLimits
  PROVE  Health!Spec => []Health!TypeOK
<1> USE DEF Health!TypeOK
<1>1. Health!Init => Health!TypeOK
  <2> SUFFICES ASSUME Health!Init
               PROVE  Health!TypeOK
    OBVIOUS
  <2>1. failures \in 0..(FailureLimit + 1) /\ published \in Health!Ages /\ cycled \in Health!Ages
    BY DEF HealthLimits, Health!Init, Health!Ages, Health!Never
  <2>2. Health!LoopOK
    BY Zenon DEF Health!Init, Health!LoopOK
  <2> QED
    BY <2>1, <2>2 DEF Health!Init
<1>2. Health!TypeOK /\ [Health!Next]_(Health!vars) => Health!TypeOK'
  <2> SUFFICES ASSUME Health!TypeOK, [Health!Next]_(Health!vars)
               PROVE  Health!TypeOK'
    OBVIOUS
  <2> USE DEF Health!pubVars, Health!loopVars, Health!world, Health!probeVars
  <2>1. UNCHANGED <<running, looping>> => Health!LoopOK'
    BY DEF Health!LoopOK
  <2>2. CASE Health!SkipConnect \/ Health!ConnectOk \/ Health!ConnectRefused \/ Health!StreamRejected
    BY <2>1, <2>2 DEF Health!SkipConnect, Health!ConnectOk, Health!ConnectRefused, Health!StreamRejected, Health!Started
  <2>3. CASE Health!PublishOk
    BY <2>1, <2>3 DEF HealthLimits, Health!PublishOk, Health!Publishing, Health!Ages, Health!Never
  <2>4. CASE Health!PublishFails
    BY <2>1, <2>4 DEF HealthLimits, Health!PublishFails
  <2>5. CASE Health!ManagerReplaced
    BY <2>1, <2>5 DEF Health!ManagerReplaced
  <2>6. CASE Health!BusChanges
    BY <2>1, <2>6 DEF Health!BusChanges
  <2>7. CASE Health!Shutdown
    <3>1. Health!LoopOK'
      BY <2>7, Zenon DEF Health!Shutdown, Health!LoopOK
    <3> QED
      BY <2>7, <3>1 DEF Health!Shutdown
  <2>8. CASE Health!LoopStarts
    <3>1. Health!LoopOK'
      BY <2>8, Zenon DEF Health!LoopStarts, Health!LoopOK
    <3> QED
      BY <2>8, <3>1 DEF Health!LoopStarts
  <2>9. CASE Health!LoopStops
    <3>1. Health!LoopOK'
      BY <2>9, Zenon DEF Health!LoopStops, Health!LoopOK
    <3> QED
      BY <2>9, <3>1 DEF Health!LoopStops
  <2>10. CASE Health!CycleEnds
    BY <2>1, <2>10 DEF HealthLimits, Health!CycleEnds, Health!Ages, Health!Never
  <2>11. CASE Health!LoopEnds
    <3>1. Health!LoopOK'
      BY <2>11, Zenon DEF Health!LoopEnds, Health!LoopOK
    <3> QED
      BY <2>11, <3>1 DEF Health!LoopEnds
  <2>12. CASE Health!WorldChanges
    <3>1. database' \in BOOLEAN /\ sockets' \in Health!SubStatuses
      BY <2>12 DEF Health!WorldChanges
    <3> QED
      BY <2>1, <2>12, <3>1 DEF Health!WorldChanges
  <2>13. CASE Health!Tick
    BY <2>1, <2>13, OlderIsAge DEF Health!Tick
  <2>14. CASE Health!Asks
    BY <2>1, <2>14 DEF Health!Asks
  <2>15. CASE Health!DatabaseReplies
    BY <2>1, <2>15 DEF Health!DatabaseReplies
  <2>16. CASE Health!Answers
    <3>1. Health!Verdict \in Verdicts
      BY VerdictIsWorst
    <3> QED
      BY <2>1, <2>16, <3>1 DEF Health!Answers, Verdicts
  <2>17. CASE UNCHANGED Health!vars
    BY <2>1, <2>17 DEF Health!vars
  <2> QED
    BY <2>2, <2>3, <2>4, <2>5, <2>6, <2>7, <2>8, <2>9, <2>10, <2>11, <2>12, <2>13, <2>14,
       <2>15, <2>16, <2>17 DEF Health!Next
<1> QED
  BY <1>1, <1>2, PTL DEF Health!Spec
=============================================================================

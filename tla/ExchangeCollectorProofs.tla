----------------------- MODULE ExchangeCollectorProofs -----------------------
(***************************************************************************)
(* Proofs about ExchangeCollector.  However many workers, old and new,     *)
(* share the limiter, the rate is kept: whatever the collector does, the   *)
(* limiter makes a step of its own or none, and its lists, which may lag   *)
(* behind the time, have every request still within its window.  And the   *)
(* history is whole: as long as no stop() meets a start() that loads the   *)
(* markets only the crew that stop() would cancel collects, and without    *)
(* streams what its worker asks for and receives continues what is stored. *)
(***************************************************************************)
EXTENDS ExchangeCollector, FiniteSetTheorems, WellFoundedInduction, TLAPS

\* the requests granted within the window
Recent(window) == {r \in Tokens : age[r] < window}

RecentIsListed == Recent(Minute) \subseteq minuteRequests /\ Recent(Second) \subseteq secondRequests

IInv == LimiterTypeOK /\ RecentIsListed /\ WithinRate

-----------------------------------------------------------------------------
\* A part of a finite set is no larger.
LEMMA RecentIsFinite ==
  ASSUME NEW w PROVE IsFiniteSet(Recent(w)) /\ Cardinality(Recent(w)) \in Nat
  BY TokenAssumption, FS_Subset, FS_CardinalityType DEF Recent

\* An identity that is a Minute old is there to be used again.
LEMMA UnusedExists == ASSUME IInv PROVE Unused \in Tokens /\ age[Unused] = Minute
<1>1. Recent(Minute) # Tokens
  BY TokenAssumption, RecentIsFinite DEF IInv, WithinRate, Recent
<1>2. \E r \in Tokens : age[r] = Minute
  BY <1>1, WindowAssumption DEF IInv, LimiterTypeOK, Recent
<1> QED
  BY <1>2 DEF Unused

\* A permit is given only when the requests still within a window leave room for it.
LEMMA RoomForOne ==
  ASSUME NEW requests, requests \subseteq Tokens, NEW w, Recent(w) \subseteq requests,
         NEW n \in Nat, Cardinality(Within(requests, w)) < n
  PROVE  Cardinality(Recent(w)) < n
<1>1. Within(requests, w) = Recent(w)
  BY DEF Within, Recent
<1> QED
  BY <1>1

-----------------------------------------------------------------------------
LEMMA InitHolds == Init => IInv
<1> SUFFICES ASSUME Init PROVE IInv
  OBVIOUS
<1>1. LimiterTypeOK
  BY WindowAssumption DEF Init, LimiterInit, LimiterTypeOK
<1>2. Recent(Minute) = {} /\ Recent(Second) = {}
  BY WindowAssumption DEF Init, LimiterInit, Recent
<1>3. WithinRate
  BY <1>2, FS_EmptySet, TokenAssumption, RateAssumption DEF WithinRate, Recent
<1> QED
  BY <1>1, <1>2, <1>3 DEF IInv, RecentIsListed

LEMMA TickHolds == ASSUME IInv, Tick PROVE IInv'
<1>1. age \in [Tokens -> 0..Minute] /\ Minute \in Nat /\ Second \in Nat
  BY WindowAssumption DEF IInv, LimiterTypeOK
<1>2. age' \in [Tokens -> 0..Minute] /\ \A r \in Tokens : age'[r] >= age[r]
  BY <1>1 DEF Tick
<1>3. Recent(Minute)' \subseteq Recent(Minute) /\ Recent(Second)' \subseteq Recent(Second)
  BY <1>1, <1>2 DEF Recent
<1>4. LimiterTypeOK' /\ RecentIsListed'
  BY <1>2, <1>3 DEF IInv, LimiterTypeOK, RecentIsListed, Tick
<1>5. /\ Cardinality(Recent(Minute)') <= Cardinality(Recent(Minute))
      /\ Cardinality(Recent(Second)') <= Cardinality(Recent(Second))
  BY <1>3, RecentIsFinite, FS_Subset
<1>6. /\ Cardinality(Recent(Minute)') \in Nat /\ Cardinality(Recent(Second)') \in Nat
      /\ Cardinality(Recent(Minute)) \in Nat /\ Cardinality(Recent(Second)) \in Nat
  BY <1>3, RecentIsFinite, FS_Subset, FS_CardinalityType
<1>7. WithinRate'
  BY <1>5, <1>6, TokenAssumption, RateAssumption DEF IInv, WithinRate, Recent
<1> QED
  BY <1>4, <1>7 DEF IInv

LEMMA GrantHolds == ASSUME IInv, Grant PROVE IInv'
<1>1. Unused \in Tokens
  BY UnusedExists
<1>2. age \in [Tokens -> 0..Minute] /\ Minute \in Nat /\ Second \in 1..Minute
      /\ minuteRequests \subseteq Tokens /\ secondRequests \subseteq Tokens
  BY WindowAssumption DEF IInv, LimiterTypeOK
<1>3. age' = [age EXCEPT ![Unused] = 0]
      /\ minuteRequests' = Within(minuteRequests, Minute) \cup {Unused}
      /\ secondRequests' = Within(secondRequests, Second) \cup {Unused}
  BY DEF Grant
<1>4. LimiterTypeOK'
  BY <1>1, <1>2, <1>3 DEF LimiterTypeOK, Within
<1>5. /\ Recent(Minute)' \subseteq Recent(Minute) \cup {Unused}
      /\ Recent(Second)' \subseteq Recent(Second) \cup {Unused}
  BY <1>1, <1>2, <1>3 DEF Recent
<1>6. RecentIsListed'
  BY <1>2, <1>3, <1>5 DEF IInv, RecentIsListed, Recent, Within
<1>7. Cardinality(Recent(Minute)) < Rpm /\ Cardinality(Recent(Second)) < Rps
  BY <1>2, RoomForOne, TokenAssumption, RateAssumption DEF Grant, SlotsFree, IInv, RecentIsListed
<1>8. ASSUME NEW S, NEW R, IsFiniteSet(R), S \subseteq R \cup {Unused}, NEW n \in Nat, Cardinality(R) < n
      PROVE  Cardinality(S) <= n
  <2>1. IsFiniteSet(R \cup {Unused}) /\ Cardinality(R \cup {Unused}) <= Cardinality(R) + 1
    BY <1>8, FS_AddElement, FS_CardinalityType
  <2>2. IsFiniteSet(S) /\ Cardinality(S) <= Cardinality(R \cup {Unused})
    BY <1>8, <2>1, FS_Subset
  <2> QED
    BY <1>8, <2>1, <2>2, FS_CardinalityType
<1>9. Cardinality(Recent(Minute)') <= Rpm /\ Cardinality(Recent(Second)') <= Rps
  BY <1>5, <1>7, <1>8, RecentIsFinite, TokenAssumption, RateAssumption
<1>10. WithinRate'
  BY <1>9 DEF WithinRate, Recent
<1> QED
  BY <1>4, <1>6, <1>10 DEF IInv

LEMMA RefusalHolds == ASSUME IInv, Refusal PROVE IInv'
<1>1. LimiterTypeOK' /\ RecentIsListed'
  BY DEF IInv, Refusal, LimiterTypeOK, RecentIsListed, Recent, Within
<1>2. WithinRate'
  BY DEF IInv, Refusal, WithinRate
<1> QED
  BY <1>1, <1>2 DEF IInv

LEMMA StutterHolds == ASSUME IInv, UNCHANGED limiterVars PROVE IInv'
  BY DEF IInv, limiterVars, LimiterTypeOK, RecentIsListed, Recent, WithinRate

\* Whatever the collector does, the limiter makes a step of its own or none.
LEMMA StepsOfLimiter == ASSUME [Next]_vars PROVE LimiterNext \/ UNCHANGED limiterVars
<1>1. CASE UNCHANGED vars
  BY <1>1 DEF vars
<1>2. ASSUME NEW c, StartBegins(c) \/ StopBegins(c) \/ CallerStep(c)
      PROVE  UNCHANGED limiterVars
  BY <1>2 DEF StartBegins, StopBegins, CallerStep, Loaded, StopEnds
<1>3. ASSUME NEW g \in Runs, CollectorStep(g) \/ Subscribe(g) \/ \E p \in Pair : QualityCheck(g, p)
      PROVE  UNCHANGED limiterVars
  BY <1>3 DEF CollectorStep, Collects, ShouldUpdate, Ask, Reply, Save, UpdateCache, CollectFails,
              Subscribe, QualityCheck
<1>4. ASSUME NEW g \in Runs, NEW k \in Kinds, Quotes(g, k) \/ LimiterStep(g, k) \/ Ends(g, k)
      PROVE  LimiterNext \/ UNCHANGED limiterVars
  BY <1>4 DEF Quotes, LimiterStep, NextPair, Polls, Ends, LimiterNext
<1>5. ASSUME NEW n \in Rounds, NEW p \in Pair, WatcherStep(n, p) PROVE UNCHANGED limiterVars
  BY <1>5 DEF WatcherStep, Watches, Update, Process, WatchFails
<1>6. CASE CandleCloses \/ \E p \in Pair : Ages(p)
  BY <1>6 DEF CandleCloses, Ages
<1>7. CASE TimePasses
  BY <1>7 DEF TimePasses, LimiterNext
<1> QED
  BY <1>1, <1>2, <1>3, <1>4, <1>5, <1>6, <1>7 DEF Next

-----------------------------------------------------------------------------
\* No window of a minute or of a second has more grants than its limit, for any number
\* of pairs, workers and restarts.
THEOREM RateIsKept == Spec => []WithinRate
<1>1. Init => IInv
  BY InitHolds
<1>2. IInv /\ [Next]_vars => IInv'
  BY StepsOfLimiter, TickHolds, GrantHolds, RefusalHolds, StutterHolds DEF LimiterNext
<1>3. IInv => WithinRate
  BY DEF IInv
<1> QED
  BY <1>1, <1>2, <1>3, PTL DEF Spec

-----------------------------------------------------------------------------
(* The history of a pair, without watchers.                                *)

\* The history is collected.
CollectsHistory == "ohlcv" \in Kinds

Collecting(g) == work[g]["ohlcv"].at # "ended"

\* Only the crew that tasks lists collects, and it is gone when a start() begins.
OneCrew ==
  /\ \A g \in Runs : Collecting(g) => g = tasks /\ running
  /\ \A c \in Callers : caller[c] = "load" =>
       /\ running /\ \A g \in Runs : ~Collecting(g)
       /\ \A d \in Callers : caller[d] = "load" => d = c

CrewInv ==
  /\ caller \in [Callers -> {"idle", "load", "close"}]
  /\ ~interrupted => OneCrew

\* The places of a worker, and what is kept of it.
Places == {"ended", "top", "check", "limit", "last", "fetch", "save", "cache"}
Worker == [at : Places, pair : Nat, from : Nat, to : Nat, seen : Nat]

\* The types of what collects the history.
HistTypes ==
  /\ now \in Nat /\ pairs \in 0..Pairs
  /\ rows \in [Pair -> [Candle -> {"none", "open", "final"}]]
  /\ work \in [Runs -> [Kinds -> Worker]]
  /\ \A g \in Runs : work[g]["ohlcv"].pair \in Pair
  /\ \A g \in Runs : "socket" \in Kinds => work[g]["socket"].at \in {"top", "ended"}

\* Nothing watches, and nothing will.
NothingWatches ==
  /\ \A n \in Rounds, p \in Pair : watcher[n][p].at = "ended"
  /\ \A g \in Runs : "socket" \in Kinds => work[g]["socket"].at = "ended"

\* The candle k is the last one stored, if there is any.
Continues(p, k) == Stored(p) # {} => k \in Stored(p) /\ \A l \in Stored(p) : l <= k

\* What the worker has asked for, and what it has received, continues the table.
Asks(w) == w.at \in {"fetch", "save"} => Continues(w.pair, w.from)
Received(w) == w.at = "save" => w.from <= w.to /\ w.to <= w.seen

\* What holds of an exchange without streams.
Watchless ==
  /\ NothingWatches /\ \A p \in Pair : Whole(p)
  /\ \A g \in Runs : Asks(work[g]["ohlcv"]) /\ Received(work[g]["ohlcv"])

\* Nothing has spoiled the history.
Plain == ~interrupted /\ "watchOHLCV" \notin has

\* The inductive invariant of the history, beside CrewInv.
HistInv == HistTypes /\ (Plain => Watchless)

-----------------------------------------------------------------------------
\* Every nonempty set of natural numbers has a least element.
LEMMA LeastNatural ==
  ASSUME NEW T, T \subseteq Nat, T # {}
  PROVE  \E x \in T : \A y \in T : x <= y
<1> DEFINE LessThan == OpToRel(<, Nat)
<1>1. IsWellFoundedOn(LessThan, Nat)
  BY NatLessThanWellFounded
<1>2. ASSUME NEW x \in Nat, NEW y \in Nat, <<x, y>> \notin LessThan PROVE y <= x
  <2>1. ~(x < y)
    BY <1>2 DEF OpToRel
  <2> QED
    BY <2>1
<1> HIDE DEF LessThan
<1>3. PICK x \in T : \A y \in T : <<y, x>> \notin LessThan
  BY <1>1, WFMin
<1>4. \A y \in T : x <= y
  BY <1>2, <1>3
<1> QED
  BY <1>4

\* A nonempty set of candles has a last one: the least bound of it.
LEMMA LastCandle ==
  ASSUME NEW S, S \subseteq Candle, S # {}
  PROVE  Max(S) \in S /\ \A k \in S : k <= Max(S)
<1> DEFINE Bounds == {n \in Nat : \A k \in S : k <= n}
<1>1. S \subseteq 0..Newest /\ Newest \in Nat
  BY CandleAssumption DEF Candle
<1>2. Newest \in Bounds /\ Bounds \subseteq Nat
  BY <1>1
<1>3. PICK n \in Bounds : \A m \in Bounds : n <= m
  BY <1>2, LeastNatural
<1>4. n \in S
  <2> SUFFICES ASSUME n \notin S PROVE FALSE
    OBVIOUS
  <2>1. \A k \in S : k \in Nat /\ k < n
    BY <1>1, <1>3
  <2>2. n - 1 \in Nat
    BY <2>1, <1>3
  <2>3. n - 1 \in Bounds
    BY <2>1, <2>2, <1>3
  <2> QED
    BY <1>3, <2>3
<1>5. \E x \in S : \A y \in S : x >= y
  BY <1>1, <1>3, <1>4
<1>6. Max(S) \in S /\ \A y \in S : Max(S) >= y
  BY <1>5, Zenon DEF Max
<1> QED
  BY <1>1, <1>6

\* Beside a worker that collects the others rest.
LEMMA OtherRests ==
  ASSUME CrewInv, ~interrupted, NEW g \in Runs, Collecting(g), NEW h \in Runs, h # g
  PROVE  work[h]["ohlcv"].at = "ended"
  BY DEF CrewInv, OneCrew, Collecting

\* One entry of the table of workers is set.
LEMMA WorkerSet ==
  ASSUME HistTypes, NEW g \in Runs, NEW k \in Kinds, NEW w \in Worker, work' = [work EXCEPT ![g][k] = w],
         k = "ohlcv" => w.pair \in Pair
  PROVE  /\ work' \in [Runs -> [Kinds -> Worker]]
         /\ \A h \in Runs : CollectsHistory => work'[h]["ohlcv"].pair \in Pair
         /\ \A h \in Runs, j \in Kinds : work'[h][j] = IF h = g /\ j = k THEN w ELSE work[h][j]
  BY DEF HistTypes, CollectsHistory

\* Workers that go on leave the history as it is, unless they fetch.
LEMMA HistKept ==
  ASSUME HistInv, HistTypes', UNCHANGED <<rows, watcher, has>>, ~interrupted' => ~interrupted,
         \A g \in Runs :
           /\ \/ work'[g]["ohlcv"].at \notin {"fetch", "save"}
              \/ work'[g]["ohlcv"] = work[g]["ohlcv"]
           /\ "watchOHLCV" \notin has /\ "socket" \in Kinds =>
                work'[g]["socket"].at = "ended" \/ work'[g]["socket"] = work[g]["socket"]
  PROVE  HistInv'
<1> SUFFICES ASSUME Plain' PROVE Watchless'
  BY DEF HistInv
<1>1. Watchless
  BY DEF HistInv, Plain
<1>2. NothingWatches' /\ \A p \in Pair : Whole(p)'
  BY <1>1 DEF Watchless, NothingWatches, Whole, Plain
<1>3. ASSUME NEW g \in Runs PROVE Asks(work[g]["ohlcv"])' /\ Received(work[g]["ohlcv"])'
  BY <1>1 DEF Watchless, Asks, Received, Continues, Stored
<1> QED
  BY <1>2, <1>3 DEF Watchless

\* A reply that continues the table keeps it whole.
LEMMA SavedIsWhole ==
  ASSUME HistTypes, \A p \in Pair : Whole(p), NEW r \in Worker, r.pair \in Pair,
         Continues(r.pair, r.from), r.from <= r.to, r.to <= r.seen,
         rows' = [rows EXCEPT ![r.pair] = Upserted(@, r)]
  PROVE  /\ rows' \in [Pair -> [Candle -> {"none", "open", "final"}]]
         /\ \A p \in Pair : Whole(p)'
<1>1. PICK q \in Pair : q = r.pair
  OBVIOUS
<1>2. PICK from \in Nat, to \in Nat, seen \in Nat : from = r.from /\ to = r.to /\ seen = r.seen
  BY DEF Worker
<1>3. Candle \subseteq Nat
  BY CandleAssumption DEF Candle
<1>4. PICK new : new = Upserted(rows[q], r)
  OBVIOUS
<1>5. /\ new \in [Candle -> {"none", "open", "final"}]
      /\ \A k \in Candle : new[k] = IF from <= k /\ k <= to THEN IF k < seen THEN "final" ELSE "open"
                                    ELSE rows[q][k]
  BY <1>2, <1>3, <1>4 DEF Upserted, HistTypes
<1>6. rows' = [rows EXCEPT ![q] = new]
  BY <1>1, <1>4
<1>7. /\ rows' \in [Pair -> [Candle -> {"none", "open", "final"}]]
      /\ \A p \in Pair : rows'[p] = IF p = q THEN new ELSE rows[p]
  BY <1>5, <1>6 DEF HistTypes
<1>8. ASSUME NEW k \in Candle, NEW l \in Candle, new[k] # "none", new[l] # "none", NEW m \in k..(l - 1)
      PROVE  new[m] = "final"
  <2>1. k \in Nat /\ l \in Nat /\ m \in Candle /\ k <= m /\ m < l /\ from <= to /\ to <= seen
    BY <1>2, <1>3, <1>8, CandleAssumption DEF Candle
  <2>2. \A j \in Candle : rows[q][j] # "none" =>
          j <= from /\ from \in Candle /\ rows[q][from] # "none"
    BY <1>1, <1>2 DEF Continues, Stored
  <2>3. m <= to
    BY <1>3, <1>5, <1>8, <2>1, <2>2
  <2>4. CASE from <= m
    <3>1. m # to
      BY <1>3, <1>5, <1>8, <2>1, <2>2, <2>4
    <3> QED
      BY <1>5, <2>1, <2>3, <2>4, <3>1
  <2>5. CASE m < from
    <3>1. rows[q][k] # "none"
      BY <1>5, <1>8, <2>1, <2>5
    <3>2. m \in k..(from - 1) /\ from \in Candle /\ rows[q][from] # "none"
      BY <2>1, <2>2, <2>5, <3>1
    <3>3. rows[q][m] = "final"
      BY <3>1, <3>2 DEF Whole
    <3> QED
      BY <1>5, <2>1, <2>5, <3>3
  <2> QED
    BY <2>1, <2>4, <2>5
<1>9. \A p \in Pair : Whole(p)'
  BY <1>7, <1>8 DEF Whole
<1> QED
  BY <1>7, <1>9

\* A save by a worker that has received, with which it leaves.
LEMMA SaveKept ==
  ASSUME HistInv, CollectsHistory, CrewInv, NEW g \in Runs, work[g]["ohlcv"].at = "save",
         rows' = Saved(g, work[g]["ohlcv"].pair), UNCHANGED <<has, now, pairs, watcher>>,
         ~interrupted' => ~interrupted, \A h \in Runs : h # g => work'[h] = work[h],
         work' \in [Runs -> [Kinds -> Worker]], work'[g]["ohlcv"].at \notin {"fetch", "save"},
         work'[g]["ohlcv"].pair \in Pair,
         "socket" \in Kinds => work'[g]["socket"].at \in {"top", "ended"},
         Plain /\ "socket" \in Kinds => work'[g]["socket"].at = "ended"
  PROVE  HistInv'
<1>1. PICK r \in Worker : r = work[g]["ohlcv"]
  BY DEF HistInv, HistTypes, CollectsHistory
<1>2. rows' = [rows EXCEPT ![r.pair] = Upserted(@, r)] /\ r.pair \in Pair
  BY <1>1 DEF Saved, HistInv, HistTypes
<1>3. rows' \in [Pair -> [Candle -> {"none", "open", "final"}]]
  BY <1>2 DEF Upserted, HistInv, HistTypes
<1>4. HistTypes'
  BY <1>3 DEF HistInv, HistTypes, CollectsHistory
<1>5. ASSUME Plain' PROVE Watchless'
  <2>1. Watchless
    BY <1>5 DEF HistInv, Plain
  <2>2. Continues(r.pair, r.from) /\ r.from <= r.to /\ r.to <= r.seen
    BY <1>1, <2>1 DEF Watchless, Asks, Received
  <2>3. \A p \in Pair : Whole(p)'
    BY <1>2, <2>1, <2>2, SavedIsWhole DEF HistInv, Watchless
  <2>4. NothingWatches'
    BY <1>5, <2>1 DEF Watchless, NothingWatches, Plain
  <2>5. \A h \in Runs : work'[h]["ohlcv"].at \notin {"fetch", "save"}
    BY <1>5, OtherRests DEF Plain, Collecting
  <2>6. \A h \in Runs : Asks(work[h]["ohlcv"])' /\ Received(work[h]["ohlcv"])'
    BY <2>5 DEF Asks, Received
  <2> QED
    BY <2>3, <2>4, <2>6 DEF Watchless
<1> QED
  BY <1>4, <1>5 DEF HistInv

-----------------------------------------------------------------------------
\* A worker goes to a place other than fetch and save.
LEMMA WorkerGoes ==
  ASSUME HistInv, CollectsHistory, CrewInv, NEW g \in Runs, NEW k \in Kinds, NEW w \in Worker,
         work' = [work EXCEPT ![g][k] = w], w.at \notin {"fetch", "save"},
         k = "ohlcv" => w.pair \in Pair, k = "socket" => w.at = "ended",
         UNCHANGED <<rows, watcher, has, now, pairs, interrupted>>
  PROVE  HistInv'
<1>1. HistTypes
  BY DEF HistInv
<1>2. /\ work' \in [Runs -> [Kinds -> Worker]]
      /\ \A h \in Runs : work'[h]["ohlcv"].pair \in Pair
      /\ \A h \in Runs, j \in Kinds : work'[h][j] = IF h = g /\ j = k THEN w ELSE work[h][j]
  BY <1>1, WorkerSet
<1>3. HistTypes'
  BY <1>1, <1>2 DEF HistTypes, CollectsHistory
<1> QED
  BY <1>2, <1>3, HistKept DEF CollectsHistory

\* What start() makes: no worker of it has begun, and without streams there is no socket.
LEMMA LoadedHolds ==
  ASSUME HistInv, CollectsHistory, CrewInv, NEW c, NEW ok \in BOOLEAN, Loaded(c, ok) PROVE HistInv'
<1>1. PICK g \in Runs : work' = [work EXCEPT ![g] = Crew]
  BY DEF Loaded, Free
<1>2. /\ Gone \in Worker /\ Top \in Worker /\ Gone.at = "ended" /\ Top.at = "top"
      /\ Gone.pair \in Pair /\ Top.pair \in Pair
  BY PairAssumption DEF Gone, Top, At, Worker, Places, Pair
<1>3. /\ Crew \in [Kinds -> Worker] /\ Crew["ohlcv"] = Top
      /\ "socket" \in Kinds => Crew["socket"] \in {Gone, Top}
      /\ "watchOHLCV" \notin has /\ "socket" \in Kinds => Crew["socket"] = Gone
  BY <1>2 DEF Crew, CollectsHistory
<1>4. /\ work' \in [Runs -> [Kinds -> Worker]]
      /\ \A h \in Runs : work'[h] = IF h = g THEN Crew ELSE work[h]
  BY <1>1, <1>3 DEF HistInv, HistTypes, CollectsHistory
<1>5. pairs' \in 0..Pairs /\ UNCHANGED <<rows, watcher, has, now, interrupted>>
  BY PairAssumption DEF Loaded, dataVars
<1>6. HistTypes'
  BY <1>2, <1>3, <1>4, <1>5 DEF HistInv, HistTypes
<1> QED
  BY <1>2, <1>3, <1>4, <1>5, <1>6, HistKept

\* stop() cancels the worker, whose save may still be done.
LEMMA StopHolds ==
  ASSUME HistInv, CollectsHistory, CrewInv, NEW c, StopBegins(c) PROVE HistInv'
<1>1. /\ Gone \in Worker /\ Gone.at = "ended" /\ Gone.pair \in Pair
  BY PairAssumption DEF Gone, At, Worker, Places, Pair
<1>2. /\ UNCHANGED <<pairs, watcher, has, now>> /\ (~interrupted' => ~interrupted)
      /\ work' = [g \in Runs |-> IF g = tasks THEN [k \in Kinds |-> Gone] ELSE work[g]]
  BY DEF StopBegins
<1>3. /\ work' \in [Runs -> [Kinds -> Worker]]
      /\ \A g \in Runs, k \in Kinds : work'[g][k] = IF g = tasks THEN Gone ELSE work[g][k]
  BY <1>1, <1>2 DEF HistInv, HistTypes
<1>4. \A g \in Runs : work'[g]["ohlcv"].pair \in Pair
  BY <1>1, <1>3 DEF HistInv, HistTypes, CollectsHistory
<1>5. CASE UNCHANGED rows
  <2>1. HistTypes'
    BY <1>1, <1>2, <1>3, <1>4, <1>5 DEF HistInv, HistTypes
  <2> QED
    BY <1>1, <1>2, <1>3, <1>5, <2>1, HistKept DEF CollectsHistory
<1>6. ASSUME NEW g \in Runs, g = tasks, work[g]["ohlcv"].at = "save",
             rows' = Saved(g, work[g]["ohlcv"].pair)
      PROVE  HistInv'
  <2>1. /\ work'[g]["ohlcv"] = Gone /\ ("socket" \in Kinds => work'[g]["socket"] = Gone)
        /\ \A h \in Runs : h # g => work'[h] = work[h]
    BY <1>2, <1>3, <1>6 DEF CollectsHistory
  <2> QED
    BY <1>1, <1>2, <1>3, <1>6, <2>1, SaveKept
<1> QED
  BY <1>5, <1>6 DEF StopBegins

\* The exchange is closed: a worker that awaits its reply goes on to the next pair.
LEMMA StopEndsHolds ==
  ASSUME HistInv, CollectsHistory, CrewInv, NEW c, StopEnds(c) PROVE HistInv'
<1>1. UNCHANGED <<pairs, rows, has, now, interrupted>>
  BY DEF StopEnds, dataVars
<1>2. ASSUME NEW g \in Runs PROVE At("limit", work[g]["ohlcv"].pair) \in Worker
  BY DEF HistInv, HistTypes, At, Worker, Places, Pair
<1>3. \A g \in Runs :
        \/ work'[g] = [work[g] EXCEPT !["ohlcv"] = At("limit", work[g]["ohlcv"].pair)]
        \/ work'[g] = work[g] /\ work[g]["ohlcv"].at # "fetch"
  BY DEF StopEnds
<1>4. work' \in [Runs -> [Kinds -> Worker]]
  <2>1. work' = [g \in Runs |-> work'[g]]
    BY DEF StopEnds
  <2>2. \A g \in Runs : work'[g] \in [Kinds -> Worker]
    BY <1>2, <1>3 DEF HistInv, HistTypes
  <2> QED
    BY <2>1, <2>2
<1>5. \A g \in Runs :
        \/ work'[g]["ohlcv"] = At("limit", work[g]["ohlcv"].pair)
        \/ work'[g]["ohlcv"] = work[g]["ohlcv"]
  BY <1>3 DEF HistInv, HistTypes, CollectsHistory
<1>6. \A g \in Runs : "socket" \in Kinds => work'[g]["socket"] = work[g]["socket"]
  BY <1>3 DEF HistInv, HistTypes
<1>7. HistTypes'
  <2>1. \A n : At("limit", n).pair = n
    BY DEF At
  <2>2. \A g \in Runs : work'[g]["ohlcv"].pair = work[g]["ohlcv"].pair
    BY <1>5, <2>1
  <2> QED
    BY <1>1, <1>4, <1>6, <2>2 DEF HistInv, HistTypes
<1>8. ASSUME Plain' PROVE Watchless'
  <2>1. Watchless
    BY <1>1, <1>8 DEF HistInv, Plain
  <2>2. NothingWatches'
    <3>1. \A n \in Rounds, p \in Pair : watcher'[n][p].at = "ended"
      BY <2>1 DEF StopEnds, Watchless, NothingWatches
    <3> QED
      BY <1>6, <2>1, <3>1 DEF Watchless, NothingWatches
  <2>3. \A p \in Pair : Whole(p)'
    BY <1>1, <2>1 DEF Watchless, Whole
  <2>4. ASSUME NEW g \in Runs PROVE Asks(work[g]["ohlcv"])' /\ Received(work[g]["ohlcv"])'
    <3>1. CASE work'[g]["ohlcv"] = work[g]["ohlcv"]
      BY <1>1, <2>1, <3>1 DEF Watchless, Asks, Received, Continues, Stored
    <3>2. CASE work'[g]["ohlcv"] = At("limit", work[g]["ohlcv"].pair)
      <4>1. work'[g]["ohlcv"].at = "limit"
        BY <3>2 DEF At
      <4> QED
        BY <4>1 DEF Asks, Received
    <3> QED
      BY <1>5, <3>1, <3>2
  <2> QED
    BY <2>2, <2>3, <2>4 DEF Watchless
<1> QED
  BY <1>1, <1>7, <1>8 DEF HistInv

-----------------------------------------------------------------------------
\* The worker asks for the candles from the last one stored on.
LEMMA AskHolds ==
  ASSUME HistInv, CollectsHistory, CrewInv, NEW g \in Runs, Ask(g) PROVE HistInv'
<1>1. PICK w \in Worker : w = work[g]["ohlcv"]
  BY DEF HistInv, HistTypes, CollectsHistory
<1>2. PICK p \in Pair : p = w.pair
  BY <1>1 DEF HistInv, HistTypes
<1>3. PICK from : from = IF Stored(p) # {} THEN Max(Stored(p)) ELSE IF now > Days THEN now - Days ELSE 0
  OBVIOUS
<1>4. from \in Nat /\ Continues(p, from)
  <2>1. Stored(p) \subseteq Candle /\ Candle \subseteq Nat
    BY CandleAssumption DEF Stored, Candle
  <2>2. CASE Stored(p) # {}
    BY <1>3, <2>1, <2>2, LastCandle DEF Continues
  <2>3. CASE Stored(p) = {}
    BY <1>3, <2>3, CandleAssumption DEF Continues, HistInv, HistTypes
  <2> QED
    BY <2>2, <2>3
<1>5. /\ work' = [work EXCEPT ![g]["ohlcv"].at = "fetch", ![g]["ohlcv"].from = from]
      /\ UNCHANGED <<rows, watcher, has, now, pairs, interrupted>>
  BY <1>1, <1>2, <1>3 DEF Ask, Others, lifeVars, dataVars
<1>6. PICK v \in Worker : v = [w EXCEPT !.at = "fetch", !.from = from]
  BY <1>4 DEF Worker, Places
<1>7. work' = [work EXCEPT ![g]["ohlcv"] = v]
  BY <1>1, <1>5, <1>6 DEF HistInv, HistTypes, CollectsHistory, Worker
<1>8. v.at = "fetch" /\ v.pair = p /\ v.from = from
  BY <1>2, <1>6 DEF Worker
<1>9. /\ work' \in [Runs -> [Kinds -> Worker]]
      /\ \A h \in Runs : work'[h]["ohlcv"] = IF h = g THEN v ELSE work[h]["ohlcv"]
      /\ \A h \in Runs, j \in Kinds : j # "ohlcv" => work'[h][j] = work[h][j]
  <2>1. HistTypes /\ "ohlcv" \in Kinds /\ v \in Worker /\ v.pair \in Pair
    BY <1>2, <1>6, <1>8 DEF HistInv, CollectsHistory
  <2>2. /\ work' \in [Runs -> [Kinds -> Worker]]
        /\ \A h \in Runs, j \in Kinds : work'[h][j] = IF h = g /\ j = "ohlcv" THEN v ELSE work[h][j]
    BY <1>7, <2>1, WorkerSet
  <2> QED
    BY <2>1, <2>2 DEF CollectsHistory
<1>10. HistTypes'
  BY <1>2, <1>5, <1>8, <1>9 DEF HistInv, HistTypes
<1>11. ASSUME Plain' PROVE Watchless'
  <2>1. Watchless
    BY <1>5, <1>11 DEF HistInv, Plain
  <2>2. NothingWatches' /\ \A q \in Pair : Whole(q)'
    BY <1>5, <1>9, <2>1 DEF Watchless, NothingWatches, Whole
  <2>3. Continues(p, from)'
    BY <1>4, <1>5 DEF Continues, Stored
  <2>4. \A h \in Runs : Asks(work[h]["ohlcv"])' /\ Received(work[h]["ohlcv"])'
    <3>1. Asks(v)' /\ Received(v)'
      BY <1>8, <2>3 DEF Asks, Received
    <3>2. \A h \in Runs : h # g => work[h]["ohlcv"].at = "ended"
      BY <1>5, <1>11, OtherRests DEF Plain, Collecting, Ask
    <3> QED
      BY <1>9, <3>1, <3>2 DEF Asks, Received
  <2> QED
    BY <2>2, <2>4 DEF Watchless
<1> QED
  BY <1>5, <1>10, <1>11 DEF HistInv

\* The reply: no more than the limit, and nothing newer than the open candle.
LEMMA ReplyHolds ==
  ASSUME HistInv, CollectsHistory, CrewInv, NEW g \in Runs, Reply(g) PROVE HistInv'
<1>1. PICK w \in Worker : w = work[g]["ohlcv"]
  BY DEF HistInv, HistTypes, CollectsHistory
<1>2. PICK p \in Pair : p = w.pair
  BY <1>1 DEF HistInv, HistTypes
<1>3. PICK to : to = Least(now, w.from + Limit - 1)
  OBVIOUS
<1>4. w.from \in Nat /\ now \in Nat /\ w.from <= now /\ w.at = "fetch"
  BY <1>1 DEF Reply, Worker, HistInv, HistTypes
<1>5. to \in Nat /\ w.from <= to /\ to <= now
  BY <1>3, <1>4, CandleAssumption DEF Least
<1>6. /\ work' = [work EXCEPT ![g]["ohlcv"].at = "save", ![g]["ohlcv"].seen = now, ![g]["ohlcv"].to = to]
      /\ UNCHANGED <<rows, watcher, has, now, pairs, interrupted>>
  BY <1>1, <1>3 DEF Reply, Others, lifeVars, dataVars
<1>7. PICK v \in Worker : v = [w EXCEPT !.at = "save", !.seen = now, !.to = to]
  BY <1>4, <1>5 DEF Worker, Places
<1>8. work' = [work EXCEPT ![g]["ohlcv"] = v]
  BY <1>1, <1>6, <1>7 DEF HistInv, HistTypes, CollectsHistory, Worker
<1>9. v.at = "save" /\ v.pair = p /\ v.from = w.from /\ v.to = to /\ v.seen = now
  BY <1>2, <1>7 DEF Worker
<1>10. /\ work' \in [Runs -> [Kinds -> Worker]]
       /\ \A h \in Runs : work'[h]["ohlcv"] = IF h = g THEN v ELSE work[h]["ohlcv"]
       /\ \A h \in Runs, j \in Kinds : j # "ohlcv" => work'[h][j] = work[h][j]
  <2>1. HistTypes /\ "ohlcv" \in Kinds /\ v \in Worker /\ v.pair \in Pair
    BY <1>2, <1>7, <1>9 DEF HistInv, CollectsHistory
  <2>2. /\ work' \in [Runs -> [Kinds -> Worker]]
        /\ \A h \in Runs, j \in Kinds : work'[h][j] = IF h = g /\ j = "ohlcv" THEN v ELSE work[h][j]
    BY <1>8, <2>1, WorkerSet
  <2> QED
    BY <2>1, <2>2 DEF CollectsHistory
<1>11. HistTypes'
  BY <1>2, <1>6, <1>9, <1>10 DEF HistInv, HistTypes
<1>12. ASSUME Plain' PROVE Watchless'
  <2>1. Watchless
    BY <1>6, <1>12 DEF HistInv, Plain
  <2>2. NothingWatches' /\ \A q \in Pair : Whole(q)'
    BY <1>6, <1>10, <2>1 DEF Watchless, NothingWatches, Whole
  <2>3. Continues(p, w.from)
    BY <1>1, <1>2, <1>4, <2>1 DEF Watchless, Asks
  <2>4. \A h \in Runs : Asks(work[h]["ohlcv"])' /\ Received(work[h]["ohlcv"])'
    <3>1. Continues(p, w.from)'
      BY <1>6, <2>3 DEF Continues, Stored
    <3>2. v.from <= v.to /\ v.to <= v.seen
      BY <1>5, <1>9
    <3>3. Asks(v)' /\ Received(v)'
      BY <1>9, <3>1, <3>2 DEF Asks, Received
    <3>4. \A h \in Runs : h # g => work[h]["ohlcv"].at = "ended"
      BY <1>6, <1>12, OtherRests DEF Plain, Collecting, Reply
    <3> QED
      BY <1>10, <3>3, <3>4 DEF Asks, Received
  <2> QED
    BY <2>2, <2>4 DEF Watchless
<1> QED
  BY <1>6, <1>11, <1>12 DEF HistInv

\* The other steps of the OHLCV worker.
LEMMA CollectorHolds ==
  ASSUME HistInv, CollectsHistory, CrewInv, NEW g \in Runs, CollectorStep(g) PROVE HistInv'
<1>1. /\ work[g]["ohlcv"] \in Worker /\ work[g]["ohlcv"].pair \in Pair
      /\ 1 \in Pair /\ "ohlcv" \in Kinds
  BY PairAssumption DEF HistInv, HistTypes, CollectsHistory, Pair
<1>2. \A where \in Places, p \in Pair :
        At(where, p) \in Worker /\ At(where, p).at = where /\ At(where, p).pair = p
  BY DEF At, Worker, Pair
<1>3. UNCHANGED <<watcher, has, now, pairs, interrupted>>
  BY DEF CollectorStep, Collects, ShouldUpdate, Ask, Reply, Save, UpdateCache, CollectFails, Others, lifeVars
<1>4. ASSUME NEW where \in Places \ {"fetch", "save"}, NEW p \in Pair,
             work' = [work EXCEPT ![g]["ohlcv"] = At(where, p)], UNCHANGED rows
      PROVE  HistInv'
  <2>1. PICK w \in Worker : w = At(where, p) /\ w.at \notin {"fetch", "save"} /\ w.pair \in Pair
    BY <1>2
  <2>2. work' = [work EXCEPT ![g]["ohlcv"] = w]
    BY <1>4, <2>1
  <2> QED
    BY <1>1, <1>3, <1>4, <2>1, <2>2, WorkerGoes
<1>5. {"ended", "top", "check", "limit", "last", "cache"} \subseteq Places \ {"fetch", "save"}
  BY DEF Places
<1>6. ASSUME NEW where \in {"limit", "last", "cache"}, Goes(g, "ohlcv", where)
      PROVE  work' = [work EXCEPT ![g]["ohlcv"] = At(where, work[g]["ohlcv"].pair)]
  BY <1>1, <1>6 DEF Goes, HistInv, HistTypes
<1>7. CASE Collects(g)
  BY <1>1, <1>4, <1>5, <1>7 DEF Collects, Gone, dataVars
<1>8. CASE ShouldUpdate(g)
  <2>1. CASE \E where \in {"limit", "last"} : Goes(g, "ohlcv", where)
    BY <1>1, <1>4, <1>5, <1>6, <1>8, <2>1 DEF ShouldUpdate, dataVars
  <2>2. CASE work' = [work EXCEPT ![g]["ohlcv"] = Top]
    BY <1>1, <1>4, <1>5, <1>8, <2>2 DEF ShouldUpdate, Top, dataVars
  <2> QED
    BY <1>8, <2>1, <2>2 DEF ShouldUpdate
<1>9. ASSUME work[g]["ohlcv"].at = "save", rows' = Saved(g, work[g]["ohlcv"].pair),
             NEW where \in {"limit", "cache"}, Goes(g, "ohlcv", where)
      PROVE  HistInv'
  <2>1. PICK w \in Worker : /\ w = At(where, work[g]["ohlcv"].pair)
                            /\ w.at \notin {"fetch", "save"} /\ w.pair \in Pair
    BY <1>1, <1>2, <1>5, <1>9
  <2>2. work' = [work EXCEPT ![g]["ohlcv"] = w]
    BY <1>6, <1>9, <2>1
  <2>3. /\ work' \in [Runs -> [Kinds -> Worker]]
        /\ \A h \in Runs, j \in Kinds : work'[h][j] = IF h = g /\ j = "ohlcv" THEN w ELSE work[h][j]
    <3>1. HistTypes /\ "ohlcv" \in Kinds /\ w \in Worker /\ w.pair \in Pair
      BY <1>1, <2>1 DEF HistInv
    <3> QED
      BY <2>2, <3>1, WorkerSet
  <2>4. "socket" \in Kinds =>
          /\ work'[g]["socket"].at \in {"top", "ended"}
          /\ Plain => work'[g]["socket"].at = "ended"
    BY <2>3 DEF HistInv, HistTypes, Watchless, NothingWatches
  <2>5. work'[g]["ohlcv"] = w
    BY <1>1, <2>3
  <2>6. \A h \in Runs : h # g => work'[h] = work[h]
    BY <2>2 DEF HistInv, HistTypes
  <2> QED
    BY <1>3, <1>9, <2>1, <2>3, <2>4, <2>5, <2>6, SaveKept
<1>10. CASE Save(g)
  BY <1>9, <1>10 DEF Save
<1>11. CASE UpdateCache(g)
  BY <1>1, <1>4, <1>5, <1>6, <1>11 DEF UpdateCache
<1>12. CASE CollectFails(g)
  <2>1. CASE UNCHANGED rows
    BY <1>1, <1>4, <1>5, <1>6, <1>12, <2>1 DEF CollectFails
  <2> QED
    BY <1>9, <1>12, <2>1 DEF CollectFails
<1> QED
  BY <1>7, <1>8, <1>10, <1>11, <1>12, AskHolds, ReplyHolds DEF CollectorStep

\* Quotes, permits and the ends of the other workers.
LEMMA OthersHold ==
  ASSUME HistInv, CollectsHistory, CrewInv, NEW g \in Runs, NEW k \in Kinds, Quotes(g, k) \/ LimiterStep(g, k) \/ Ends(g, k)
  PROVE  HistInv'
<1>1. work[g][k] \in Worker /\ HistTypes /\ 1 \in Pair
  BY PairAssumption DEF HistInv, HistTypes, Pair
<1>2. UNCHANGED <<rows, watcher, has, now, pairs, interrupted>>
  BY DEF Quotes, LimiterStep, NextPair, Polls, Ends, Others, lifeVars, dataVars
<1>3. \A where \in Places, n \in Nat :
        At(where, n) \in Worker /\ At(where, n).at = where /\ At(where, n).pair = n
  BY DEF At, Worker
<1>4. ASSUME NEW where \in {"ended", "top", "check", "limit"}, NEW n \in Nat,
             work' = [work EXCEPT ![g][k] = At(where, n)],
             k = "ohlcv" => n \in Pair, k = "socket" => where = "ended"
      PROVE  HistInv'
  <2>1. PICK w \in Worker : w = At(where, n) /\ w.at = where /\ w.pair = n
    BY <1>3 DEF Places
  <2>2. work' = [work EXCEPT ![g][k] = w]
    BY <1>4, <2>1
  <2>3. /\ w.at \notin {"fetch", "save"} /\ (k = "ohlcv" => w.pair \in Pair)
        /\ (k = "socket" => w.at = "ended")
    BY <1>4, <2>1
  <2> QED
    BY <1>2, <2>1, <2>2, <2>3, WorkerGoes
<1>5. CASE Quotes(g, k)
  <2>1. work' = [work EXCEPT ![g][k] = At("limit", work[g][k].pair)] /\ k \in {"ticker", "book"}
    BY <1>1, <1>5 DEF Quotes, Goes, HistTypes
  <2>2. work[g][k].pair \in Nat
    BY <1>1 DEF Worker
  <2> QED
    BY <1>4, <2>1, <2>2
<1>6. CASE NextPair(g, k)
  <2>1. work[g][k].at = "limit" /\ work[g][k].pair + 1 \in Nat /\ k # "socket"
    <3>1. work[g][k].at = "limit"
      BY <1>6 DEF NextPair
    <3>2. work[g][k].pair + 1 \in Nat
      BY <1>1 DEF Worker
    <3>3. k # "socket"
      BY <1>1, <3>1 DEF HistTypes
    <3> QED
      BY <3>1, <3>2, <3>3
  <2>2. CASE work' = [work EXCEPT ![g][k] = Top]
    BY <1>1, <1>4, <2>1, <2>2 DEF Top
  <2>3. CASE /\ work[g][k].pair + 1 <= Round(k)
             /\ work' = [work EXCEPT ![g][k] = At(IF k = "ohlcv" THEN "check" ELSE "limit", work[g][k].pair + 1)]
    <3>1. CASE k = "ohlcv"
      <4>1. work[g][k].pair + 1 \in Pair
        BY <1>1, <2>1, <2>3, <3>1, PairAssumption DEF HistTypes, Round, Pair
      <4> QED
        BY <1>4, <2>1, <2>3, <3>1, <4>1
    <3>2. CASE k # "ohlcv"
      BY <1>4, <2>1, <2>3, <3>2
    <3> QED
      BY <3>1, <3>2
  <2> QED
    BY <1>6, <2>2, <2>3 DEF NextPair
<1>7. CASE Polls(g, k) 
  <2>1. UNCHANGED work
    BY <1>7 DEF Polls
  <2>2. HistTypes'
    BY <1>1, <1>2, <2>1 DEF HistTypes
  <2> QED
    BY <1>2, <2>1, <2>2, HistKept
<1>8. CASE Ends(g, k)
  BY <1>1, <1>4, <1>8 DEF Ends, Gone
<1> QED
  BY <1>5, <1>6, <1>7, <1>8 DEF LimiterStep

-----------------------------------------------------------------------------
\* A watcher watches only an exchange that has streams, and the history does not matter
\* then; the types stay.
LEMMA WatcherHolds ==
  ASSUME HistInv, CollectsHistory, CrewInv, NEW n \in Rounds, NEW p \in Pair, WatcherStep(n, p),
         rows' \in [Pair -> [Candle -> {"none", "open", "final"}]]
  PROVE  HistInv'
<1>1. UNCHANGED <<work, has, now, pairs, interrupted>>
  BY DEF WatcherStep, Watches, Update, Process, WatchFails, lifeVars
<1>2. HistTypes'
  BY <1>1 DEF HistInv, HistTypes
<1>3. watcher[n][p].at # "ended"
  BY DEF WatcherStep, Watches, Update, Process, WatchFails
<1> QED
  BY <1>1, <1>2, <1>3 DEF HistInv, Plain, Watchless, NothingWatches

\* Every row is in the table as a part or as the whole of its candle.
LEMMA RowsType ==
  ASSUME HistTypes, NEW n \in Rounds, NEW p \in Pair, WatcherStep(n, p)
  PROVE  rows' \in [Pair -> [Candle -> {"none", "open", "final"}]]
<1>1. UNCHANGED rows \/ rows' = [rows EXCEPT ![p] = Upserted(rows[p], watcher[n][p])]
  BY DEF WatcherStep, Watches, Update, Process, WatchFails, dataVars, HistTypes
<1>2. Upserted(rows[p], watcher[n][p]) \in [Candle -> {"none", "open", "final"}]
  BY DEF HistTypes, Upserted
<1> QED
  BY <1>1, <1>2 DEF HistTypes

\* The steps that touch neither the table nor a worker of the history.
LEMMA IdleHolds ==
  ASSUME HistInv, CollectsHistory, CrewInv, UNCHANGED <<rows, work, has, pairs, interrupted>>, now' \in Nat,
         Plain => UNCHANGED watcher
  PROVE  HistInv'
<1>1. HistTypes'
  BY DEF HistInv, HistTypes
<1>2. ASSUME Plain' PROVE Watchless'
  BY <1>2 DEF HistInv, Plain, Watchless, NothingWatches, Whole, Asks, Received, Continues, Stored
<1> QED
  BY <1>1, <1>2 DEF HistInv

\* The hourly subscription is that of a worker which an exchange without streams has not.
LEMMA SubscribeHolds ==
  ASSUME HistInv, CollectsHistory, CrewInv, NEW g \in Runs, Subscribe(g) PROVE HistInv'
<1>1. "socket" \in Kinds /\ work[g]["socket"].at = "top" /\ UNCHANGED <<rows, work, has, pairs, now, interrupted>>
  BY DEF Subscribe, lifeVars, dataVars
<1>2. ~Plain
  BY <1>1 DEF HistInv, Watchless, NothingWatches
<1>3. now' \in Nat
  BY <1>1 DEF HistInv, HistTypes
<1> QED
  BY <1>1, <1>2, <1>3, IdleHolds

\* The initial state: the table is empty and nothing works.
LEMMA HistInit == CollectsHistory /\ Init => HistInv
<1> SUFFICES ASSUME CollectsHistory, Init PROVE HistInv
  OBVIOUS
<1>1. /\ Gone \in Worker /\ Gone.at = "ended" /\ Gone.pair \in Pair
  BY PairAssumption DEF Gone, At, Worker, Places, Pair
<1>2. work \in [Runs -> [Kinds -> Worker]] /\ \A g \in Runs, k \in Kinds : work[g][k] = Gone
  BY <1>1 DEF Init
<1>3. rows \in [Pair -> [Candle -> {"none", "open", "final"}]]
      /\ \A p \in Pair, k \in Candle : rows[p][k] = "none"
  BY DEF Init
<1>4. now \in Nat /\ pairs \in 0..Pairs
  BY PairAssumption DEF Init
<1>5. HistTypes
  BY <1>1, <1>2, <1>3, <1>4 DEF HistTypes, CollectsHistory
<1>6. Watchless
  <2>1. \A n \in Rounds, p \in Pair : watcher[n][p].at = "ended"
    BY DEF Init, At
  <2>2. NothingWatches
    BY <1>1, <1>2, <2>1 DEF NothingWatches
  <2>3. \A p \in Pair : Whole(p)
    BY <1>3 DEF Whole
  <2>4. \A g \in Runs : Asks(work[g]["ohlcv"]) /\ Received(work[g]["ohlcv"])
    BY <1>1, <1>2 DEF Asks, Received, CollectsHistory
  <2> QED
    BY <2>2, <2>3, <2>4 DEF Watchless
<1> QED
  BY <1>5, <1>6 DEF HistInv

\* The initial state: nobody has called start().
LEMMA CrewInit == CollectsHistory /\ Init => CrewInv
  BY DEF CollectsHistory, Init, CrewInv, OneCrew, Collecting, Gone, At

\* A step after which no other worker collects keeps the crew.
LEMMA CrewKept ==
  ASSUME CrewInv, UNCHANGED lifeVars, \A g \in Runs : Collecting(g)' => Collecting(g)
  PROVE  CrewInv'
  BY DEF CrewInv, OneCrew, lifeVars

\* A step of one worker, that of the history only while it collects.
LEMMA CrewGoes ==
  ASSUME CrewInv, HistTypes, CollectsHistory, UNCHANGED lifeVars, NEW g \in Runs, NEW k \in Kinds,
         NEW w, work' = [work EXCEPT ![g][k] = w], k = "ohlcv" => Collecting(g)
  PROVE  CrewInv'
<1>1. \A h \in Runs : Collecting(h)' => Collecting(h)
  BY DEF HistTypes, CollectsHistory, Collecting
<1> QED
  BY <1>1, CrewKept

\* A start() begins when no crew is left, and loads the markets alone.
LEMMA CrewStart ==
  ASSUME CrewInv, NEW c \in Callers, StartBegins(c) PROVE CrewInv'
<1>1. /\ caller' = [caller EXCEPT ![c] = "load"] /\ ~running /\ running'
      /\ UNCHANGED <<work, tasks, interrupted>>
  BY DEF StartBegins, Calls
<1>2. ASSUME ~interrupted PROVE OneCrew'
  <2>1. (\A g \in Runs : ~Collecting(g)) /\ (\A d \in Callers : caller[d] # "load")
    BY <1>1, <1>2 DEF CrewInv, OneCrew
  <2>2. (\A g \in Runs : ~Collecting(g)') /\ (\A d \in Callers : caller'[d] = "load" => d = c)
    BY <1>1, <2>1 DEF CrewInv, Collecting
  <2> QED
    BY <1>1, <2>2 DEF OneCrew
<1> QED
  BY <1>1, <1>2 DEF CrewInv

\* The crew of a start() that nobody has interrupted is the one that tasks lists.
LEMMA CrewLoaded ==
  ASSUME CrewInv, HistTypes, CollectsHistory, NEW c \in Callers, NEW ok \in BOOLEAN, Loaded(c, ok)
  PROVE  CrewInv'
<1>1. PICK g \in Runs : tasks' = g /\ work' = [work EXCEPT ![g] = Crew]
  BY DEF Loaded, Free
<1>2. caller[c] = "load" /\ caller' = [caller EXCEPT ![c] = "idle"] /\ UNCHANGED <<running, interrupted>>
  BY DEF Loaded, Calls
<1>3. ASSUME ~interrupted PROVE OneCrew'
  <2>1. /\ running /\ \A h \in Runs : ~Collecting(h)
        /\ \A d \in Callers : caller[d] = "load" => d = c
    BY <1>2, <1>3 DEF CrewInv, OneCrew
  <2>2. \A h \in Runs : Collecting(h)' => h = g
    BY <1>1, <2>1 DEF Collecting, HistTypes
  <2>3. \A d \in Callers : caller'[d] # "load"
    BY <1>2, <2>1 DEF CrewInv
  <2> QED
    BY <1>1, <1>2, <2>1, <2>2, <2>3 DEF OneCrew
<1> QED
  BY <1>2, <1>3 DEF CrewInv

\* stop() cancels the crew that tasks lists, and meets a start() or leaves none.
LEMMA CrewStop ==
  ASSUME CrewInv, CollectsHistory, NEW c \in Callers, StopBegins(c) PROVE CrewInv'
<1>1. /\ caller' = [caller EXCEPT ![c] = "close"] /\ UNCHANGED tasks
      /\ interrupted' = (interrupted \/ \E d \in Callers : caller[d] = "load")
      /\ work' = [g \in Runs |-> IF g = tasks THEN [k \in Kinds |-> Gone] ELSE work[g]]
  BY DEF StopBegins, Calls
<1>2. ASSUME ~interrupted' PROVE OneCrew'
  <2>1. \A d \in Callers : caller[d] # "load"
    BY <1>1, <1>2
  <2>2. \A d \in Callers : caller'[d] # "load"
    BY <1>1, <2>1 DEF CrewInv
  <2>3. ASSUME NEW g \in Runs PROVE ~Collecting(g)'
    <3>1. CASE g = tasks
      BY <1>1, <3>1 DEF Collecting, CollectsHistory, Gone, At
    <3>2. CASE g # tasks
      BY <1>1, <1>2, <3>2 DEF Collecting, CrewInv, OneCrew
    <3> QED
      BY <3>1, <3>2
  <2> QED
    BY <2>2, <2>3 DEF OneCrew
<1> QED
  BY <1>1, <1>2 DEF CrewInv

\* Closing the exchange ends nothing of the crew and begins nothing.
LEMMA CrewClosed ==
  ASSUME CrewInv, HistTypes, CollectsHistory, NEW c \in Callers, StopEnds(c) PROVE CrewInv'
<1>1. /\ caller[c] = "close" /\ caller' = [caller EXCEPT ![c] = "idle"]
      /\ UNCHANGED <<running, tasks, interrupted>>
  BY DEF StopEnds, Calls
<1>2. \A g \in Runs : Collecting(g)' => Collecting(g)
  <2>1. \A g \in Runs : work[g]["ohlcv"].at = "fetch" \/ work'[g] = work[g]
    BY DEF StopEnds
  <2> QED
    BY <2>1 DEF Collecting
<1>3. \A d \in Callers : caller'[d] = "load" => caller[d] = "load"
  BY <1>1 DEF CrewInv
<1> QED
  BY <1>1, <1>2, <1>3 DEF CrewInv, OneCrew

\* Every step keeps the crew.
LEMMA CrewStep == CollectsHistory /\ HistTypes /\ CrewInv /\ [Next]_vars => CrewInv'
<1> SUFFICES ASSUME CollectsHistory, HistTypes, CrewInv, [Next]_vars PROVE CrewInv'
  OBVIOUS
<1>1. ASSUME NEW c \in Starters, StartBegins(c) PROVE CrewInv'
  BY <1>1, CrewStart DEF Callers
<1>2. ASSUME NEW c \in Stoppers, StopBegins(c) PROVE CrewInv'
  BY <1>2, CrewStop DEF Callers
<1>3. ASSUME NEW c \in Callers, CallerStep(c) PROVE CrewInv'
  BY <1>3, CrewLoaded, CrewClosed DEF CallerStep
<1>4. ASSUME NEW g \in Runs, CollectorStep(g) PROVE CrewInv'
  <2>1. Collecting(g) /\ UNCHANGED lifeVars
    BY <1>4 DEF CollectorStep, Collects, ShouldUpdate, Ask, Reply, Save, UpdateCache, CollectFails,
                Collecting, Others
  <2>2. ASSUME NEW w, work' = [work EXCEPT ![g]["ohlcv"] = w] PROVE CrewInv'
    BY <2>1, <2>2, CrewGoes DEF CollectsHistory
  <2>3. CASE Collects(g) \/ ShouldUpdate(g) \/ Save(g) \/ UpdateCache(g) \/ CollectFails(g)
    BY <2>2, <2>3 DEF Collects, ShouldUpdate, Save, UpdateCache, CollectFails, Goes
  <2>4. CASE Ask(g) \/ Reply(g)
    <3>1. \A h \in Runs : h # g => work'[h] = work[h]
      BY <2>4 DEF Ask, Reply, HistTypes
    <3> QED
      BY <2>1, <3>1, CrewKept DEF Collecting
  <2> QED
    BY <1>4, <2>3, <2>4 DEF CollectorStep
<1>5. ASSUME NEW g \in Runs, NEW k \in Kinds, Quotes(g, k) \/ LimiterStep(g, k) \/ Ends(g, k)
      PROVE  CrewInv'
  <2>1. UNCHANGED lifeVars /\ (k = "ohlcv" => Collecting(g))
    BY <1>5 DEF Quotes, LimiterStep, NextPair, Polls, Ends, Others, Collecting
  <2>2. UNCHANGED work \/ \E w : work' = [work EXCEPT ![g][k] = w]
    BY <1>5 DEF Quotes, LimiterStep, NextPair, Polls, Ends, Goes
  <2>3. CASE UNCHANGED work
    BY <2>1, <2>3, CrewKept DEF Collecting
  <2> QED
    BY <2>1, <2>2, <2>3, CrewGoes
<1>6. ASSUME UNCHANGED <<lifeVars, work>> PROVE CrewInv'
  BY <1>6, CrewKept DEF Collecting
<1>7. ASSUME NEW g \in Runs, Subscribe(g) \/ \E p \in Pair : QualityCheck(g, p) PROVE CrewInv'
  BY <1>6, <1>7 DEF Subscribe, QualityCheck, Others
<1>8. ASSUME NEW n \in Rounds, NEW p \in Pair, WatcherStep(n, p) PROVE CrewInv'
  BY <1>6, <1>8 DEF WatcherStep, Watches, Update, Process, WatchFails
<1>9. CASE CandleCloses \/ TimePasses \/ \E p \in Pair : Ages(p)
  BY <1>6, <1>9 DEF CandleCloses, TimePasses, Ages
<1>10. CASE UNCHANGED vars
  BY <1>6, <1>10 DEF vars
<1> QED
  BY <1>1, <1>2, <1>3, <1>4, <1>5, <1>7, <1>8, <1>9, <1>10 DEF Next

\* Every step keeps the history whole.
LEMMA HistStep == CollectsHistory /\ CrewInv /\ HistInv /\ [Next]_vars => HistInv'
<1> SUFFICES ASSUME CollectsHistory, CrewInv, HistInv, [Next]_vars PROVE HistInv'
  OBVIOUS
<1>1. now \in Nat
  BY DEF HistInv, HistTypes
<1>2. ASSUME NEW c, StartBegins(c) PROVE HistInv'
  BY <1>1, <1>2, IdleHolds DEF StartBegins, dataVars
<1>3. ASSUME NEW c, StopBegins(c) \/ CallerStep(c) PROVE HistInv'
  BY <1>3, StopHolds, LoadedHolds, StopEndsHolds DEF CallerStep
<1>4. ASSUME NEW g \in Runs, NEW p \in Pair, QualityCheck(g, p) PROVE HistInv'
  BY <1>1, <1>4, IdleHolds DEF QualityCheck, Others, lifeVars
<1>5. ASSUME NEW g \in Runs, CollectorStep(g) \/ Subscribe(g) PROVE HistInv'
  BY <1>5, CollectorHolds, SubscribeHolds
<1>6. ASSUME NEW g \in Runs, NEW k \in Kinds, Quotes(g, k) \/ LimiterStep(g, k) \/ Ends(g, k)
      PROVE  HistInv'
  BY <1>6, OthersHold
<1>7. ASSUME NEW n \in Rounds, NEW p \in Pair, WatcherStep(n, p) PROVE HistInv'
  BY <1>7, WatcherHolds, RowsType DEF HistInv
<1>8. CASE CandleCloses
  BY <1>1, <1>8, IdleHolds DEF CandleCloses, lifeVars, dataVars
<1>9. CASE TimePasses
  BY <1>1, <1>9, IdleHolds DEF TimePasses, lifeVars, dataVars
<1>10. ASSUME NEW p \in Pair, Ages(p) PROVE HistInv'
  BY <1>1, <1>10, IdleHolds DEF Ages, lifeVars
<1>11. CASE UNCHANGED vars
  BY <1>1, <1>11, IdleHolds DEF vars, lifeVars, dataVars
<1> QED
  BY <1>2, <1>3, <1>4, <1>5, <1>6, <1>7, <1>8, <1>9, <1>10, <1>11 DEF Next

\* On an exchange without streams, and until a stop() meets a start() that still loads the
\* markets, the table of a pair has no hole and every candle before its last one is whole,
\* for any number of callers, crews and restarts, any limit of a reply, and whatever fails,
\* is lost or is cancelled.
THEOREM HistoryStaysWhole ==
  ASSUME CollectsHistory PROVE Spec => []HistoryIsWhole
<1>1. Init => CrewInv /\ HistInv
  BY CrewInit, HistInit
<1>2. CrewInv /\ HistInv /\ [Next]_vars => CrewInv' /\ HistInv'
  BY CrewStep, HistStep DEF HistInv
<1>3. CrewInv /\ HistInv => HistoryIsWhole
  BY DEF HistInv, Plain, Watchless, HistoryIsWhole
<1> QED
  BY <1>1, <1>2, <1>3, PTL DEF Spec
=============================================================================

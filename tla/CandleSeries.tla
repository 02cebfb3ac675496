---------------------------- MODULE CandleSeries ----------------------------
(***************************************************************************)
(* DataCleaner of src/src/data/cleaner.py: what its functions make of a    *)
(* series of candles of one pair and one timeframe, applied one after the  *)
(* other.  The list that is cleaned is the caller's: the functions return  *)
(* a new list, but smooth_price_spikes changes the candles in place.       *)
(*                                                                         *)
(* Times are in minutes.  Prices are in units and divisions round down.    *)
(* The technical indicators, and the columns that are only passed on, are  *)
(* left out.  No name here is one of CandlePath, so that CandleProofs can  *)
(* extend both.                                                            *)
(***************************************************************************)
EXTENDS Integers, Sequences, FiniteSets, SequencesExt, FiniteSetsExt

CONSTANTS
  Frame,       \* the timeframe of the series
  Targets,     \* the timeframes it is aggregated to
  Threshold,   \* threshold_percent (20)
  Openings,    \* bound: the minutes at which the candles of the series open
  Prices,      \* bound: the prices of the candles
  MaxCandles   \* bound: the length of the series

\* _get_timeframe_delta
Deltas == {1, 3, 5, 15, 30, 60, 120, 240, 360, 480, 720, 1440, 4320, 10080}

ASSUME FrameAssumption == Frame \in Deltas /\ Targets \subseteq Deltas
ASSUME SeriesAssumption ==
  /\ \A t \in Openings : t \in Nat /\ t % Frame = 0
  /\ Prices \subseteq Nat \ {0} /\ Threshold \in Nat /\ MaxCandles \in Nat

VARIABLE data   \* the series

Higher(a, b) == IF a >= b THEN a ELSE b
Lower(a, b) == IF a <= b THEN a ELSE b

Proper(c) == c.low <= c.open /\ c.open <= c.high /\ c.low <= c.close /\ c.close <= c.high

\* the rows that DataValidator lets pass, in any order, a candle perhaps more than once
Candle == {c \in [t : Openings, open : Prices, high : Prices, low : Prices, close : Prices, volume : {1}] :
             Proper(c)}

SeriesInit == data \in BoundedSeq(Candle, MaxCandles)

\* the members of S in order
Ascending(S) == [i \in 1..Cardinality(S) |-> CHOOSE t \in S : Cardinality({u \in S : u <= t}) = i]

\* sorted(data, key=timestamp), which is stable
Sorted(s) ==
  LET upTo(i) == {j \in DOMAIN s : s[j].t < s[i].t \/ (s[j].t = s[i].t /\ j <= i)}
  IN  [k \in DOMAIN s |-> s[CHOOSE i \in DOMAIN s : Cardinality(upTo(i)) = k]]

-----------------------------------------------------------------------------
(* fill_missing_candles.                                                   *)

\* _create_synthetic_candle
Synthetic(c, t) == [t |-> t, open |-> c.close, high |-> c.close, low |-> c.close, close |-> c.close, volume |-> 0]

\* the candles from c up to, and without, the time t; at least c itself
Stretch(c, t) ==
  <<c>> \o [k \in 1..((t - c.t - 1) \div Frame) |-> Synthetic(c, c.t + k * Frame)]

\* Faulty variant: one candle is filled in, however long the gap is.
FillMissingOnce ==
  LET s == Sorted(data)
  IN  /\ Len(data) >= 2
      /\ data' = FlattenSeq([i \in DOMAIN s |->
           IF i < Len(s) /\ s[i + 1].t > s[i].t + Frame THEN <<s[i], Synthetic(s[i], s[i].t + Frame)>> ELSE <<s[i]>>])

FillMissing ==
  LET s == Sorted(data)
  IN  /\ Len(data) >= 2
      /\ data' = FlattenSeq([i \in DOMAIN s |-> Stretch(s[i], IF i < Len(s) THEN s[i + 1].t ELSE s[i].t)])

-----------------------------------------------------------------------------
(* remove_duplicates keeps the first candle of a time.                     *)

RemoveDuplicates ==
  LET s    == Sorted(data)
      kept == Ascending({i \in DOMAIN s : \A j \in 1..(i - 1) : s[j].t # s[i].t})
  IN  data' = [k \in DOMAIN kept |-> s[kept[k]]]

-----------------------------------------------------------------------------
(* smooth_price_spikes.                                                    *)

\* the price c differs from p by more than the threshold
Differs(c, p) == 100 * (IF c >= p THEN c - p ELSE p - c) > Threshold * p

\* _is_price_spike
IsSpike(p, c, n) == p > 0 /\ n > 0 /\ Differs(c, p) /\ Differs(c, n)

\* Faulty variant: the high does not follow the close.
SmoothedCloseOnly(p, c, n) ==
  LET price == (p.close + n.close) \div 2
      open  == Lower(c.open, Lower((price * 101) \div 100, (p.close * 101) \div 100))
      high  == Higher(open, c.low)
  IN  [c EXCEPT !.open = open, !.high = high, !.close = price,
                !.low = Lower(open, Lower(price, high))]

\* the candle c between p and n after smoothing; each value is made from those before it
Smoothed(p, c, n) ==
  LET price == (p.close + n.close) \div 2
      open  == Lower(c.open, Lower((price * 101) \div 100, (p.close * 101) \div 100))
      high  == Higher(open, Higher(price, c.low))
  IN  [c EXCEPT !.open = open, !.high = high, !.close = price,
                !.low = Lower(open, Lower(price, high))]

\* from the second candle to the last but one; the one before has been smoothed already
Smooth ==
  LET s[i \in 1..Len(data)] ==
        IF i \in 2..(Len(data) - 1) /\ IsSpike(s[i - 1].close, data[i].close, data[i + 1].close)
        THEN Smoothed(s[i - 1], data[i], data[i + 1]) ELSE data[i]
  IN  Len(data) >= 3 /\ data' = s

-----------------------------------------------------------------------------
(* detect_gaps: times from which and up to which candles are missing.      *)

DetectGaps(series) ==
  LET s == Sorted(series)
  IN  {<<s[i].t + Frame, s[i + 1].t>> : i \in {i \in 1..(Len(s) - 1) : s[i + 1].t > s[i].t + Frame + 1}}

-----------------------------------------------------------------------------
(* aggregate_to_higher_timeframe.                                          *)

\* _floor_timestamp
Floor(t, m) ==
  CASE m = 60   -> t - (t % 60)
    [] m = 240  -> (t - (t % 1440)) + ((((t % 1440) \div 60) \div 4) * 4) * 60
    [] m = 1440 -> t - (t % 1440)
    [] OTHER    -> t

\* _aggregate_group
Group(g, m) ==
  [t |-> Floor(g[1].t, m), open |-> g[1].open, close |-> Last(g).close,
   high |-> Max({g[i].high : i \in DOMAIN g}), low |-> Min({g[i].low : i \in DOMAIN g}),
   volume |-> FoldLeft(LAMBDA sum, c : sum + c.volume, 0, g)]

\* the candles of s in groups: a new one begins whenever the period changes
Groups(s, m) ==
  LET begin == Ascending({i \in DOMAIN s : i > 1 => Floor(s[i].t, m) # Floor(s[i - 1].t, m)})
  IN  [k \in DOMAIN begin |->
         SubSeq(s, begin[k], IF k < Len(begin) THEN begin[k + 1] - 1 ELSE Len(s))]

\* Faulty variant: the last group is forgotten.
AggregatedButLast(s, m) == [k \in 1..(Len(Groups(s, m)) - 1) |-> Group(Groups(s, m)[k], m)]

Aggregated(s, m) == [k \in DOMAIN Groups(s, m) |-> Group(Groups(s, m)[k], m)]

SeriesNext == FillMissing \/ RemoveDuplicates \/ Smooth

SeriesSpec == SeriesInit /\ [][SeriesNext]_data

-----------------------------------------------------------------------------
(* Properties.                                                             *)

InOrder(s) == \A i, j \in DOMAIN s : i < j => s[i].t <= s[j].t

\* Whatever is done to the series in whatever order, every candle of it and of its
\* aggregates lies between its low and its high.
SeriesIsSound ==
  /\ \A i \in DOMAIN data : Proper(data[i])
  /\ \A m \in Targets : \A i \in DOMAIN Aggregated(data, m) : Proper(Aggregated(data, m)[i])

\* fill_missing_candles: from the first to the last candle every time of the timeframe is
\* there, what was received is still there, and nothing else is added.
IsWhole(new, s) ==
  LET old == {s[i].t : i \in DOMAIN s}
  IN  /\ InOrder(new) /\ \A i \in DOMAIN s : \E j \in DOMAIN new : new[j] = s[i]
      /\ \A t \in Min(old)..Max(old) : t % Frame = 0 =>
           Cardinality({j \in DOMAIN new : new[j].t = t})
             = Higher(1, Cardinality({i \in DOMAIN s : s[i].t = t}))

\* fill_missing_candles alone makes a series longer, and then it makes it whole.
FillIsWhole == [][Len(data') > Len(data) => IsWhole(data', data)]_data

\* aggregate_to_higher_timeframe of a series in order, up to an hour, four hours or a day:
\* one candle for every period that has any, with the first open, the last close, the
\* extremes and all the volume of the period, even if candles were filled in before.
IsCandleOf(a, m, s) ==
  LET mine == {i \in DOMAIN s : s[i].t \div m = a.t \div m}
  IN  /\ mine # {} /\ a.t % m = 0
      /\ a.open = s[Min(mine)].open /\ a.close = s[Max(mine)].close
      /\ a.high = Max({s[i].high : i \in mine}) /\ a.low = Min({s[i].low : i \in mine})
      /\ a.volume = MapThenSumSet(LAMBDA i : s[i].volume, mine)

OnePerPeriod(m) == Len(Aggregated(data, m)) = Cardinality({data[i].t \div m : i \in DOMAIN data})

AggregateIsFaithful ==
  InOrder(data) =>
    \A m \in Targets \cap {60, 240, 1440} :
      /\ OnePerPeriod(m)
      /\ \A k \in DOMAIN Aggregated(data, m) : IsCandleOf(Aggregated(data, m)[k], m, data)

-----------------------------------------------------------------------------
(* What the comments of the code promise and the code does not do.         *)

\* cleaner.py:239 "detect time gaps in data series": a series without a detected gap has
\* every candle from its first to its last.
GapsAreSeen ==
  data # <<>> /\ DetectGaps(data) = {} =>
    LET times == {data[i].t : i \in DOMAIN data}
    IN  \A t \in Min(times)..Max(times) : t % Frame = 0 => t \in times

\* cleaner.py:130 "smooth extreme price spikes": none is left.
NoSpikeIsLeft ==
  [][Smooth => \A i \in 2..(Len(data) - 1) :
       ~IsSpike(data'[i - 1].close, data'[i].close, data'[i + 1].close)]_data

\* cleaner.py:272 "aggregate lower timeframe data to higher timeframe": a period has one
\* candle whatever the target is.
OneCandlePerPeriod == InOrder(data) => \A m \in Targets : OnePerPeriod(m)
=============================================================================

----------------------------- MODULE CandlePath -----------------------------
(***************************************************************************)
(* What happens to the numbers of a candle between the exchange and the    *)
(* subscribers: parse_ohlcv_message and get_historical_klines of           *)
(* src/src/collectors/binance.py, DataValidator (src/src/data/validator.py)*)
(* called by insert_ohlcv, the row of _write_batch and the payload of      *)
(* src/src/events/nats_publisher.py.                                       *)
(*                                                                         *)
(* Prices and volumes arrive in tenths of 10^-8 and are kept in units of   *)
(* 10^-8.  A value that is missing or no number is rejected like a price   *)
(* of zero.  Time is in minutes.  Queue and table as places are in         *)
(* WritePipeline and GapFill; here only their contents matter.             *)
(***************************************************************************)
EXTENDS Integers, Sequences

CONSTANTS
  Timeframes,   \* bound: the timeframes history is asked for, in minutes
  Times,        \* bound: the minutes at which candles open
  Values,       \* bound: the prices and volumes an exchange may send
  MinPrice,     \* MIN_PRICE in units                                  (100)
  MaxPrice,     \* MAX_PRICE                                           (10^14)
  MaxKlines     \* bound: the candles received in one behaviour

\* those normalised by name ("1M" counts 30 days), those the validator takes, and those
\* that are collected, which are also all that REST is ever asked for by name
Minutes == {1, 3, 5, 15, 30, 60, 120, 240, 360, 480, 720, 1440, 4320, 10080, 43200}
Valid == Minutes \ {43200}
Collected == {1, 5, 15, 60, 240, 1440}

ASSUME TimeAssumption == Timeframes \subseteq Minutes /\ Times \subseteq Nat
ASSUME PriceAssumption == Values \subseteq Int /\ MinPrice \in Nat \ {0} /\ MaxPrice \in Nat
ASSUME BoundAssumption == MaxKlines \in Nat

VARIABLES
  received,   \* the number of candles received, for the bound only
  queue,      \* the validated rows on their way
  stored,     \* the rows that were inserted
  events      \* the payloads that were published

vars == <<received, queue, stored, events>>

\* timeframe_map.get(timeframe, '5m'): the interval that REST is asked for
Interval(asked) == IF asked \in Collected THEN asked ELSE 5

\* the exchange opens a candle on a boundary of its timeframe
Kline == {k \in [tf : {Interval(m) : m \in Timeframes}, t : Times, open : Values, high : Values,
                 low : Values, close : Values, volume : Values, closed : BOOLEAN] :
            k.t % k.tf = 0}

Init == received = 0 /\ queue = <<>> /\ stored = {} /\ events = {}

-----------------------------------------------------------------------------
(* The time of a candle.                                                   *)

\* Faulty variant: candles of several hours are rounded down to the day.
NormalizeToDay(t, m) ==
  CASE m <= 60 -> t - (t % m)
    [] m > 60 -> t - (t % 1440)

\* _normalize_timestamp: the start of the timeframe that t lies in
Normalize(t, m) ==
  CASE m < 60 -> (t - (t % 60)) + ((t % 60) \div m) * m
    [] m = 60 -> t - (t % 60)
    [] m > 60 /\ m < 1440 ->
         LET hour == (t \div 60) % 24  h == m \div 60
         IN  (t - (t % 1440)) + ((hour \div h) * h) * 60
    [] m >= 1440 -> t - (t % 1440)

\* parse_ohlcv_message of a candle and one line of get_historical_klines: both take the
\* open time, and a line of history has the timeframe that was asked for
Parsed(k, asked) == [k EXCEPT !.t = Normalize(k.t, asked), !.tf = asked]

-----------------------------------------------------------------------------
(* DataValidator.                                                          *)

\* round(x, 8), which takes a tie to the even neighbour
Round(x) ==
  LET q == x \div 10  r == x % 10
  IN  IF r < 5 \/ (r = 5 /\ q % 2 = 0) THEN q ELSE q + 1

\* _validate_price
PriceOk(x) == x > 0 /\ 10 * MinPrice <= x /\ x <= 10 * MaxPrice

\* _validate_volume
Volume(x) == IF x < 0 THEN 0 ELSE Round(x)

Larger(a, b) == IF a >= b THEN a ELSE b
Smaller(a, b) == IF a <= b THEN a ELSE b

\* Faulty variant: the high is corrected by the close alone.
ConsistentToClose(o, h, l, c) ==
  [open |-> o, high |-> Larger(h, c), low |-> Smaller(Smaller(o, h), Smaller(l, c)), close |-> c]

\* _validate_ohlc_consistency: high and low are made those of the four prices
Consistent(o, h, l, c) ==
  [open |-> o, high |-> Larger(Larger(o, h), Larger(l, c)),
   low |-> Smaller(Smaller(o, h), Smaller(l, c)), close |-> c]

\* validate_ohlcv raises unless this holds
Admissible(k) ==
  k.tf \in Valid /\ PriceOk(k.open) /\ PriceOk(k.high) /\ PriceOk(k.low) /\ PriceOk(k.close)

\* the validated row; "of" is the candle it came from, for the properties only
RowOf(k, p) ==
  [of |-> <<k.tf, k.t>>, tf |-> p.tf, time |-> p.t, volume |-> Volume(p.volume),
   ohlc |-> Consistent(Round(p.open), Round(p.high), Round(p.low), Round(p.close))]

\* insert_ohlcv of a parsed candle: refused with a log line, or queued
Insert(k, p) ==
  /\ received < MaxKlines
  /\ received' = received + 1
  /\ queue' = IF Admissible(p) THEN Append(queue, RowOf(k, p)) ELSE queue
  /\ UNCHANGED <<stored, events>>

-----------------------------------------------------------------------------
(* The ways in and out.                                                    *)

\* handle_websocket_message passes on closed candles only
WebSocket(k) == k.closed /\ Insert(k, Parsed(k, k.tf))

\* _fill_gap inserts what REST returned, the open candle included
Rest(k, asked) == k.tf = Interval(asked) /\ Insert(k, Parsed(k, asked))

\* _build_payload: the values of the row as exact decimals; no row says otherwise, so
\* each one is announced as closed
Payload(r) ==
  [tf |-> r.tf, time |-> r.time, volume |-> r.volume, ohlc |-> r.ohlc, is_closed |-> TRUE]

\* _write_batch inserts a row and then publishes its payload
Write ==
  /\ queue # <<>>
  /\ queue' = Tail(queue)
  /\ stored' = stored \cup {Head(queue)} /\ events' = events \cup {Payload(Head(queue))}
  /\ UNCHANGED received

Next == Write \/ \E k \in Kline : WebSocket(k) \/ \E asked \in Timeframes : Rest(k, asked)

Spec == Init /\ [][Next]_vars

-----------------------------------------------------------------------------
(* Properties.                                                             *)

\* A row that a strategy could trade on.
Sound(r) ==
  LET p == r.ohlc
  IN  /\ MinPrice <= p.low /\ p.high <= MaxPrice
      /\ p.low <= p.open /\ p.open <= p.high
      /\ p.low <= p.close /\ p.close <= p.high
      /\ r.volume >= 0 /\ r.tf \in Valid

\* validate_ohlcv: whatever the exchange sends, the table and the subscribers only get
\* candles whose prices are in range and lie between their low and their high.
RowsAreSound == \A r \in stored \cup events : Sound(r)

\* _normalize_timestamp: of a timeframe that is collected, the rows that the feed and the
\* recovery store for one candle have one key, so that one replaces the other, and those
\* of two candles have two: no five-minute candle that was fetched in the place of a
\* timeframe without interval ends up among them.
OneKeyPerCandle ==
  \A r, s \in stored : {r.tf, s.tf} \subseteq Collected
    => (<<r.tf, r.time>> = <<s.tf, s.time>> <=> r.of = s.of)

\* get_historical_klines says that it normalizes to the exact boundary: no candle replaces
\* another.  Not so of the code when any other timeframe is asked for: the five-minute
\* candles of half an hour get one key.
NoneIsReplaced == \A r, s \in stored : <<r.tf, r.time>> = <<s.tf, s.time>> => r.of = s.of
=============================================================================

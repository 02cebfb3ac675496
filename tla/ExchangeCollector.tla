-------------------------- MODULE ExchangeCollector --------------------------
(***************************************************************************)
(* ExchangeCollector of src/src/collectors/exchange_collector.py: start(), *)
(* stop(), the worker tasks start() creates, the watchers one of them      *)
(* creates in turn, and the history of candles they keep for each pair.    *)
(*                                                                         *)
(* A step is what runs between two awaits.  A cancelled task ends before   *)
(* its canceller is resumed.  Exchange, database and cache are external:   *)
(* their calls may fail, and a sleep has any length.  Of the time frames   *)
(* one is kept; tickers and order books are only the calls they cost.      *)
(***************************************************************************)
EXTENDS RateLimiter, FiniteSetsExt

CONSTANTS
  Pairs,      \* how many pairs load_markets() keeps           (50)
  Fallback,   \* how many pairs there are without it           (2)
  Quoted,     \* pairs[:10] and pairs[:5], the pairs asked for one by one and the
  Watched,    \*   pairs subscribed to
  Days,       \* the candles asked for when the table has none (30 days)
  Limit,      \* the candles of one reply                      (1000)
  Frame,      \* the time frame, in minutes
  Newest,     \* bound: the last candle to open
  Starters,   \* the tasks that call start()
  Stoppers,   \* the tasks that call stop(), perhaps the same
  Exchanges,  \* what the exchange object may support of "watchOHLCV" and "fetchTickers"
  Kinds,      \* the workers there are: "ohlcv", "ticker", "book", "quality", "heartbeat",
              \*   "socket" (an instance may leave some out)
  Runs,       \* slots for the tasks made by one start()
  Rounds,     \* slots for the _watch_ohlcv tasks made in one go (bound: it is done every hour)
  None

ASSUME PairAssumption ==
  Pairs \in Nat /\ Fallback \in 1..Pairs /\ Quoted \in Nat \ {0} /\ Watched \in Nat
ASSUME CandleAssumption ==
  Days \in Nat /\ Limit \in Nat \ {0} /\ Frame \in Nat \ {0} /\ Newest \in Nat
ASSUME SlotAssumption == IsFiniteSet(Runs) /\ IsFiniteSet(Rounds) /\ None \notin Runs

VARIABLES
  running,   \* is_running
  pairs,     \* the length of self.pairs
  tasks,     \* self.tasks: the run it lists, or None
  caller,    \* what each caller is awaiting
  work,      \* run -> kind -> where the worker is, its pair, and the candles asked for or received
  watcher,   \* slot -> pair -> where its _watch_ohlcv task is, and the candle it received
  has,       \* the abilities of the exchange object
  now,       \* the candle that is open
  rows,      \* the table: pair -> candle -> "none", "open" (a part of it) or "final"
  fresh,     \* the pairs whose last_update in the cache is recent
  missing,   \* pair -> missing_candles as last saved, or None
  interrupted \* history: a stop() has met a start() that was still loading the markets

lifeVars == <<running, pairs, tasks, caller, interrupted>>
dataVars == <<rows, fresh, missing>>
vars == <<lifeVars, work, watcher, has, now, dataVars, limiterVars>>

Callers == Starters \cup Stoppers
Pair == 1..Pairs
Candle == 0..Newest
Least(a, b) == IF a <= b THEN a ELSE b

At(place, p) == [at |-> place, pair |-> p, from |-> 0, to |-> 0, seen |-> 0]
Gone == At("ended", 1)
Top  == At("top", 1)
Alive(g) == \E k \in Kinds : work[g][k].at # "ended"
Free == {g \in Runs : ~Alive(g)}

Init ==
  /\ running = FALSE /\ pairs = 0 /\ tasks = None /\ caller = [c \in Callers |-> "idle"]
  /\ work = [g \in Runs |-> [k \in Kinds |-> Gone]]
  /\ watcher = [n \in Rounds |-> [p \in Pair |-> At("ended", p)]]
  /\ has \in Exchanges
  /\ now = 0 /\ rows = [p \in Pair |-> [k \in Candle |-> "none"]]
  /\ fresh = {} /\ missing = [p \in Pair |-> None] /\ interrupted = FALSE
  /\ LimiterInit

-----------------------------------------------------------------------------
(* start() and stop().                                                     *)

Calls(c, what) == caller' = [caller EXCEPT ![c] = what]

\* start() of a collector that is not running; otherwise it returns at once
StartBegins(c) ==
  /\ caller[c] = "idle" /\ ~running /\ running' = TRUE /\ Calls(c, "load")
  /\ UNCHANGED <<pairs, tasks, interrupted, work, watcher, has, now, dataVars, limiterVars>>

\* the workers of a run, each before its first step
Crew == [k \in Kinds |-> IF k = "socket" /\ "watchOHLCV" \notin has THEN Gone ELSE Top]

\* load_markets() is over, the pairs are known or assumed; nothing tests is_running again
Loaded(c, ok) ==
  /\ caller[c] = "load" /\ Calls(c, "idle")
  /\ pairs' = IF ok THEN Pairs ELSE Fallback
  /\ \E g \in Free : tasks' = g /\ work' = [work EXCEPT ![g] = Crew]
  /\ UNCHANGED <<running, interrupted, watcher, has, now, dataVars, limiterVars>>

\* what a reply with the candles r.from to r.to, given while r.seen was open, makes of
\* the rows old
Upserted(old, r) ==
  [k \in Candle |-> IF k \in r.from..r.to THEN IF k < r.seen THEN "final" ELSE "open" ELSE old[k]]

Saved(g, p) == [rows EXCEPT ![p] = Upserted(@, work[g]["ohlcv"])]

\* stop(): the workers of the listed run are cancelled; a save under way may still be done
StopBegins(c) ==
  /\ caller[c] = "idle" /\ running' = FALSE /\ Calls(c, "close")
  /\ interrupted' = (interrupted \/ \E d \in Callers : caller[d] = "load")
  /\ work' = [g \in Runs |-> IF g = tasks THEN [k \in Kinds |-> Gone] ELSE work[g]]
  /\ \/ UNCHANGED rows
     \/ \E g \in Runs : /\ g = tasks /\ work[g]["ohlcv"].at = "save"
                        /\ rows' = Saved(g, work[g]["ohlcv"].pair)
  /\ UNCHANGED <<pairs, tasks, watcher, has, now, fresh, missing, limiterVars>>

\* Faulty variant: the exchange is left open.
StopEndsStillOpen(c) ==
  /\ caller[c] = "close" /\ Calls(c, "idle")
  /\ UNCHANGED <<running, pairs, tasks, interrupted, work, watcher, has, now, dataVars, limiterVars>>

\* exchange.close() is over: whoever awaits the exchange has got an exception
StopEnds(c) ==
  /\ caller[c] = "close" /\ Calls(c, "idle")
  /\ watcher' = [n \in Rounds |-> [p \in Pair |->
                   IF watcher[n][p].at = "watch" THEN At("ended", p) ELSE watcher[n][p]]]
  /\ work' = [g \in Runs |->
                IF work[g]["ohlcv"].at = "fetch"
                THEN [work[g] EXCEPT !["ohlcv"] = At("limit", @.pair)] ELSE work[g]]
  /\ UNCHANGED <<running, pairs, tasks, interrupted, has, now, dataVars, limiterVars>>

-----------------------------------------------------------------------------
(* _collect_ohlcv_worker.                                                  *)

Goes(g, k, where) == work' = [work EXCEPT ![g][k] = At(where, @.pair)]
Others == <<lifeVars, watcher, has, now>>

\* the head of the loop; the sleep at its end belongs to it
Collects(g) ==
  /\ work[g]["ohlcv"].at = "top"
  /\ work' = [work EXCEPT ![g]["ohlcv"] = IF running THEN At("check", 1) ELSE Gone]
  /\ UNCHANGED <<Others, dataVars, limiterVars>>

\* _should_update looks into the cache; its failure ends the round over the pairs
ShouldUpdate(g) ==
  LET p == work[g]["ohlcv"].pair IN
  /\ work[g]["ohlcv"].at = "check"
  /\ \/ Goes(g, "ohlcv", IF p \in fresh THEN "limit" ELSE "last")
     \/ work' = [work EXCEPT ![g]["ohlcv"] = Top]
  /\ UNCHANGED <<Others, dataVars, limiterVars>>

Stored(p) == {k \in Candle : rows[p][k] # "none"}

\* Faulty variant: the last candle stored is not asked for again.
AskAfterLast(g) ==
  LET p == work[g]["ohlcv"].pair IN
  /\ work[g]["ohlcv"].at = "last"
  /\ work' = [work EXCEPT ![g]["ohlcv"].at = "fetch", ![g]["ohlcv"].from =
       IF Stored(p) # {} THEN Max(Stored(p)) + 1 ELSE IF now > Days THEN now - Days ELSE 0]
  /\ UNCHANGED <<Others, dataVars, limiterVars>>

\* _get_last_timestamp returns: ask for the candles from the last one stored on
Ask(g) ==
  LET p == work[g]["ohlcv"].pair IN
  /\ work[g]["ohlcv"].at = "last"
  /\ work' = [work EXCEPT ![g]["ohlcv"].at = "fetch", ![g]["ohlcv"].from =
       IF Stored(p) # {} THEN Max(Stored(p)) ELSE IF now > Days THEN now - Days ELSE 0]
  /\ UNCHANGED <<Others, dataVars, limiterVars>>

\* fetch_ohlcv returns the oldest of them, the open one included; a reply may be empty
Reply(g) ==
  /\ work[g]["ohlcv"].at = "fetch" /\ work[g]["ohlcv"].from <= now
  /\ work' = [work EXCEPT ![g]["ohlcv"].at = "save", ![g]["ohlcv"].seen = now,
                          ![g]["ohlcv"].to = Least(now, work[g]["ohlcv"].from + Limit - 1)]
  /\ UNCHANGED <<Others, dataVars, limiterVars>>

\* save_ohlcv_batch returns
Save(g) ==
  /\ work[g]["ohlcv"].at = "save" /\ Goes(g, "ohlcv", "cache")
  /\ rows' = Saved(g, work[g]["ohlcv"].pair)
  /\ UNCHANGED <<Others, fresh, missing, limiterVars>>

\* _update_cache sets last_update
UpdateCache(g) ==
  /\ work[g]["ohlcv"].at = "cache" /\ Goes(g, "ohlcv", "limit")
  /\ fresh' = fresh \cup {work[g]["ohlcv"].pair}
  /\ UNCHANGED <<Others, rows, missing, limiterVars>>

\* any of these calls raises, a save perhaps after it was done, or the reply is empty:
\* on to the next pair
CollectFails(g) ==
  /\ work[g]["ohlcv"].at \in {"last", "fetch", "save", "cache"} /\ Goes(g, "ohlcv", "limit")
  /\ \/ UNCHANGED rows
     \/ work[g]["ohlcv"].at = "save" /\ rows' = Saved(g, work[g]["ohlcv"].pair)
  /\ UNCHANGED <<Others, fresh, missing, limiterVars>>

\* the interval of _should_update is over, or the entry of the cache expires
Ages(p) ==
  /\ p \in fresh /\ fresh' = fresh \ {p}
  /\ UNCHANGED <<lifeVars, work, watcher, has, now, rows, missing, limiterVars>>

-----------------------------------------------------------------------------
(* The other workers.                                                      *)

\* the pairs a worker goes through one by one; the main pairs are the default ones
Round(k) ==
  CASE k = "ohlcv" -> pairs [] k = "ticker" -> Least(pairs, Quoted) [] k = "book" -> Fallback

\* tickers and order books are fetched for one pair, saved, and a permit awaited;
\* a failure ends the round
Quotes(g, k) ==
  /\ k \in {"ticker", "book"} /\ work[g][k].at = "top" /\ running
  /\ k = "ticker" => "fetchTickers" \notin has
  /\ Goes(g, k, "limit")
  /\ UNCHANGED <<Others, dataVars, limiterVars>>

\* a permit is granted: the next pair, if there is one and its call does not fail
NextPair(g, k) ==
  LET i == work[g][k].pair + 1
      there == At(IF k = "ohlcv" THEN "check" ELSE "limit", i)
  IN  /\ work[g][k].at = "limit" /\ Grant
      /\ \/ i <= Round(k) /\ work' = [work EXCEPT ![g][k] = there]
         \/ (i > Round(k) \/ k # "ohlcv") /\ work' = [work EXCEPT ![g][k] = Top]
      /\ UNCHANGED <<Others, dataVars>>

\* no permit yet
Polls(g, k) ==
  /\ work[g][k].at = "limit" /\ Refusal
  /\ UNCHANGED <<Others, work, dataVars>>

\* at the head of its loop a worker finds that is_running is false
Ends(g, k) ==
  /\ k # "ohlcv" /\ work[g][k].at = "top" /\ ~running
  /\ work' = [work EXCEPT ![g][k] = Gone]
  /\ UNCHANGED <<Others, dataVars, limiterVars>>

\* _get_expected_intervals as it is called, with a number of rows for the hours
ExpectedIntervals(n) == IF Frame < 60 THEN (60 \div Frame) * n ELSE n \div (Frame \div 60)

\* _check_data_quality; with no interval expected the division fails
QualityCheck(g, p) ==
  LET n == Least(1000, Cardinality(Stored(p))) IN
  /\ "quality" \in Kinds /\ work[g]["quality"].at = "top" /\ p <= pairs /\ n > 0 /\ ExpectedIntervals(n) > 0
  /\ missing' = [missing EXCEPT ![p] = ExpectedIntervals(n) - n]
  /\ UNCHANGED <<Others, work, rows, fresh, limiterVars>>

\* _websocket_worker makes a watcher for each of the first pairs, and does so every hour
Subscribe(g) ==
  /\ "socket" \in Kinds /\ work[g]["socket"].at = "top" /\ running
  /\ \E n \in Rounds :
       /\ \A p \in Pair : watcher[n][p].at = "ended"
       /\ watcher' = [watcher EXCEPT ![n] =
                        [p \in Pair |-> IF p <= Least(pairs, Watched) THEN [@[p] EXCEPT !.at = "top"] ELSE @[p]]]
  /\ UNCHANGED <<lifeVars, work, has, now, dataVars, limiterVars>>

-----------------------------------------------------------------------------
(* _watch_ohlcv.                                                           *)

Moves(n, p, where) == watcher' = [watcher EXCEPT ![n][p] = At(where, p)]

\* the head of the loop
Watches(n, p) ==
  /\ watcher[n][p].at = "top" /\ Moves(n, p, IF running THEN "watch" ELSE "ended")
  /\ UNCHANGED <<lifeVars, work, has, now, dataVars, limiterVars>>

\* the last candle of an update: the open one, or the one just closed
Update(n, p) ==
  /\ watcher[n][p].at = "watch"
  /\ \E k \in {now - 1, now} \cap Candle :
       watcher' = [watcher EXCEPT ![n][p] =
                      [at |-> "save", pair |-> p, from |-> k, to |-> k, seen |-> now]]
  /\ UNCHANGED <<lifeVars, work, has, now, dataVars, limiterVars>>

\* _process_realtime_candle returns
Process(n, p) ==
  /\ watcher[n][p].at = "save" /\ Moves(n, p, "top")
  /\ rows' = [rows EXCEPT ![p] = Upserted(@, watcher[n][p])]
  /\ UNCHANGED <<lifeVars, work, has, now, fresh, missing, limiterVars>>

\* the exchange, the table or the broadcast fails: the watcher ends
WatchFails(n, p) ==
  /\ watcher[n][p].at \in {"watch", "save"} /\ Moves(n, p, "ended")
  /\ \/ UNCHANGED rows
     \/ watcher[n][p].at = "save" /\ rows' = [rows EXCEPT ![p] = Upserted(@, watcher[n][p])]
  /\ UNCHANGED <<lifeVars, work, has, now, fresh, missing, limiterVars>>

-----------------------------------------------------------------------------
CandleCloses ==
  /\ now < Newest /\ now' = now + 1
  /\ UNCHANGED <<lifeVars, work, watcher, has, dataVars, limiterVars>>

TimePasses == Tick /\ UNCHANGED <<lifeVars, work, watcher, has, now, dataVars>>

CallerStep(c) == (\E ok \in BOOLEAN : Loaded(c, ok)) \/ StopEnds(c)
CollectorStep(g) ==
  Collects(g) \/ ShouldUpdate(g) \/ Ask(g) \/ Reply(g) \/ Save(g) \/ UpdateCache(g) \/ CollectFails(g)
LimiterStep(g, k) == NextPair(g, k) \/ Polls(g, k)
WatcherStep(n, p) == Watches(n, p) \/ Update(n, p) \/ Process(n, p) \/ WatchFails(n, p)

Next ==
  \/ (\E c \in Starters : StartBegins(c)) \/ (\E c \in Stoppers : StopBegins(c))
  \/ \E c \in Callers : CallerStep(c)
  \/ \E g \in Runs : CollectorStep(g) \/ Subscribe(g) \/ \E p \in Pair : QualityCheck(g, p)
  \/ \E g \in Runs, k \in Kinds : Quotes(g, k) \/ LimiterStep(g, k) \/ Ends(g, k)
  \/ \E n \in Rounds, p \in Pair : WatcherStep(n, p)
  \/ CandleCloses \/ TimePasses \/ \E p \in Pair : Ages(p)

Spec == Init /\ [][Next]_vars

\* Every ready task runs and time passes.  REST, table and cache calls end; an update of
\* the stream need never come, and nothing obliges anybody to call start() or stop().
Fairness ==
  /\ \A c \in Callers : WF_vars(CallerStep(c))
  /\ \A g \in Runs : WF_vars(CollectorStep(g))
  /\ \A g \in Runs, k \in Kinds \cap {"ohlcv", "ticker", "book"} : WF_vars(LimiterStep(g, k))
  /\ \A g \in Runs, k \in Kinds \ {"ohlcv"} : WF_vars(Ends(g, k))
  /\ \A n \in Rounds, p \in Pair :
       WF_vars(Watches(n, p)) /\ WF_vars(watcher[n][p].at = "save" /\ WatcherStep(n, p))
  /\ WF_vars(TimePasses)
FairSpec == Spec /\ Fairness

-----------------------------------------------------------------------------
(* Properties.                                                             *)

\* the table of a pair has no hole, and every candle before the last one is the whole candle
Whole(p) ==
  \A k, l \in Candle : rows[p][k] # "none" /\ rows[p][l] # "none" =>
    \A m \in k..(l - 1) : rows[p][m] = "final"

\* _collect_ohlcv starts again from the last candle stored.  Whatever reply is cut at the
\* limit, fails, is lost or is cancelled, and however often the collector is stopped and
\* started again, the history is whole: until a stop() meets a start() that still loads the
\* markets, whose workers then run beside those of the next start(), and unless the exchange
\* has streams, whose watchers write the same rows.
HistoryIsWhole == ~interrupted /\ "watchOHLCV" \notin has => \A p \in Pair : Whole(p)

\* After stop() every worker and every watcher comes to its end unless somebody calls
\* start() again: stop() cancels the workers it knows, is_running and the closing of the
\* exchange have to reach the others.
Quiet == /\ \A g \in Runs : ~Alive(g)
         /\ \A n \in Rounds, p \in Pair : watcher[n][p].at = "ended"

StopsForGood == ~running ~> running \/ Quiet

\* Somebody who waits for a permit gets it: the limiter never jams.
Waiting == \E g \in Runs, k \in Kinds : work[g][k].at = "limit"

NeverJams == Waiting ~> ~Waiting \/ \E r \in Tokens : age[r] = 0

-----------------------------------------------------------------------------
(* What the comments of the code promise and the code does not do.         *)

\* exchange_collector.py:86 "if self.is_running: return", a second start() does nothing: the
\* history is whole whenever start() and stop() are called.
StartsAreAlone == "watchOHLCV" \notin has => \A p \in Pair : Whole(p)

\* exchange_collector.py:273 "subscribe anew every hour": a pair is watched once.
OneWatcherPerPair ==
  \A p \in Pair : Cardinality({n \in Rounds : watcher[n][p].at # "ended"}) <= 1

\* exchange_collector.py:320 "check for missing data": what is saved as missing is the
\* number of holes between the first and the last candle.
Holes(p) == Max(Stored(p)) - Min(Stored(p)) + 1 - Cardinality(Stored(p))

MissingIsCounted ==
  [][\A p \in Pair : missing'[p] # missing[p] => missing'[p] = Holes(p)]_vars
=============================================================================

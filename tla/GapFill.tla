------------------------------ MODULE GapFill ------------------------------
(***************************************************************************)
(* Gap recovery of one series (src/src/services/recovery.py), that is one  *)
(* symbol and timeframe: the round robin over the symbols that brings its  *)
(* turn, find_data_gaps, the candles fetched by REST (get_historical_klines *)
(* of binance.py), and their rows put on the write queue beside those of   *)
(* the WebSocket feed.                                                     *)
(*                                                                         *)
(* find_data_gaps and _check_existing_data read with client.execute, which *)
(* in the aiochclient of requirements.txt returns nothing for a SELECT     *)
(* (fetch would return the rows).  So the first always reports its whole   *)
(* window as one gap, and the second never finds a row; what the code      *)
(* would do with rows is not reached and not modelled.                     *)
(*                                                                         *)
(* Time is in minutes; a candle is its open time.  The table keeps the row *)
(* inserted last for a candle, as ReplacingMergeTree without a version     *)
(* column does, and gets the rows in queue order (WritePipeline).          *)
(***************************************************************************)
EXTENDS Integers, Sequences, FiniteSets

CONSTANTS
  Delta,      \* length of a candle                     (1, 5, 15 or 60)
  Window,     \* how far back the search goes  (120, 240, 720 or 1440)
  MaxGap,     \* max_gap_minutes                        (720)
  QueueCap,   \* _write_queue.maxsize                   (500)
  Drained,    \* whether the queue is empty by the next check, a minute later
  Slots,      \* symbols checked in a round besides those with priority  (40 to 50)
  MaxOthers,  \* bound: the symbols without priority
  MaxChanges, \* bound: the lists of symbols added, symbols removed and ranges recovered by hand
  Asked,      \* bound: the range recovered by hand, up to now
  Horizon,    \* bound: the last minute of a behaviour
  MaxFaults   \* bound: queries, requests and rounds that fail in one behaviour

ASSUME TimeAssumption == {Delta, Window, MaxGap} \subseteq Nat \ {0} /\ Horizon \in Nat /\ Horizon >= Window
ASSUME RoundAssumption == Slots \in Nat \ {0} /\ MaxOthers \in Nat \ {0} /\ MaxChanges \in Nat
ASSUME CapAssumption == Asked \in 0..Window /\ QueueCap \in Nat \ {0} /\ MaxFaults \in Nat /\ Drained \in BOOLEAN

VARIABLES
  now,      \* the clock
  fed,      \* the feed has delivered or lost every candle before this one
  queue,    \* the rows on their way to the table
  table,    \* candle -> what the table has of it: "none", "partial" or "final"
  others,   \* the length of other_symbols, the symbols without priority
  place,    \* the place in it of the symbol of the series, from 0
  index,    \* _symbol_cycle_index
  turns,    \* how often the symbol is still to be checked in this round
  waited,   \* the rounds since the last turn or change of the list, for the properties only
  changes,  \* for the bound only
  rec,      \* where the recovery is: "idle", "query", "gap", "fetch" or "rows"
  window,   \* <<start_time, end_time>> of the search
  gaps,     \* the gaps not yet dealt with, the current one first: none or one
  rows,     \* the fetched rows not yet dealt with
  faults    \* for the bound only

listVars == <<others, place, changes>>
roundVars == <<index, turns, waited>>
recVars == <<rec, window, gaps, rows>>
vars == <<now, fed, queue, table, listVars, roundVars, recVars, faults>>

Candles == {c \in 0..Horizon : c % Delta = 0}
Least(a, b) == IF a <= b THEN a ELSE b
Row == [at : Candles, kind : {"partial", "final"}]
Closed(c) == c + Delta <= now
InWindow(c, w) == w[1] <= c /\ c <= w[2]

\* the members of S in order
Ascending(S) == [i \in 1..Cardinality(S) |-> CHOOSE t \in S : Cardinality({u \in S : u <= t}) = i]

\* the history before the first window does not matter; any of it may be stored
Init ==
  /\ now = Window /\ fed = Delta * ((Window + Delta - 1) \div Delta)
  /\ table \in [Candles -> {"none", "final"}]
  /\ \A c \in Candles : c + Delta > Window => table[c] = "none"
  /\ others \in 1..MaxOthers /\ place \in 0..(others - 1) /\ changes = 0
  /\ index = 0 /\ turns = 0 /\ waited = 0
  /\ queue = <<>> /\ rec = "idle" /\ window = <<0, Window>> /\ gaps = <<>> /\ rows = <<>>
  /\ faults = 0

-----------------------------------------------------------------------------
(* The feed, the write queue and the clock.                                *)

\* insert_ohlcv: a full queue drops the row
Enqueue(r) == queue' = IF Len(queue) < QueueCap THEN Append(queue, r) ELSE queue

Tick == now < Horizon /\ now' = now + 1 /\ UNCHANGED <<fed, queue, table, listVars, roundVars, recVars, faults>>

\* the frame of a closed candle arrives, or is lost with its connection
FeedNext(lost) ==
  /\ fed \in Candles /\ Closed(fed) /\ fed' = fed + Delta
  /\ IF lost THEN UNCHANGED queue ELSE Enqueue([at |-> fed, kind |-> "final"])
  /\ UNCHANGED <<now, table, listVars, roundVars, recVars, faults>>

\* the row at the head of the queue is in the table and replaces an earlier one
Flush ==
  /\ queue # <<>> /\ queue' = Tail(queue)
  /\ table' = [table EXCEPT ![Head(queue).at] = Head(queue).kind]
  /\ UNCHANGED <<now, fed, listVars, roundVars, recVars, faults>>

-----------------------------------------------------------------------------
(* The symbols and their turns.                                            *)

\* add_symbols appends what is new to the list of the collector
AddSymbols == others' \in (others + 1)..MaxOthers /\ UNCHANGED place

\* add_symbol and remove_symbol of the manager change the same list, by one symbol
SymbolsChange ==
  /\ changes < MaxChanges /\ changes' = changes + 1
  /\ \/ AddSymbols
     \/ /\ others > 1 /\ others' = others - 1
        /\ \/ place > 0 /\ place' = place - 1
           \/ place < others - 1 /\ UNCHANGED place
  /\ waited' = 0
  /\ UNCHANGED <<now, fed, queue, table, index, turns, recVars, faults>>

Fails == faults < MaxFaults /\ faults' = faults + 1

\* Faulty variant: every round begins with the same symbols.
TakesTurnsFromStart ==
  /\ turns' = Cardinality({i \in 0..(Slots - 1) : (index + i) % others = place})
  /\ UNCHANGED index

\* the symbols from the index on have their turn, a short list more than once
TakesTurns ==
  /\ turns' = Cardinality({i \in 0..(Slots - 1) : (index + i) % others = place})
  /\ index' = (index + Slots) % others

\* _check_and_recover_gaps begins; it checks nothing while the collector is not running
\* or when the status cannot be had
NextRound ==
  /\ rec = "idle" /\ turns = 0
  /\ \/ TakesTurns /\ waited' = (IF turns' > 0 THEN 0 ELSE waited + 1) /\ UNCHANGED faults
     \/ Fails /\ UNCHANGED roundVars
  /\ UNCHANGED <<now, fed, queue, table, listVars, recVars>>

-----------------------------------------------------------------------------
(* _recover_symbol_gaps and _fill_gap.                                     *)

\* the symbol has its turn: the window ends now, and the table is queried
CheckGaps ==
  /\ rec = "idle" /\ (Drained => queue = <<>>) /\ turns > 0 /\ turns' = turns - 1
  /\ rec' = "query" /\ window' = <<now - Window, now>>
  /\ UNCHANGED <<now, fed, queue, table, listVars, index, waited, gaps, rows, faults>>

\* after the current gap comes the next one, or the end of this check
AfterGap(gs) == gaps' = gs /\ rows' = <<>> /\ rec' = IF gs = <<>> THEN "idle" ELSE "gap"

\* find_data_gaps gets nothing from the driver, whatever the table has, and reports the
\* window; an error counts as no gap
GapsFound ==
  /\ rec = "query"
  /\ \/ AfterGap(<<window>>) /\ UNCHANGED faults
     \/ Fails /\ AfterGap(<<>>)
  /\ UNCHANGED <<now, fed, queue, table, listVars, roundVars, window>>

\* _fill_gap leaves a gap alone that is too large, and requests the others
TakeGap ==
  /\ rec = "gap"
  /\ \/ gaps[1][2] - gaps[1][1] > MaxGap /\ AfterGap(Tail(gaps))
     \/ gaps[1][2] - gaps[1][1] <= MaxGap /\ rec' = "fetch" /\ UNCHANGED <<gaps, rows>>
  /\ UNCHANGED <<now, fed, queue, table, listVars, roundVars, window, faults>>

\* the candles of the exchange that open in the gap g, the open one included
Klines(g) ==
  LET T == Ascending({c \in Candles : InWindow(c, g) /\ c <= now})
  IN  [i \in DOMAIN T |-> [at |-> T[i], kind |-> IF Closed(T[i]) THEN "final" ELSE "partial"]]

\* the REST request returns; an error counts as no data
Fetched ==
  /\ rec = "fetch"
  /\ \/ /\ Klines(gaps[1]) # <<>>
        /\ rec' = "rows" /\ rows' = Klines(gaps[1]) /\ UNCHANGED <<gaps, faults>>
     \/ Klines(gaps[1]) = <<>> /\ AfterGap(Tail(gaps)) /\ UNCHANGED faults
     \/ Fails /\ AfterGap(Tail(gaps))
  /\ UNCHANGED <<now, fed, queue, table, listVars, roundVars, window>>

\* Faulty variant: the loop ends with its first row.
RowCheckedAndDone ==
  /\ rec = "rows" /\ Enqueue(rows[1]) /\ AfterGap(Tail(gaps))
  /\ UNCHANGED <<now, fed, table, listVars, roundVars, window, faults>>

\* _check_existing_data comes back for the next row without having found anything, and
\* the row is put on the queue
RowChecked ==
  /\ rec = "rows" /\ Enqueue(rows[1])
  /\ IF Len(rows) > 1 THEN rows' = Tail(rows) /\ UNCHANGED <<rec, gaps>> ELSE AfterGap(Tail(gaps))
  /\ UNCHANGED <<now, fed, table, listVars, roundVars, window, faults>>

-----------------------------------------------------------------------------
(* recover_symbol_data: somebody asks for a range by hand.                 *)

\* The request returns, and its rows are put on the queue one after the other with no
\* look at the table.  An error, or a range without candles, changes nothing.
RecoverSymbolData ==
  /\ changes < MaxChanges /\ changes' = changes + 1
  /\ LET found == Klines(<<now - Asked, now>>)
     IN  /\ found # <<>>
         /\ queue' = queue \o SubSeq(found, 1, Least(Len(found), QueueCap - Len(queue)))
  /\ UNCHANGED <<now, fed, table, others, place, roundVars, recVars, faults>>

-----------------------------------------------------------------------------
RecStep == NextRound \/ CheckGaps \/ GapsFound \/ TakeGap \/ Fetched \/ RowChecked
FeedStep == \E lost \in BOOLEAN : FeedNext(lost)

Next == Tick \/ FeedStep \/ Flush \/ SymbolsChange \/ RecoverSymbolData \/ RecStep

Spec == Init /\ [][Next]_vars

\* The loop comes round, requests have a timeout in the library, and the write queue
\* is written.  The feed may lose every candle it has.
Fairness == WF_vars(RecStep) /\ WF_vars(Flush) /\ WF_vars(Tick)
FairSpec == Spec /\ Fairness

-----------------------------------------------------------------------------
(* Properties.                                                             *)

\* The types.
TypeOK ==
  /\ now \in Window..Horizon /\ fed \in 0..(Horizon + Delta)
  /\ queue \in Seq(Row) /\ Len(queue) <= QueueCap
  /\ table \in [Candles -> {"none", "partial", "final"}]
  /\ others \in 1..MaxOthers /\ place \in 0..(others - 1) /\ changes \in 0..MaxChanges
  /\ index \in 0..(MaxOthers - 1) /\ turns \in 0..Slots /\ waited \in Nat
  /\ rec \in {"idle", "query", "gap", "fetch", "rows"}
  /\ window \in (0..Horizon) \X (0..Horizon)
  /\ gaps \in Seq((0..Horizon) \X (0..Horizon))
  /\ rows \in Seq(Row) /\ faults \in 0..MaxFaults
  /\ (rec \in {"gap", "fetch", "rows"} <=> gaps # <<>>) /\ (rec = "rows" <=> rows # <<>>)

\* _symbol_cycle_index goes on by as many symbols as were checked, around a list whose
\* length may have changed under it: of two turns of a symbol the second comes before the
\* rounds between them have had room for every symbol of the list.  A change of the list
\* starts the count anew.
NobodyWaitsLong == waited * Slots < others

Whole == \A c \in Candles : InWindow(c, <<now - Window, now>>) /\ Closed(c) => table[c] = "final"

\* What the feed lost of the window is in the table in the end, as a closed candle,
\* however many requests, checks and rounds fail before and however the list of symbols
\* changes meanwhile: the round robin comes round to every symbol.  A window longer than
\* max_gap_minutes is too large a gap, and nothing is promised for it.
LossIsRepaired == Window <= MaxGap => <>[]Whole

-----------------------------------------------------------------------------
(* What the docs and comments promise and the code does not do.            *)

\* recovery.py:124 "Last 24 hours for 1h": the window of the hours is repaired too.
HoursAreRepaired == <>[]Whole

\* recovery.py:188 "Check if this timestamp already exists to avoid unnecessary inserts".
NothingInTwice ==
  [][rows # <<>> /\ rows' # rows /\ queue' = Append(queue, rows[1]) => table[rows[1].at] # "final"]_vars

\* openspec/specs/nats-event-bus/spec.md:64 is_closed "true = final/closed candle": as
\* every row is announced with is_closed true, only closed candles are written.
RowsAreClosed == \A i \in DOMAIN queue : queue[i].kind = "final"

\* recovery.py:185 "ReplacingMergeTree will handle duplicates": a row of a closed candle
\* is not replaced by an earlier, partial one.
DuplicatesAreHarmless ==
  [][\A c \in Candles : table[c] = "final" => table'[c] = "final"]_vars
=============================================================================

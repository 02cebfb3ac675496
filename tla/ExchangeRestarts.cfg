CONSTANTS
  Tokens = {t1, t2, t3}
  Rpm = 2
  Rps = 1
  Minute = 3
  Second = 1
  Pairs = 1
  Fallback = 1
  Quoted = 1
  Watched = 1
  Days = 1
  Limit = 2
  Frame = 60
  Newest = 2
  Starters = {c1}
  Stoppers = {c1, c2}
  Exchanges = {{}}
  Kinds = {"ohlcv", "ticker"}
  Runs = {g1, g2}
  Rounds = {n1}
  None = None
SPECIFICATION Spec
INVARIANTS HistoryIsWhole WithinRate
CHECK_DEADLOCK FALSE

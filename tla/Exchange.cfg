CONSTANTS
  Tokens = {t1, t2, t3}
  Rpm = 2
  Rps = 1
  Minute = 1
  Second = 1
  Pairs = 1
  Fallback = 1
  Quoted = 1
  Watched = 1
  Days = 1
  Limit = 2
  Frame = 60
  Newest = 2
  Starters = {c1}
  Stoppers = {c2}
  Exchanges = {{}, {"watchOHLCV", "fetchTickers"}}
  Kinds = {"ohlcv", "ticker", "quality", "socket"}
  Runs = {g1}
  Rounds = {n1}
  None = None
SPECIFICATION FairSpec
PROPERTIES StopsForGood NeverJams
CHECK_DEADLOCK FALSE

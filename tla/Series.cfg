CONSTANTS
  Frame = 30
  Targets = {60, 240}
  Threshold = 20
  Openings = {180, 210, 240, 330}
  Prices = {100, 200}
  MaxCandles = 3
SPECIFICATION SeriesSpec
INVARIANTS SeriesIsSound AggregateIsFaithful
PROPERTIES FillIsWhole
CHECK_DEADLOCK FALSE

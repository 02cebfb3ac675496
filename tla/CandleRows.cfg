CONSTANTS
  Timeframes = {30, 240, 43200}
  Times = {0, 5, 240}
  Values = {5, 15, 30}
  MinPrice = 1
  MaxPrice = 3
  MaxKlines = 2
SPECIFICATION Spec
INVARIANTS RowsAreSound OneKeyPerCandle
CHECK_DEADLOCK FALSE

SPECIFICATION Spec
CONSTANTS
  c1 = c1
  Coins = {c1}
  NoCoin = NoCoin
  MaxUint = 2
  MaxQueue = 1
  MaxGain = 2
  MaxLoss = 1
  Sizes = {1}
  Prices = {1, 2}
  Leverage = 1
  MinOrder = 1
  MaxAction = 2
  BPS = 4
  Buffers = {2}
  Switches <- RunningOrPaused
  Careful = TRUE
INVARIANTS TypeOK BooksMatchCore RealizedIsEarned SweptWasRealized
CHECK_DEADLOCK FALSE

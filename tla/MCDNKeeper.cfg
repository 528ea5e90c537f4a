SPECIFICATION KeeperSpec
CONSTANTS
  c1 = c1
  Coins = {c1}
  NoCoin = NoCoin
  MaxUint = 2
  MaxQueue = 1
  MaxGain = 1
  MaxLoss = 1
  Sizes = {1, 2}
  Prices = {1, 2}
  Leverage = 4
  MinOrder = 3
  MaxAction = 8
  BPS = 4
  Buffers = {0}
  Switches <- Halts
  Careful = FALSE
  MarginBps = 1
  Targets = {4}
  Dollar = 1
  Stale = {0, 2}
  MaxFailures = 1
INVARIANTS KeeperTypeOK NakedShortIsAlerted
PROPERTIES HedgeOutlivesShort
CHECK_DEADLOCK FALSE

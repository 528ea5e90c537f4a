SPECIFICATION Spec
CONSTANTS
  BPS = 4
  Buffers = {0, 1, 2}
  MaxMoney = 9
  MaxGrown = 5
INVARIANTS TypeOK ProfitIsGrowth
PROPERTIES UnsweptStays
CHECK_DEADLOCK FALSE

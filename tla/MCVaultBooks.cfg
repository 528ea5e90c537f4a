SPECIFICATION Spec
CONSTANTS
  u1 = u1
  u2 = u2
  s1 = s1
  s2 = s2
  Users = {u1, u2}
  Strategies = {}
  MaxUint = 8
  MaxList = 0
  SHARE_OFFSET = 2
  RESERVE_BPS = 1
  BPS = 4
  Caps = {0, 5}
  Fees = {1}
  Pauses = {TRUE, FALSE}
SYMMETRY DepositorSymmetry
INVARIANTS TypeOK PriceFloor ClaimsWithinBooks
PROPERTIES DepositNeverDilutes PriceFallsByRoundingOnly
CHECK_DEADLOCK FALSE

SPECIFICATION Spec
CONSTANTS
  u1 = u1
  u2 = u2
  s1 = s1
  s2 = s2
  Users = {u1}
  Strategies = {s1, s2}
  MaxUint = 3
  MaxList = 2
  SHARE_OFFSET = 1
  RESERVE_BPS = 1
  BPS = 4
  Caps = {0}
  Fees = {2}
  Pauses = {FALSE}
SYMMETRY StrategySymmetry
PROPERTIES BooksFollowMoney
CHECK_DEADLOCK FALSE

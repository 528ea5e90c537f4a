SPECIFICATION LoopSpec
CONSTANTS
  u1 = u1
  s1 = s1
  r1 = r1
  Users = {u1}
  Strategies = {s1}
  MaxUint = 3
  MaxList = 1
  SHARE_OFFSET = 1
  RESERVE_BPS = 1
  BPS = 4
  Caps = {0}
  Fees = {2}
  Pauses = {FALSE}
  Runs = {r1}
  BoostPct = 50
  TreasuryPct = 34
  MinAmount = 1
  MaxFees = 2
  MaxGap = 1
INVARIANTS LoopTypeOK CreditIsFunded ReceivedNeverOverstates
CHECK_DEADLOCK FALSE

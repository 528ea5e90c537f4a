SPECIFICATION Spec
CONSTANTS
  u1 = u1
  u2 = u2
  Users = {u1, u2}
  SCALE = 4
  Amounts = {1, 2}
  Funding = {2, 3}
  Durations = {1, 2}
  MaxTime = 5
  MaxBalance = 6
SYMMETRY StakerSymmetry
INVARIANTS TypeOK Backed
PROPERTIES EarnedNeverFalls EarnedOnlyByTime
CHECK_DEADLOCK FALSE

SPECIFICATION Spec
CONSTANTS
  MaxUint = 3
  MaxFace = 4
  MaxLost = 1
  MaxPending = 1
  BPS = 4
  MaxHeadroom = 2
  Headrooms = {1, 2}
  MinBridges = {1, 2}
  Slip = 1
  Runbooks = {TRUE, FALSE}
  DirectReceive = FALSE
INVARIANTS TypeOK BookWithinSent FlightCovered CountsOnce
CHECK_DEADLOCK FALSE

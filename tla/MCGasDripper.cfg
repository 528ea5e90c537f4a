SPECIFICATION Spec
CONSTANTS
  Rows <- TwoQueues
  Unpayable <- FirstRefuses
  MaxPerRun = 2
  Margin = 1
  MaxTank = 2
  MaxFaults = 2
INVARIANTS TypeOK PaidOnce
PROPERTIES EveryoneIsServed

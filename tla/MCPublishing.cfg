SPECIFICATION PublishSpec
CONSTANTS
  w1 = w1
  Wallets = {w1}
  MaxBlock = 3
  MaxFailures = 2
  MaxDay = 2
  MaxRuns = 2
INVARIANTS PublishTypeOK FlowsReportedOnce SeriesHasReports PushedIsWhole FiguresAreOfTheirRun
PROPERTIES UnmatchedIsExplained
CHECK_DEADLOCK FALSE

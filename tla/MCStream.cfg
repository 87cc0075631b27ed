SPECIFICATION FairSpec
CONSTANTS
  Paths = {"x402", "erc8183"}
  Calls = 3
  MaxEvents = 3
CHECK_DEADLOCK FALSE
INVARIANTS ReportSound RunnerStopped
PROPERTIES AnalysisEnds

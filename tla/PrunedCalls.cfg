SPECIFICATION Spec
CONSTANTS
  Window = 10
  MinBudget = 2
  HardFloor = 2
  MaxRawTurns = 3
  RecentRuns = 2
  SummarySize = 1
  ResultSizes <- Large
  MaxCalls = 2
  MaxIterations = 4
  MaxTurns = 6
INVARIANTS EveryCallAnswered
CHECK_DEADLOCK FALSE

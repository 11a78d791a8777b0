SPECIFICATION Spec
CONSTANTS
  a = a
  r1 = r1
  Runs = {r1}
  Inputs = {a}
  MaxIterations = 3
  DoomMatch = 3
  FlushSize = 2
  MaxText = 2
  MaxCalls = 2
  MaxCancels = 2
  MaxFaults = 1
  MaxKills = 1
  NoRun = NoRun
INVARIANTS CallsAnswered UnsettledToolExplained CompletedTextSaved OneRetryPerRun RunningTurnExplained
PROPERTIES ToolRowsFinal
CHECK_DEADLOCK FALSE

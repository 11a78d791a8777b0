SPECIFICATION FairSpec
CONSTANTS
  a = a
  r1 = r1
  r2 = r2
  Runs = {r1, r2}
  Inputs = {a}
  MaxIterations = 2
  DoomMatch = 2
  FlushSize = 2
  MaxText = 0
  MaxCalls = 1
  MaxCancels = 1
  MaxFaults = 0
  MaxKills = 1
  NoRun = NoRun
PROPERTIES WritesUnderLock ImplementsSerial
CHECK_DEADLOCK FALSE

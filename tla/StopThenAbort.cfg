SPECIFICATION Spec
CONSTANTS
  s1 = s1
  c1 = c1
  Streams = {s1}
  Sessions = {c1}
  MaxActive = 1
  MaxEvents = 0
  MaxAborts = 0
  MaxFaults = 0
  MaxIterations = 1
  NoStream = NoStream
INVARIANTS StopSettlesTurn
CHECK_DEADLOCK FALSE

SPECIFICATION Spec
CONSTANTS
  s1 = s1
  s2 = s2
  c1 = c1
  Streams = {s1, s2}
  Sessions = {c1}
  MaxActive = 2
  MaxEvents = 0
  MaxAborts = 0
  MaxFaults = 0
  MaxIterations = 1
  NoStream = NoStream
INVARIANTS StopHitsTheGenerator
SYMMETRY StreamSymmetry
CHECK_DEADLOCK FALSE

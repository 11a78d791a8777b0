SPECIFICATION FairSpec
CONSTANTS
  s1 = s1
  s2 = s2
  c1 = c1
  Streams = {s1, s2}
  Sessions = {c1}
  MaxActive = 1
  MaxEvents = 1
  MaxAborts = 1
  MaxFaults = 1
  MaxIterations = 1
  NoStream = NoStream
INVARIANTS EndedHoldsNothing SlotsCounted InterruptedOnRequest SettledUnlessCutShort
PROPERTIES StopEndsGeneration EveryStreamEnds
CHECK_DEADLOCK FALSE

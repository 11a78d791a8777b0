CONSTANTS
  None = None
  Old = {a, b}
  Fresh = {c, d}
  Streams = {1, 2}
  MaxMoves = 2
SPECIFICATION Spec
SYMMETRY PageSymmetry
CHECK_DEADLOCK FALSE
INVARIANT SettledPane
PROPERTY StopCancelsItsStream

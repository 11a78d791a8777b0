SPECIFICATION Spec
CONSTANTS
  a1 = a1
  a2 = a2
  a3 = a3
  c1 = c1
  c2 = c2
  n1 = n1
  n2 = n2
  Actors = {a1, a2, a3}
  OldSessions = {c1}
  NewSessions = {c2}
  OldNames = {}
  NewNames = {n1, n2}
  MaxExports = 1
  Seed = Seed
  None = None
SYMMETRY Interchangeable
INVARIANTS OverlapOnlyAfterDelete RowKeepsFile OrphanFileExplained LibraryWithinCap ClosedAccountOwnsNothing
PROPERTIES LockRespected
CHECK_DEADLOCK FALSE

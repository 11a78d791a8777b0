SPECIFICATION Spec
CONSTANTS
  r1 = r1
  r2 = r2
  Requests = {r1, r2}
  LinkFlows = {connect}
  SignInFlows = {signin}
  Seed = Seed
  None = None
INVARIANTS NoSpentTokenSent LastActionWins SessionNotDropped
PROPERTIES CancelSticks Settles
CHECK_DEADLOCK FALSE

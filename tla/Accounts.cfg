SPECIFICATION Spec
CONSTANTS
  r1 = r1
  r2 = r2
  r3 = r3
  e1 = e1
  e2 = e2
  Requests = {r1, r2, r3}
  Emails = {e1, e2}
  Google = google
  Providers = {google, openai}
  Password = password
  Ids = {1, 2}
  MaxFailures = 2
  VerificationRequired = FALSE
  InFlight = 2
  Seed = Seed
  None = None
SYMMETRY Interchangeable
INVARIANTS FailuresLock FirstAccountLeads LinkHonoured NoSessionOfAnOldPassword RowsOfTheirAccount AlwaysAWayIn
CHECK_DEADLOCK FALSE

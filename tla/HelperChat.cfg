CONSTANTS
    Clients <- MCClients
    MaxCalls = 2
    MaxAttempts = 2
    MaxIterations = 2
    MaxSends = 2
    MaxRuns = 4
    None = None
SPECIFICATION Spec
INVARIANTS CallsWhole UnansweredExplained
PROPERTIES ImplementsModelStream HelperEnds
CHECK_DEADLOCK FALSE

SPECIFICATION OrderedSpec
CONSTANTS
    r1 = r1
    r2 = r2
    r3 = r3
    Row = {r1, r2, r3}
    Foreign = {r2}
    Closer = {c1}
    MaxPending = 2
    MaxRows = 2
    MaxAttempts = 2
    MaxAbandoned = 1
INVARIANTS
    DriverExact
    TruthfulAnswers
    CloseIsBarrier
PROPERTIES
    NobodyWaitsForStore

SPECIFICATION ReducedSpec
CONSTANTS
    u1 = u1
    u2 = u2
    p1 = p1
    p2 = p2
    a1 = a1
    a2 = a2
    None = None
    Upload = {u1, u2}
    Proc = {p1, p2}
    Actor = {a1, a2}
    Host <- HostDef
    Owner <- OwnerDef
    MaxActive = 1
    MaxPerActor = 1
    Size = 2
    Idle = 2
    Margin = 1
    Day = 1
    MaxSeq = 2
    MaxCrashes = 1
INVARIANTS
    SlotsExact
    LiveUploadIntact
PROPERTIES
    StagingReclaimed

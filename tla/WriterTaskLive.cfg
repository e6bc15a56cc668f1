CONSTANTS
    Req = {r1, r2}
    NoReq = NoReq
    Capacity = 1
    Kinds = {"wrapped", "topLevel", "vacuum", "checkpoint"}
    BeginMayLeak = TRUE
SPECIFICATION FairSpec
PROPERTIES
    CleanStart
    CallersResolve

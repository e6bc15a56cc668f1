CONSTANTS
    Req = {r1, r2, r3}
    NoReq = NoReq
    Capacity = 1
    Kinds = {"wrapped", "topLevel", "checkpoint"}
    BeginMayLeak = FALSE
SPECIFICATION Spec
SYMMETRY ReqSymmetry
INVARIANTS
    TruthfulReplies
    OrderlySettlement
    CountersExact
PROPERTIES
    ImplementsContract

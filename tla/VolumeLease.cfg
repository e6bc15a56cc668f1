CONSTANTS
    a1 = a1
    a2 = a2
    a3 = a3
    b1 = b1
    P = P
    Q = Q
    Thread = {a1, a2, a3, b1}
    Proc = {P, Q}
    ProcOf <- TwoProcesses
    NoThread = NoThread
SPECIFICATION LeaseFairSpec
INVARIANTS
    VolumeExclusive
    EntryReclaimed
    NoLostWakeup
PROPERTIES
    GrantsInArrivalOrder
    QueuedGetsTurn

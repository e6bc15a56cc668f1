SPECIFICATION Spec
CONSTANTS
    Thread = {t1, t2, t3}
    Span = {s1, s2}
    c1 = c1
    c2 = c2
    Conn = {c1, c2, c3, c4}
    NoConn = NoConn
    MaxReaders = 2
    FirstConns <- TwoReaders
SYMMETRY Symmetry
INVARIANTS
    PermitFindsReader
    SlotsConserved
    ReadersIsolated
    SnapshotBudget

SPECIFICATION SortedSpec
CONSTANTS
    u1 = u1
    u2 = u2
    u3 = u3
    Unit = {u1, u2, u3}
    NoUnit = NoUnit
    Pool = Pool
INVARIANTS
    IdleWriterClean
    LossIsContained
PROPERTIES
    RetiredServesNobody
    ImplementsContract
    WritesReturn

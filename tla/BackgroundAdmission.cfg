SPECIFICATION PlainSpec
CONSTANTS
    first = first
    second = second
    Job = {first, second}
    Class = {"warm"}
    ClassOf <- OneClass
    Limit <- OnePermit
    Observer = {o1}
CHECK_DEADLOCK FALSE
INVARIANTS
    AdmissionExact
PROPERTIES
    ShutdownSettles

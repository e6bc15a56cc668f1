SPECIFICATION OrderedSpec
CONSTANTS
    Proposal = {p1}
    Request = {1, 2}
    Actor = {alice, bob, local}
    Local = local
    System = system
INVARIANT
    FailedMeansNotCommitted

SPECIFICATION OrderedSpec
CONSTANTS
    Proposal = {p1}
    Request = {1, 2, 3}
    Actor = {alice, bob, local}
    Local = local
    System = system
INVARIANTS
    GraphFollowsVerdict
    RowIsFoldOfLog
    ClaimIsAccounted
PROPERTIES
    ApprovalIsAnswered

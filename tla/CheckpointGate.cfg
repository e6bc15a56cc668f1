SPECIFICATION GateFairSpec
CONSTANTS
    Claimer = {c1, c2, c3}
    Opener = {w, o1}
    TaskOpener = w
    Nobody = Nobody
INVARIANTS
    PostureIsSettled
    ClaimIsHonest
    TaskConnectionReached
PROPERTIES
    OpenLinearized
    GateNeverStuck

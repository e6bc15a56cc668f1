SPECIFICATION FairSpec
CONSTANTS
    old = old
    new = new
    before = before
    after = after
    Message = {m1}
    Worker = {old, new}
    Domain = {before, after}
    Current <- CurrentDef
    Known <- KnownDef
    Alien = alien
    NoId = none
    NoMessage = noMessage
    MaxCrashes = 2
INVARIANTS
    SendsAccounted
PROPERTIES
    MailSettles
CHECK_DEADLOCK FALSE

SPECIFICATION FairSpec
CONSTANTS
    s1 = s1
    s2 = s2
    s3 = s3
    r1 = r1
    r2 = r2
    Session <- MCSession
    Room <- MCRoom
    Asks <- MCAsks
    OutCap = 1
    Quota <- MCQuota
INVARIANTS
    TypeOK
    RoomsMatchSessions
    OnlyFromRoommates
PROPERTIES
    LossOnlyWhenFullOrDead
    DrainedBeforeGone
    DeadSessionLeaves
    IsMulticast
CHECK_DEADLOCK FALSE

SPECIFICATION FairSpec
CONSTANTS
    a = a
    b = b
    d1 = d1
    d2 = d2
    d3 = d3
    p = p
    Room = {a, b}
    OwnSession <- MCOwnSession
    Session <- MCSession
    PeerRoom <- MCPeerRoom
    Quota <- MCQuota
    Loop = {l1, l2}
    NoTarget = NoTarget
    NoSession = NoSession
    DedupeCap = 1
    MaxBreaks = 1
INVARIANTS
    TypeOK
    ConnectedIsALoopsSession
    ReprocessedOnlyAfterEviction
PROPERTY LoneLoopConnects
CHECK_DEADLOCK FALSE

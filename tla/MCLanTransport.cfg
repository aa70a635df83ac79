SPECIFICATION FairSpec
CONSTANTS
    Peer = {1, 2}
    Room = {a, b}
    Msg = {m1}
    Port = {1, 2}
    Slot = {c1, c2, c3}
    NoSlot = NoSlot
    MaxRuns = 3
    MaxFaults = 1
INVARIANTS
    TypeOK
    TableIsServed
    RoomsMixOnlyByReuse
PROPERTIES
    ImplementsContract
    RoommatesLink
    LinkedBroadcastArrives
CHECK_DEADLOCK FALSE

SPECIFICATION FairSpec
CONSTANTS
    Text = {}
    Image = {i}
    File = {f}
    Own = Own
    Nothing = Nothing
    Worker = {w1, w2}
    RecvAny = {}
    RecvImage = {r}
    FollowAny = {s}
    PasteClient = {}
    CopyClient = {c}
    SubCap = 1
    BufferCap = 1
INVARIANTS
    TypeOK
    AnswersFit
    FilesOnlyOnRequest
    LastCopyTracksClipboard
PROPERTY SubscriberIsServed
CHECK_DEADLOCK FALSE

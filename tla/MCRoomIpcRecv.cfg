SPECIFICATION Spec
CONSTANTS
    Text = {}
    Image = {i}
    File = {f}
    Own = Own
    Nothing = Nothing
    Worker = {w1, w2}
    RecvAny = {}
    RecvImage = {r}
    FollowAny = {s}
    PasteClient = {}
    CopyClient = {c}
    SubCap = 1
    BufferCap = 1
CHECK_DEADLOCK FALSE
INVARIANT RecvMissesNothing

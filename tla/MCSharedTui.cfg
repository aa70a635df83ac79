SPECIFICATION Spec
CONSTANTS
    Text = {t}
    Image = {i}
    Own = {o}
    TextFile = {A, B}
    Old = Old
    ClearOnExit = "ask"
    StreamCap = 1
    MaxRuns = 2
    MaxConfig = 1
INVARIANTS
    TypeOK
    PriorContentKept
    ClearAllTakesBack
    StopClears
    NoEcho
    ChatIsComplete
CHECK_DEADLOCK FALSE

SPECIFICATION Spec
CONSTANTS
    t1 = t1
    f1 = f1
    f2 = f2
    a = a
    b = b
    n = n
    TextMsg = {t1}
    FileMsg = {f1, f2}
    Name <- MCName
    Worker = {w1, w2}
    TextFile = {a, b}
    NoPath = NoPath
    FirstText = a
    NoMsg = NoMsg
    NoFile = NoFile
    Partial = Partial
    Old = Old
    OldText = {a}
    OldFile <- MCOldFile
    MaxCopy = 3
    BufferCap = 1
    MaxConfig = 1
    MaxRestart = 1
SYMMETRY MCSymmetry
INVARIANTS
    TypeOK
    PreSessionPreserved
    BufferedHasBlob
    ClearAllTakesBack
CHECK_DEADLOCK FALSE

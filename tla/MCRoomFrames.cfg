SPECIFICATION Spec
CONSTANTS
    g1 = g1
    g2 = g2
    Sender = {g1, g2}
    Size <- MCSize
    MaxLen = 2
INVARIANT FramesIntact
CHECK_DEADLOCK FALSE

SPECIFICATION Spec
CONSTANTS
    Client = {me, c}
    Me = me
    Daemon = {d1, d2}
    Target = {1, 2, 9}
    RPort = {1, 12}
    LPort = {1, 2}
    Pid = {1, 2}
    Elsewhere = 9
    MaxEvents = 1
PROPERTY
    StopTakesOurServers

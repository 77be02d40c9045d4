SPECIFICATION FairSpec
CONSTANTS
    c1 = c1
    c2 = c2
    p1 = p1
    p2 = p2
    p3 = p3
    here = here
    there = there
    None = None
    Cmd = {c1, c2}
    Pid = {p1, p2, p3}
    Other = {p3}
    Port = {here, there}
    PortOf <- MCPortOf
    MaxDisturbances = 3
INVARIANT Discoverable
PROPERTY ComesUp
CONSTRAINT MCNoRace
CHECK_DEADLOCK FALSE

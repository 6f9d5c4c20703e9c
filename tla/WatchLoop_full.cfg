SPECIFICATION FairSpec
CONSTANTS
    c1 = c1
    c2 = c2
    s1 = s1
    Files = {s1}
    Scripts = {}
    Config = Config
    Other = Other
    Checks = {c1}
    Capacity = 2
    MaxQueue = 1
    MaxEvents = 1
    MaxSaves = 3
PROPERTY WaitEnds
CHECK_DEADLOCK FALSE

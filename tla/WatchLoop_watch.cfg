SPECIFICATION FairSpec
CONSTANTS
    c1 = c1
    c2 = c2
    s1 = s1
    Files = {s1}
    Scripts = {s1}
    Config = Config
    Other = Other
    Checks = {c1, c2}
    Capacity = 10
    MaxQueue = 1
    MaxEvents = 1
    MaxSaves = 2
INVARIANT NoCheckForgotten
INVARIANT NoCheckOutlivesLoop
PROPERTY PrintsFresh
 
PROPERTY EventuallyEnds

CONSTANTS
    c1 = c1
    p1 = p1
    f1 = f1
    v1 = v1
    v2 = v2
    Absent = Absent
    None = None
    Commands = {c1}
    Servers = {p1}
    Files = {f1}
    Contents = {v1, v2}
    RetryLimit = 3
    MaxLives = 2
SPECIFICATION FairSpec
INVARIANTS HotIsCold AcceptedOnce Discoverable
PROPERTIES RequestsEnd CommandsEnd

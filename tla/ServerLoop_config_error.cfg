SPECIFICATION FairSpec
CONSTANTS
    doc = doc
    chk = chk
    poll = poll
    syn = syn
    ses = ses
    shut = shut
    w1 = w1
    w2 = w2
    NoRequest = NoRequest
    Requests = {syn, doc}
    Kind <- KindHere
    Retriable = {doc}
    Wanted <- WantedFirst
    Workers = {w1}
    PoolCapacity = 1
    SupportsConfig = TRUE
    ConfigMayFail = TRUE
    MaxEdits = 1
    MaxFsChanges = 0
    MaxFolders = 0
PROPERTY EveryRequestAnswered

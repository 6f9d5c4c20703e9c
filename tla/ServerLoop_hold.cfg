SPECIFICATION Spec
CONSTANTS
    doc = doc
    chk = chk
    poll = poll
    syn = syn
    ses = ses
    shut = shut
    w1 = w1
    w2 = w2
    NoRequest = NoRequest
    Requests = {doc, chk}
    Kind <- KindHere
    Retriable = {doc, chk}
    Wanted <- WantedSecond
    Workers = {w1, w2}
    PoolCapacity = 2
    SupportsConfig = FALSE
    ConfigMayFail = FALSE
    MaxEdits = 2
    MaxFsChanges = 1
    MaxFolders = 1
SYMMETRY WorkerSymmetry
INVARIANT TypeOK
INVARIANT OneCustodian
INVARIANT NoMissedWakeup
INVARIANT NoRequestLost

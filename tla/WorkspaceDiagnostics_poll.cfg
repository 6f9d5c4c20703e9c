SPECIFICATION FairSpec
CONSTANTS
    f1 = f1
    f2 = f2
    d1 = d1
    d2 = d2
    NoId = NoId
    Files = {f1, f2}
    Ids = {d1, d2}
    MaxEdits = 3
INVARIANT HeldClientCurrent
PROPERTY AnswersAreComplete
PROPERTY EventuallyCurrent

SPECIFICATION FairSpec
CONSTANTS
    s1 = s1
    a = a
    b = b
    w1 = w1
    w2 = w2
    Scripts = {s1}
    Project = Project
    Keys = {a, b}
    NoTag = NoTag
    Path = Path
    NoKey = NoKey
    Skipped = Skipped
    Failed = Failed
    Workers = {w1, w2}
    MaxSaves = 3
INVARIANT OneJob
INVARIANT ResultsExpected
INVARIANT NoResultForgotten
INVARIANT RecordedSyncRan
INVARIANT LastRequestWins
INVARIANT ProjectMetadataCurrent
PROPERTY NeverUnavailableAgain
PROPERTY ImplementsSync
PROPERTY EventuallySynchronized

SPECIFICATION FairSpec
CONSTANTS
    w1 = w1
    w2 = w2
    Workers = {w1, w2}
    Projects = {1, 2, 3}
    Initial = {2, 3}
    Removable = {1, 3}
INVARIANT TypeOK
INVARIANT IndexOwnedUnlessRemoved
INVARIANT SystemUniquelyOwned
INVARIANT ReadersSeeIndex
PROPERTY EditEnds

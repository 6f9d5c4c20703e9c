SPECIFICATION Spec
CONSTANTS
    w1 = w1
    w2 = w2
    Workers = {w1, w2}
    Projects = {1, 2}
    Initial = {1, 2}
    Removable = {2}
INVARIANT IndexUniquelyOwned

\* Three handlers at a time, one number of a work item (to be used again), two
\* agents, three writes, and one crash.
CONSTANTS
    c1 = c1
    c2 = c2
    c3 = c3
    Absent = Absent
    Bare = Bare
    Calls <- MCCalls
    MaxItems = 1
    MaxIds = 2
    MaxWrites = 3
    MaxCrashes = 1
SYMMETRY Symmetry
SPECIFICATION Spec
INVARIANTS
    RetiredStaysRetired
    
    StatusIsLatest
PROPERTIES
    NumbersAreOwn
CHECK_DEADLOCK FALSE

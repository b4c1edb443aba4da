\* Two agents start children while the user installs and rolls back.
CONSTANTS
    a1 = a1  a2 = a2  User = User
    Starters = {a1, a2}
    Versions = {1, 2}
    MaxInstalls = 2
    MaxHistory = 1
    Vanishing = {1}
    MaxRestarts = 2
SPECIFICATION Spec
INVARIANTS RollsBack 
PROPERTIES EveryStartEnds
CHECK_DEADLOCK FALSE

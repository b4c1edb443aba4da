\* Two logins, and three messages under way when the user does something.
CONSTANTS
    MaxLogins = 2
    MaxQueue = 3
SPECIFICATION Spec
INVARIANTS
    NoHelperLeft
PROPERTIES
    NoFalseFailure
    DialogLearns
CHECK_DEADLOCK FALSE

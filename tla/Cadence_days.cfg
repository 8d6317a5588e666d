SPECIFICATION CadenceSpec
CHECK_DEADLOCK FALSE
CONSTANTS
    Expressions <- MCFirstOfMonth
INVARIANT SoleDayFieldDecides

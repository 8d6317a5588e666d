CONSTANTS
    a1 = a1
    a2 = a2
    x1 = x1
    x2 = x2
    NoRequest = NoRequest
    Amendments = {a1, a2}
    Acceptances = {x1, x2}
    ValidDrafts = {TRUE, FALSE}
SPECIFICATION PlanSpec
INVARIANT UntouchedPlanAcceptable
CHECK_DEADLOCK FALSE

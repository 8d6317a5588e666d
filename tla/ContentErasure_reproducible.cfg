CONSTANTS
    c1 = c1
    c2 = c2
    r1 = r1
    r2 = r2
    e1 = e1
    e2 = e2
    e3 = e3
    NoHolder = NoHolder
    Contents = {c1, c2}
    DatasetRuns = {r1, r2}
    Scheduled = {r2}
    ContentOf <- MCContentOf
    RunScopeOf <- MCScopeOf
    Erasures = {e1, e2}
    DigestsOf <- MCDigestsOf
    Overriding = {e1}
    MaxLosses = 1
SPECIFICATION ErasureSpec
CHECK_DEADLOCK FALSE
INVARIANT ErasedNotReproducible

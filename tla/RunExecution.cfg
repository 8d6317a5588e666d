CONSTANTS
    c1 = c1
    c2 = c2
    NoOne = NoOne
    Candidates = {c1, c2}
    Workers = {w1, w2}
    Requests = {r1}
    NumExamples = 3
    Price <- TwoPrices
    MaxPrice = 2
    BudgetLimit = 5
    MaxTries = 3
    MaxCrashes = 2
    MayRaise = TRUE
SPECIFICATION FairSpec
INVARIANTS
    TypeOK
    BudgetOvershootBounded
    VerdictMatchesLedger
PROPERTIES
    CommittedWorkNeverRepeated
    ImplementsLedger
    RunEnds

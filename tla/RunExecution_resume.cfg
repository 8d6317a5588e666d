CONSTANTS
    c1 = c1
    c2 = c2
    NoOne = NoOne
    Candidates = {c1, c2}
    Workers = {w1, w2}
    Requests = {}
    NumExamples = 2
    Price <- TwoPrices
    MaxPrice = 2
    BudgetLimit = 9
    MaxTries = 2
    MaxCrashes = 1
    MayRaise = FALSE
SPECIFICATION FairSpec
PROPERTY ResolvedWorkNeverRepeated

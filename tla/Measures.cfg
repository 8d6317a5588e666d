SPECIFICATION MeasuresSpec
CHECK_DEADLOCK FALSE
CONSTANTS
    s1 = s1
    s2 = s2
    Absent = Absent
    Unset = Unset
    Scores = {0, 1, 2}
    MaxPairs = 2
    Resamples = 4
    Confidence = 200
    MaxCriteria = 2
    Criteria <- MCCriteria
    PinnedKinds <- MCKinds
    Runs <- MCRuns
    t1 = t1
    t2 = t2
    NotSet = NotSet
    r1 = r1
    r2 = r2
    Reviewers = {r1, r2}
    Nobody = Nobody
    NumJudges = 3
    JudgeScores = {0, 50, 80}
    Texts = {t1, t2}
    ReplyCost = 1
    MaxIterations = 3
    RegenerationBudget = 2
    Thresholds = {NotSet, 50}
    Minimums = {NotSet, 3}
    v1 = v1
    v2 = v2
    Servers = {v1, v2}
    Limits = {1, 2}
    Minute = 2
    MaxDelay = 1
    SkewOf <- MCSkew
    TimeToLive <- MCTimeToLive
    Expressions <- MCExpressions
    TargetOf <- MCTargetOf
    Bare <- MCBare
    MaxClock = 4
    a1 = a1
    a2 = a2
    x1 = x1
    x2 = x2
    NoRequest = NoRequest
    Amendments = {a1, a2}
    Acceptances = {x1, x2}
    ValidDrafts = {TRUE, FALSE}
    Kinds = {"prompt", "judge", "policy"}
    n1 = n1
    n2 = n2
    n3 = n3
    p1 = p1
    p2 = p2
    p3 = p3
    Additions = {n1, n2, n3}
    Publications = {p1, p2, p3}
    u1 = u1
    u2 = u2
    u3 = u3
    u4 = u4
    MeasuredRuns = {u1, u2, u3, u4}
    Analysed = u1
    NoScore = NoScore
    Means = {NoScore, 0, 2, 5}
    Grain = 3
    Unconfigured = Unconfigured
    Tolerances = {Unconfigured, 0, 3}
    Histories = {Unconfigured, 1, 2, 3}
INVARIANTS
    AbstentionNeverPasses
    ToleranceOnlyForgives
    BetterNeverFaresWorse
    PanelIsHonest
    AdmissionsBounded
    AcceptedPlanStands
    RegistryStands
    DriftIsOfTheMany
PROPERTIES
    BreachedFloorBlocks
    EveryCadenceFires

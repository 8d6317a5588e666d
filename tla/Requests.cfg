CONSTANTS
    q1 = q1
    q2 = q2
    q3 = q3
    s1 = s1
    s2 = s2
    y1 = y1
    y2 = y2
    m1 = m1
    NoOne = NoOne
    KeyOf <- SharedKey
    ScheduleBody = {m1}
    Posts = {q1, q2}
    Sweeps = {s1, s2}
    NumSchedules = 2
    MomentOf <- OneMinute
    PeriodOf <- Midnight
    BodyOf <- SameBody
    RunsPerPeriod = 2
    MaxLost = 1
    n1 = n1
    n2 = n2
    f1 = f1
    a1 = a1
    a2 = a2
    a3 = a3
    g1 = g1
    g2 = g2
    v1 = v1
    Nobody = Nobody
    Runs = {n1, n2}
    Scopes = {f1}
    ScopeOf <- OneScope
    Approvals = {a1, a2, a3}
    TargetOf <- Targets
    Gates = {g1, g2}
    CandidateOf <- Candidates
    NamedBy <- Named
    Versions = {v1}
    PolicyOf <- Policies
    MaxCrashes = 1
    p1 = p1
    p2 = p2
    k1 = k1
    k2 = k2
    k3 = k3
    k4 = k4
    k5 = k5
    b1 = b1
    b2 = b2
    b3 = b3
    b4 = b4
    b5 = b5
    i1 = i1
    t1 = t1
    t2 = t2
    w1 = w1
    h1 = h1
    h2 = h2
    h3 = h3
    u1 = u1
    u2 = u2
    o1 = o1
    Null = Null
    Principals = {p1, p2}
    Keys = {k1, k2, k3, k4, k5}
    Bindings = {b1, b2, b3, b4, b5}
    Issues = {i1}
    Rotations = {t1, t2}
    Revocations = {w1}
    Grants = {h1, h2, h3}
    Removals = {u1, u2}
    CredentialOf <- MCCredential
    AboutOf <- MCAbout
    NewKeyOf <- MCNewKey
    SubjectOf <- MCSubject
    RoleOf <- MCRole
    ProjectOf <- MCProject
    AdminRoles <- MCAdminRoles
    FirstKeys = {k1, k2}
    FirstBindings = {b1, b2}
    MaxRequests = 3
    MaxDropped = 1
    c1 = c1
    c2 = c2
    r1 = r1
    r2 = r2
    e1 = e1
    e2 = e2
    e3 = e3
    NoHolder = NoHolder
    Contents = {c1, c2}
    DatasetRuns = {r1, r2}
    Scheduled = {r2}
    ContentOf <- MCContentOf
    RunScopeOf <- MCScopeOf
    Erasures = {e1, e2}
    DigestsOf <- MCDigestsOf
    Overriding = {e1}
    MaxLosses = 1
SPECIFICATION PartsSpec
INVARIANTS
    AdmissionTypeOK
    QuotaBoundsRuns
    OneRunPerKey
    TypeOK
    UnnamedGateFindsBaseline
    AccessTypeOK
    AdministratorLostOnlyToRace
    RotationLeavesOneHeir
    NoTwinBindings
    ErasureTypeOK
    ErasedEvidenceDemoted
    ErasuresAccountedFor
PROPERTIES
    SubmissionsAnswered
    ScheduledRunsQueued
    ImplementsScopes
    ApprovalsAnswered
    RequestsAnswered
    PinsHonoured
    ErasuresAnswered

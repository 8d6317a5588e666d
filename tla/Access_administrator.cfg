CONSTANTS
    p1 = p1
    p2 = p2
    k1 = k1
    k2 = k2
    k3 = k3
    k4 = k4
    k5 = k5
    b1 = b1
    b2 = b2
    b3 = b3
    b4 = b4
    b5 = b5
    i1 = i1
    t1 = t1
    t2 = t2
    w1 = w1
    h1 = h1
    h2 = h2
    h3 = h3
    u1 = u1
    u2 = u2
    o1 = o1
    Null = Null
    Principals = {p1, p2}
    Keys = {k1, k2, k3, k4, k5}
    Bindings = {b1, b2, b3, b4, b5}
    Issues = {i1}
    Rotations = {t1, t2}
    Revocations = {w1}
    Grants = {h1}
    Removals = {u1, u2}
    CredentialOf <- MCCredential
    AboutOf <- MCAbout
    NewKeyOf <- MCNewKey
    SubjectOf <- MCSubject
    RoleOf <- MCRole
    ProjectOf <- MCProject
    AdminRoles <- MCAdminRoles
    FirstKeys = {k1, k2}
    FirstBindings = {b1, b2}
    MaxRequests = 2
    MaxDropped = 1
SPECIFICATION AccessSpec
CHECK_DEADLOCK FALSE
INVARIANT AdministratorRemains

CONSTANTS
    u1 = u1
    u2 = u2
    u3 = u3
    q1 = q1
    q2 = q2
    User = {u1, u2, u3}
    Request = {q1, q2}
    Free = Free
    Call = {q1, q2}
    Nobody = Nobody
    f1 = f1
    narrow = narrow
    Feature = {f1}
    Open = Open
    Allowed = {Open, narrow}
    MaxVersion = 2
    MaxReports = 2
SPECIFICATION MCSpec
CHECK_DEADLOCK FALSE
SYMMETRY Interchangeable
INVARIANT GuardKeepsAdmin
INVARIANT GuardedByAdmin
INVARIANT UsageExact
INVARIANT DecisionsStand
INVARIANT CachedFeaturesCurrent

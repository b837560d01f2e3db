SPECIFICATION MCSpec
CONSTANTS
    Parts = {"handoffs", "ceiling"}
    User = {u1}
    Service = {s1, s2}
    Client = {}
    Persistent = {}
    Role = {r1, r2}
    Jti = {j1, j2}
    Global = Global
    NoJti = NoJti
    Sec = 1
    TTL = 1
    Skew = 1
    Retention = 3
    IdentityRetention = 3
    MaxOffline = 1
    SavedMaxAge = 1
    HttpTimeout = 1
    Lifetimes = {1}
    MaxTokens = 2
    MaxRevocations = 1
    MaxGrants = 1
    MaxPolls = 1
    MaxNow = 3
    Person = {p1, p2}
    Department = {d1, d2}
    Key = {k1, k2}
    Perm = {x1}
    Everywhere = Everywhere
    Horizon = 1
    MaxHeld = 2
    MaxRows = 2
    MaxBestowed = 2
CHECK_DEADLOCK FALSE
SYMMETRY Interchangeable
INVARIANTS
    LossIsPublished
    RowOutlivesTokens
    AuthorityRooted
    CapabilityRooted

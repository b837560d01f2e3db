SPECIFICATION MCSpec
CONSTANTS
    Parts = {"handoffs"}
    User = {u1}
    Service = {s1, s2}
    Client = {}
    Persistent = {}
    Role = {r1, r2}
    Jti = {j1, j2}
    Global = Global
    NoJti = NoJti
    Sec = 1
    TTL = 1
    Skew = 1
    Retention = 3
    IdentityRetention = 3
    MaxOffline = 1
    SavedMaxAge = 1
    HttpTimeout = 1
    Lifetimes = {}
    MaxTokens = 2
    MaxRevocations = 1
    MaxGrants = 1
    MaxPolls = 1
    MaxNow = 2
    Person = {}
    Department = {}
    Key = {}
    Perm = {}
    Everywhere = Everywhere
    Horizon = 0
    MaxHeld = 0
    MaxRows = 0
    MaxBestowed = 0
CHECK_DEADLOCK FALSE
INVARIANT LossIsCovered

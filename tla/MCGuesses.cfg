CONSTANTS
    u1 = u1
    q1 = q1
    q2 = q2
    s1 = s1
    s2 = s2
    User = {u1}
    Google = {u1}
    Personal = {u1}
    Request = {q1, q2}
    SessionId = {s1, s2}
    Free = Free
    MaxAttempts = 2
    Lockout = 2
    Admins = TRUE
    MaxNow = 3
    MaxPins = 2
    MaxUncounted = 3
    k1 = k1
    k2 = k2
    Kid = {k1, k2}
    None = None
    MinRefresh = 2
    Stale = 3
    Usable = 4
    Timeout = 1
    Horizon = 7
SPECIFICATION MCSpec
CHECK_DEADLOCK FALSE
SYMMETRY Interchangeable
INVARIANT GuessesBounded

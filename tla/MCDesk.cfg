CONSTANTS
    q1 = q1
    q2 = q2
    p1 = p1
    p2 = p2
    p3 = p3
    c1 = c1
    n1 = n1
    n2 = n2
    r1 = r1
    r2 = r2
    Request = {q1, q2}
    Never = Never
    Year = 2
    ReopenWindow = 1
    Minutes = {1}
    MaxTickets = 2
    MaxHops = 2
    Horizon = 2
    Person = {p1, p2, p3}
    Nobody = Nobody
    Caller = {c1}
    MaxChain = 3
    Rule <- MCRules
    MaxRules = 2
    MaxEdits = 2
    Notice = {n1, n2}
    Retry = {r1, r2}
    MaxFailures = 3
SPECIFICATION MCSpec
CHECK_DEADLOCK FALSE
SYMMETRY Interchangeable
INVARIANT NumbersRunOn
INVARIANT ClocksRight
INVARIANT RoutedRight
INVARIANT NoticesKept

CONSTANTS
    p1 = p1
    p2 = p2
    h1 = h1
    h2 = h2
    Process = {p1, p2}
    Handler = {h1, h2}
    MaxUse = 2
    MaxToggles = 1
    MaxTrouble = 1
SPECIFICATION BeatsSpec
CHECK_DEADLOCK FALSE
INVARIANT UsageKept
INVARIANT UsageCountedOnce
PROPERTY SwitchReachesEveryProcess

SPECIFICATION MCSpec
CONSTANTS
    Event = {e1, e2}
    Publisher = {p1, p2}
    Batch = 1
    MaxCrashes = 2
    MaxStrays = 1
    Worker = {w1, w2, w3}
    Bucket = {b1}
    Limit = 2
    KeepWindows = 1
    Lag = 1
    Horizon = 2
CHECK_DEADLOCK FALSE
INVARIANT DeliveredIsCollected
PROPERTIES DeliveryStands HistoryIsFaithful OutboxDrains KeepsBudget EveryCallAnswered

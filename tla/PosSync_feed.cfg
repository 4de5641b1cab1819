SPECIFICATION FairSpec
CONSTANTS
    Orders = {}
    Variants = {v1, v2}
    Editors = {}
    Forms = {}
    Counts = {}
    Opening = {1}
    NoItem = NoItem
    NoForm = NoForm
    MaxQty = 1
    MaxStock = 2
    MaxDrift = 0
    Workers = {w1, w2}
    PosCounts = {0}
    SubtractWebOrders = FALSE
    NoWorker = NoWorker
    NoRun = NoRun
    NotListed = NotListed
    MaxTime = 2
    MaxSent = 2
    MaxCrashes = 2
INVARIANTS
    NoOldCountWins
PROPERTIES
    FeedSpec
    LockIsFreed
CHECK_DEADLOCK FALSE

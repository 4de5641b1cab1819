SPECIFICATION Spec
CONSTANTS
    Orders = {o1}
    Variants = {v1}
    Editors = {e1}
    Forms = {}
    Counts = {}
    Opening = {2}
    NoItem = NoItem
    NoForm = NoForm
    MaxQty = 2
    MaxStock = 2
    MaxDrift = 0
    Workers = {w1}
    PosCounts = {0}
    SubtractWebOrders = TRUE
    NoWorker = NoWorker
    NoRun = NoRun
    NotListed = NotListed
    MaxTime = 2
    MaxSent = 1
    MaxCrashes = 0
SYMMETRY Symmetry
INVARIANTS
    TypeOK
PROPERTIES
    OrdersMoveStockAsFormula
CHECK_DEADLOCK FALSE

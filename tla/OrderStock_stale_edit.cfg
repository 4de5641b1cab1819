SPECIFICATION Spec
CONSTANTS
    Orders = {o1}
    Variants = {v1}
    Editors = {e1, e2}
    Forms = {}
    Counts = {}
    Opening = {2}
    NoItem = NoItem
    NoForm = NoForm
    MaxQty = 2
    MaxStock = 2
    MaxDrift = 1
SYMMETRY Symmetry
INVARIANTS
    EditsKeepStockInStep
CHECK_DEADLOCK FALSE

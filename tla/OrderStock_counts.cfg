SPECIFICATION Spec
CONSTANTS
    Orders = {o1, o2}
    Variants = {v1}
    Editors = {e1}
    Forms = {f1}
    Counts = {1}
    Opening = {2}
    NoItem = NoItem
    NoForm = NoForm
    MaxQty = 2
    MaxStock = 2
    MaxDrift = 0
SYMMETRY Symmetry
INVARIANTS
    ReservedOnlyWhilePending
PROPERTIES
    PromisesKept
    OnlyFormsGoUnaudited
CHECK_DEADLOCK FALSE

SPECIFICATION FairSpec
CONSTANTS
    Orders = {o1}
    Variants = {v1, v2}
    Editors = {e1, e2}
    Forms = {}
    Counts = {}
    Opening = {2}
    NoItem = NoItem
    NoForm = NoForm
    MaxQty = 2
    MaxStock = 2
    MaxDrift = 1
INVARIANTS
    TypeOK
    OrderHoldsItsLines
    NeverHoldsMoreThanOrdered
PROPERTIES
    LinesFinalOncePicked
    ExpiredRowsGo
CHECK_DEADLOCK FALSE

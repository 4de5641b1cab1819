SPECIFICATION Spec
CONSTANTS
    Variants = {v1, v2}
    Requests = {r1, r2}
    MaxQty = 2
    MaxStock = 2
    Prices = {1, 2}
    Quantities = {1, 2}
    Rates = {1}
    Thresholds = {3}
    None = None
    Products = {p1, p2}
    Categories = {c1, c2}
    Brands = {b1, b2}
    Bounds = {12000}
    Attributes = {a1, a2}
    ValueSlugs = {s1, s2}
INVARIANTS
    TabsAddUp
    TotalsAddUp
    LinesAreWhatTheyCost
    MoreNeverCostsDelivery
    CountsAreResults
    AdvertisedAsSold
    MessageFits
SYMMETRY Symmetry
CHECK_DEADLOCK FALSE

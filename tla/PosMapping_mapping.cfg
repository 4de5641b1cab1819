SPECIFICATION Spec
CONSTANTS
    Skus = {s1, s2}
    Variants = {v1, v2}
    Requests = {r1, r2}
    Reports = {}
    NoSku = NoSku
    NoVariant = NoVariant
    Idle = Idle
    MaxBulk = 2
INVARIANTS
    HiddenIsUnmapped
    UnmappedCountIsItsTab
    TrailTellsMapping
PROPERTIES
    RemovedBeforeRemapped
    DecisionsSurviveReports
SYMMETRY Symmetry

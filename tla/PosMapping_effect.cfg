SPECIFICATION FairSpec
CONSTANTS
    Skus = {s1, s2}
    Variants = {v1, v2}
    Requests = {r1}
    Reports = {{s1}, {s1, s2}}
    NoSku = NoSku
    NoVariant = NoVariant
    Idle = Idle
    MaxBulk = 1
PROPERTIES
    MappingTakesEffect

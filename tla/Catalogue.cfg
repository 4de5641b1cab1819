SPECIFICATION Spec
CONSTANTS
    Images = {i1, i2, i3}
    Variants = {1, 2}
    Values = {a1, a2}
    Products = {p1, p2}
    Slugs = {s1, s2, s3}
    Requests = {r1, r2}
    NoProduct = NoProduct
    NoSlug = NoSlug
    Skus = {k1, k2}
    NoBrand = NoBrand
    NoSize = NoSize
    NoVariant = NoVariant
    ProductNames = {p1, p2}
    BrandNames = {r1, r2}
    ProductSkus = {}
    ProductValues = {a1}
    Likenesses = {599, 715}
    SUGGESTION_COUNT = 1
INVARIANTS
    AtMostOnePrimary
    PrimaryStays
    OneDefault
    NoTwins
    LinksKeepWorking
    PruningHidesNothing
    ReviewsGoThrough
    OtherSizesAreShown
    FoundByWhatItIs
SYMMETRY Symmetry
CHECK_DEADLOCK FALSE

SPECIFICATION FairSpec
CONSTANTS
    factory = factory
    small = small
    fit = fit
    wide = wide
    huge = huge
    part = part
    NoImage = NoImage
    Erased = Erased
    EmptyMd5 = EmptyMd5
    Factory = factory
    Image <- AllImages
    Kind <- AllKind
    Target <- AnyTarget
    Within <- AnyWithin
INVARIANTS
    TypeOK
    NeverStartsBrokenApp
    FinishedMeansInstalled
PROPERTIES
    RequestAnswered
    UpdateCompletes

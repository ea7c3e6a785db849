SPECIFICATION FairSpec
CONSTANTS
    LimitAlone = 2
    LimitConnected = 3
    CsqLimit = 1
    CsqWidth = 4
    Errors <- AllErrors
PROPERTY
    EveryErrorHandled

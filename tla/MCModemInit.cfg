SPECIFICATION ModemSpec
CONSTANTS
    LimitAlone = 1
    LimitConnected = 2
    CsqLimit = 1
    CsqWidth = 3
    Errors <- TwoErrors
    home = home
    second = second
    unlisted = unlisted
    Card <- Cards
    Number <- Digits
    ApnCount <- Entries
    Dials <- Accepted
    IdTries = 2
    RegTries = 2
INVARIANTS
    ModemTypeOK
    FailureOnRecord
    CardKnown
PROPERTIES
    TornDownForCause
    LinkErrorHandled
    DeviceKeepsTrying

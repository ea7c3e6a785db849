SPECIFICATION FairSpec
CONSTANTS
    HandshakeCount = 1
    ErrorMax = 1
    ErrorWidth = 3
    AvrTries = 2
    AskTries = 2
    Block = 2
    Page = 2
    CountWidth = 4
    ZoneLimit = 6
    Lengths <- Files
    MaxRequests = 2
    MaxDownloads = 1
INVARIANTS
    TypeOK
    ReportTruthful
    PortHeld
    TargetHeard
PROPERTIES
    RequestServed
    RunsEnd

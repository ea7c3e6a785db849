SPECIFICATION FairSpec
CONSTANTS
    normal = normal
    ready = ready
    empty = empty
    name = name
    App <- MCApp
    NormalApp = normal
    Name <- MCName
    Empty = empty
    EvenLength <- SomeConfigs
    Fresh = TRUE
PROPERTIES
    CommissionedNeverFaults
    AtomicWrites
    BootCompletes

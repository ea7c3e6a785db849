SPECIFICATION WritersSpec
CONSTANTS
    normal = normal
    ready = ready
    empty = empty
    name = name
    App <- MCApp
    NormalApp = normal
    Name <- MCName
    Empty = empty
    EvenLength <- SomeConfigs
    Fresh = TRUE
INVARIANT
    LastSaveWins
PROPERTIES
    CopiesKeptUnlessOpen

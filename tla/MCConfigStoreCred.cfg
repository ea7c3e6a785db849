SPECIFICATION Spec
CONSTANTS
    normal = normal
    ready = ready
    empty = empty
    name = name
    App <- MCApp
    NormalApp = normal
    Name <- MCName
    Empty = empty
    EvenLength <- SomeConfigs
    Fresh = FALSE
PROPERTY
    CredentialsRestored

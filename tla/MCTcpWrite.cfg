SPECIFICATION FairSpec
CONSTANTS
    mainloop = mainloop
    appev = appev
    Nothing = Nothing
    Writer <- One
    Calls = 4
    Posts = 2
    MboxSize = 1
INVARIANTS
    TypeOK
    ReportedIsSent
    NoLostBuffer
    RefusedNotSent
PROPERTY
    RecordFreedAgain
CHECK_DEADLOCK FALSE

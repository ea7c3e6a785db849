SPECIFICATION Spec
CONSTANTS
    mainloop = mainloop
    appev = appev
    Nothing = Nothing
    Writer <- Two
    Calls = 1
    Posts = 2
    MboxSize = 2
INVARIANT
    ReportedIsSent
CHECK_DEADLOCK FALSE

SPECIFICATION FairSpec
CONSTANTS
    mainloop = mainloop
    isp = isp
    tcpip = tcpip
    b1 = b1
    second_timer = second_timer
    feed_watchdog = feed_watchdog
    wait_rst = wait_rst
    Idle = Idle
    Slots = 2
    MailboxSize = 2
    Poster <- Posters
    Block <- Blocks
    TickJob <- TickJobs
    ThreadJob <- ThreadJobs
    User <- Users
    Ticks <- Periods
    Entries = 2
    MaxAge = 3
INVARIANTS
    TypeOK
    NothingLeaks
PROPERTIES
    JobsInOrder
    NotEarly
    TimersFire

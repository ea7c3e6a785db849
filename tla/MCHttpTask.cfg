SPECIFICATION FairSpec
CONSTANTS
    Xmpp = xmpp
    Http = http
    p1 = p1
    p2 = p2
    NoPcb = NoPcb
    Client <- BothClients
    LongLived <- OnlyXmpp
    KeepAlive <- OnlyHttp
    Uses <- EachAlone
    Pcb <- TwoPcbs
    DnsRounds = 2
    MaxQueries <- Queries
    AttemptLimit = 1
    AttemptWidth = 4
INVARIANTS
    TypeOK
    
    StatusTruthful
    ResetInTime
PROPERTIES
    XmppRecovers
    TaskIsOver

SPECIFICATION FairSpec
CONSTANTS
    Onion <- Onions
    LongName = {"a-very-long-name.onion"}
    Timeout = 5
    Pause = 2
    Pieces <- Segments
    HelloSize = 2
    HostSettings <- Makers
    JoinSettings <- Joiners
    Lan <- LanHost
    Name <- Service
    OtherNames = {"SERVICE.ONION"}
    FreePort = 50000
CHECK_DEADLOCK FALSE
INVARIANTS
    TestSetupWorks

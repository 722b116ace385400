SPECIFICATION FairSpec
CONSTANTS
    alice = alice
    bob = bob
    carol = carol
    Identity <- Identities
    MaxSend = 2
    SocketCap = 1
CHECK_DEADLOCK FALSE
PROPERTIES
    SentIsShown
    ExitNoticed
    SocketFreed

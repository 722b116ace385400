SPECIFICATION FairSpec
CONSTANTS
    alice = alice
    bob = bob
    carol = carol
    Identity <- Identities
    MaxLines = 1
    SocketCap = 1
CHECK_DEADLOCK FALSE
PROPERTIES
    TypedIsPrinted
    FollowsPeer

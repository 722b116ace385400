SPECIFICATION Spec
CONSTANTS
    alice = alice
    bob = bob
    carol = carol
    Identity <- Identities
    MaxSend = 1
    SocketCap = 1
CHECK_DEADLOCK FALSE
PROPERTIES
    ClosedChatRefusesMessages

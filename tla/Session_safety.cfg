SPECIFICATION Spec
CONSTANTS
    alice = alice
    bob = bob
    carol = carol
    Identity <- Identities
    MaxSend = 3
    SocketCap = 2
SYMMETRY Symmetry
CHECK_DEADLOCK FALSE
INVARIANTS
    TypeOK
    ShowsWhatWasSent
    TalksToInviter
    ReadsEveryFrame
PROPERTIES
    KeepsPromise
